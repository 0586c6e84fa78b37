-------------------------- MODULE SettlementProofs --------------------------
(***************************************************************************)
(* Fulfilment for every number of slots, events and faults and every set   *)
(* of documents, continued: what holds once events have been handled.  On  *)
(* the types of FulfilmentProofs rest the invariants of the refund, the    *)
(* payment link, the messages, the counts, the points, the payment         *)
(* records, the confirmation, what is heard and the calendar, which say    *)
(* how far the handler of each slot has come.                              *)
(***************************************************************************)
EXTENDS FulfilmentProofs

USE DEF Fields, BookingFields, SaleFields, AccountFields, Kinds, Sold, Invoicing

-----------------------------------------------------------------------------
(* Refunds.                                                                *)

\* A step of the refund was passed over; the credit note is there, and on the refund.
Passed == missed \cap {"note", "link_note"} # {}
Settled == remote.note /\ remote.noted

\* What is known of the refund.
RefundFacts ==
    /\ remote.note => "money" \in Approvals
    /\ remote.noted => remote.note
    /\ remote.cash => Logged({"refund_completed"}) # {}
    /\ Logged({"refund_completed"}) # {} => "money" \in Approvals
    /\ Approvals \subseteq {"points", "money"}

\* What the handled events have left behind.
RefundDone ==
    Passed \/ /\ \A n \in Handled({"refund_approved"}) : log[n].method # "points" => Settled
              /\ \A n \in Handled({"refund_completed"}) : Settled /\ remote.cash

\* How far the handler of a slot has come.
RefundHand(s) ==
    /\ Ev(s).type = "refund_approved" /\ Ev(s).method = "points" => slot[s].todo = <<>>
    /\ Ev(s).type = "refund_approved" /\ Ev(s).method # "points" =>
           \/ slot[s].todo = << <<"note", FALSE>> >>
           \/ slot[s].todo = << <<"link_note">> >> /\ remote.note
           \/ slot[s].todo = <<>> /\ (Passed \/ Settled)
    /\ Ev(s).type = "refund_completed" =>
           \/ slot[s].todo = << <<"note", TRUE>> >>
           \/ slot[s].todo = << <<"link_note">> >> /\ remote.note /\ remote.cash
           \/ slot[s].todo = <<>> /\ (Passed \/ (Settled /\ remote.cash))

RefundInv ==
    doc.kind = "booking" /\ doc.invoicing =>
        /\ RefundFacts /\ RefundDone
        /\ \A s \in Slot : slot[s].ev # 0 => RefundHand(s)

\* A list of one step, and what follows it.
LEMMA OneLeft ==
  ASSUME NEW x, NEW y
  PROVE  /\ Head(<<x>>) = x /\ Tail(<<x>>) = <<>> /\ <<x>> # <<>>
         /\ <<>> \o <<>> = <<>> /\ <<y>> \o <<>> = <<y>>
  OBVIOUS

\* What the slots may do to a refund.
Refunding(s) ==
    /\ remote.note => remote'.note
    /\ remote.noted => remote'.noted
    /\ remote.cash => remote'.cash
    /\ Passed => Passed'
    /\ remote'.note => "money" \in Approvals
    /\ remote'.noted => remote'.note
    /\ remote'.cash => Logged({"refund_completed"}) # {}
    /\ slot' = [slot EXCEPT ![s] = slot'[s]]
    /\ log' = log /\ doc' = doc
    /\ slot'[s].ev # 0 => RefundHand(s)'

\* That is enough.
LEMMA RefundKept ==
  ASSUME Common, RefundInv, doc.kind = "booking", doc.invoicing, NEW s \in Slot, Refunding(s),
         \/ queue' = queue
         \/ /\ slot[s].ev # 0 /\ slot[s].todo = <<>> /\ queue' = queue \ {slot[s].ev}
            /\ remote' = remote /\ missed' = missed
  PROVE  RefundInv'
  <1>0. slot \in [Slot -> Hand(AnyStep)]
    BY DEF Common, Typed
  <1>1. RefundFacts'
    BY DEF Refunding, RefundInv, RefundFacts, Approvals, Logged
  <1>2. ASSUME NEW t \in Slot, slot'[t].ev # 0 PROVE RefundHand(t)'
    <2>1. CASE t = s
      BY <1>2, <2>1 DEF Refunding
    <2>2. CASE t # s
      <3>1. slot'[t] = slot[t]
        BY <1>0, <2>2 DEF Refunding
      <3>2. RefundHand(t)
        BY <1>2, <3>1 DEF RefundInv
      <3> QED
        BY <3>1, <3>2 DEF Refunding, RefundHand, Ev, Settled
    <2> QED
      BY <2>1, <2>2
  <1>3. RefundDone'
    <2>1. SUFFICES ASSUME ~Passed' PROVE RefundDone'
      BY DEF RefundDone
    <2>2. ~Passed
      BY <2>1 DEF Refunding
    <2>3. ASSUME NEW n \in Handled({"refund_approved"})', log'[n].method # "points" PROVE Settled'
      <3>1. CASE n \in Handled({"refund_approved"})
        BY <2>2, <2>3, <3>1 DEF RefundInv, RefundDone, Refunding, Settled
      <3>2. CASE n \notin Handled({"refund_approved"})
        <4>1. n = slot[s].ev /\ Ev(s).type = "refund_approved" /\ Ev(s).method # "points"
              /\ slot[s].ev # 0 /\ slot[s].todo = <<>>
          BY <2>3, <3>2 DEF Handled, Logged, Refunding, Ev
        <4>2. RefundHand(s)
          BY <4>1 DEF RefundInv
        <4>3. Settled
          BY <2>2, <4>1, <4>2 DEF RefundHand
        <4> QED
          BY <4>3 DEF Refunding, Settled
      <3> QED
        BY <3>1, <3>2
    <2>4. ASSUME NEW n \in Handled({"refund_completed"})' PROVE Settled' /\ remote'.cash
      <3>1. CASE n \in Handled({"refund_completed"})
        BY <2>2, <2>4, <3>1 DEF RefundInv, RefundDone, Refunding, Settled
      <3>2. CASE n \notin Handled({"refund_completed"})
        <4>1. n = slot[s].ev /\ Ev(s).type = "refund_completed"
              /\ slot[s].ev # 0 /\ slot[s].todo = <<>>
          BY <2>4, <3>2 DEF Handled, Logged, Refunding, Ev
        <4>2. RefundHand(s)
          BY <4>1 DEF RefundInv
        <4>3. Settled /\ remote.cash
          BY <2>2, <4>1, <4>2 DEF RefundHand
        <4> QED
          BY <4>3 DEF Refunding, Settled
      <3> QED
        BY <3>1, <3>2
    <2> QED
      BY <2>3, <2>4 DEF RefundDone
  <1> QED
    BY <1>1, <1>2, <1>3 DEF RefundInv

\* The credit note.
LEMMA RefundNote ==
  ASSUME Common, RefundInv, doc.kind = "booking", doc.invoicing, NEW s \in Slot, slot[s].todo # <<>>,
         Op(s) = "note", CreateCreditNote(s)
  PROVE  Refunding(s)
  <1> DEFINE e == Ev(s)
  <1>0. /\ Typed /\ Apart /\ DOMAIN remote = BookingFields
        /\ slot \in [Slot -> Hand(AnyStep)]
    BY DEF Common, Typed, Shaped
  <1>1. /\ Head(slot[s].todo) \in Allowed(e) /\ e \in Event /\ slot[s].ev # 0
        /\ slot[s].ev \in DOMAIN log
    BY <1>0, Working
  <1>2. e.type \in {"refund_approved", "refund_completed"}
    <2>1. "note" \in Ops(e)
      BY <1>1, StepIs DEF Op
    <2> QED
      BY <1>1, <2>1 DEF Ops, Event, BookingEvent, BookingTypes, Invoicing
  <1>3. RefundHand(s)
    BY <1>1 DEF RefundInv
  <1> DEFINE cash == e.type = "refund_completed"
  <1>4. slot[s].todo = << <<"note", cash>> >> /\ "money" \in Approvals
    <2>1. CASE e.type = "refund_approved"
      <3>1. slot[s].todo # << <<"link_note">> >>
        <4>1. slot[s].todo = << <<"link_note">> >> => Op(s) = "link_note"
          BY OneLeft DEF Op
        <4> QED
          BY <4>1
      <3>2. slot[s].todo = << <<"note", FALSE>> >> /\ e.method # "points"
        BY <1>3, <2>1, <3>1 DEF RefundHand
      <3>3. e.method \in Approvals
        BY <1>1, <2>1 DEF Approvals, Ev
      <3> QED
        BY <2>1, <3>2, <3>3 DEF RefundInv, RefundFacts
    <2>2. CASE e.type = "refund_completed"
      <3>1. slot[s].todo # << <<"link_note">> >>
        <4>1. slot[s].todo = << <<"link_note">> >> => Op(s) = "link_note"
          BY OneLeft DEF Op
        <4> QED
          BY <4>1
      <3>2. slot[s].todo = << <<"note", TRUE>> >>
        BY <1>3, <2>2, <3>1 DEF RefundHand
      <3>3. slot[s].ev \in Logged({"refund_completed"})
        BY <1>1, <2>2 DEF Logged, Ev
      <3> QED
        BY <2>2, <3>2, <3>3 DEF RefundInv, RefundFacts
    <2> QED
      BY <1>2, <2>1, <2>2
  <1>5. /\ Head(slot[s].todo) = <<"note", cash>> /\ Tail(slot[s].todo) = <<>>
        /\ Arg(s, 2) = cash
    BY <1>4, OneLeft DEF Arg
  <1> DEFINE E(r) == NumberedNote(cash, r)
             rest == After(s, << <<"link_note">> >>)
             none == After(s, <<>>)
  <1>6. /\ rest \in [ev : {slot[s].ev}, todo : {<< <<"link_note">> >>}, got : {slot[s].got},
                     rows : {slot[s].rows}]
        /\ none \in [ev : {slot[s].ev}, todo : {<<>>}, got : {slot[s].got}, rows : {slot[s].rows}]
    <2>1. << <<"link_note">> >> \o Tail(slot[s].todo) = << <<"link_note">> >>
          /\ <<>> \o Tail(slot[s].todo) = <<>>
      BY <1>5, OneLeft
    <2> QED
      BY <1>0, <2>1, AfterIs
  <1>7. /\ \/ /\ remote' \in {E(remote), E(E(remote))}
              /\ Becomes(s, rest) /\ UNCHANGED missed
           \/ /\ remote' \in {remote, E(remote)}
              /\ Becomes(s, none) /\ missed' = missed \cup {"note"}
        /\ UNCHANGED <<doc, log, queue>>
    <2>1. none # Idle
      BY <1>1, <1>6 DEF Idle
    <2>2. Head(slot[s].todo)[1] = "note"
      BY <1>5
    <2> QED
      BY <1>5, <2>1, <2>2 DEF CreateCreditNote, Call, PassOver, Onward
  <1>8. /\ E(remote).note /\ E(E(remote)).note
        /\ E(remote).noted = remote.noted /\ E(E(remote)).noted = remote.noted
        /\ remote.cash => E(remote).cash /\ E(E(remote)).cash
        /\ cash => E(remote).cash /\ E(E(remote)).cash
        /\ E(remote).cash => remote.cash \/ cash
        /\ E(E(remote)).cash => remote.cash \/ cash
    BY <1>0 DEF NumberedNote
  <1> HIDE DEF E
  <1>9. /\ remote.note => remote'.note
        /\ remote.noted => remote'.noted
        /\ remote.cash => remote'.cash
        /\ remote'.noted => remote'.note
        /\ remote'.cash => remote.cash \/ cash
        /\ Passed => Passed'
    BY <1>7, <1>8 DEF Passed, RefundInv, RefundFacts
  <1>10. cash => Logged({"refund_completed"}) # {}
    BY <1>1 DEF Logged, Ev
  <1>11. slot' = [slot EXCEPT ![s] = slot'[s]] /\ slot'[s] \in {rest, none}
    BY <1>0, <1>7 DEF Becomes
  <1>12. RefundHand(s)'
    <2>1. Ev(s)' = e
      BY <1>6, <1>7, <1>11 DEF Ev
    <2>2. \/ slot'[s].todo = << <<"link_note">> >> /\ remote'.note /\ (cash => remote'.cash)
          \/ slot'[s].todo = <<>> /\ Passed'
      <3>1. CASE remote' \in {E(remote), E(E(remote))} /\ Becomes(s, rest)
        <4>1. slot'[s] = rest
          BY <1>0, <3>1 DEF Becomes
        <4>2. slot'[s].todo = << <<"link_note">> >>
          BY <1>6, <4>1
        <4>3. CASE remote' = E(remote)
          BY <1>8, <4>2, <4>3
        <4>4. CASE remote' = E(E(remote))
          BY <1>8, <4>2, <4>4
        <4> QED
          BY <3>1, <4>3, <4>4
      <3>2. CASE Becomes(s, none) /\ missed' = missed \cup {"note"}
        <4>1. slot'[s] = none
          BY <1>0, <3>2 DEF Becomes
        <4>2. slot'[s].todo = <<>>
          BY <1>6, <4>1
        <4> QED
          BY <3>2, <4>2 DEF Passed
      <3> QED
        BY <1>7, <3>1, <3>2
    <2>3. e.type = "refund_approved" => e.method # "points"
      <3>1. slot[s].todo # <<>>
        OBVIOUS
      <3> QED
        BY <1>3, <3>1 DEF RefundHand
    <2> QED
      BY <1>2, <2>1, <2>2, <2>3 DEF RefundHand
  <1> QED
    BY <1>4, <1>7, <1>9, <1>10, <1>11, <1>12 DEF Refunding, RefundInv, RefundFacts

\* The refund that carries its number.
LEMMA RefundLink ==
  ASSUME Common, RefundInv, doc.kind = "booking", doc.invoicing, NEW s \in Slot, slot[s].todo # <<>>,
         Op(s) = "link_note", LinkCreditNote(s)
  PROVE  Refunding(s)
  <1> DEFINE e == Ev(s)
  <1>0. /\ Typed /\ Apart /\ DOMAIN remote = BookingFields
        /\ slot \in [Slot -> Hand(AnyStep)]
    BY DEF Common, Typed, Shaped
  <1>1. /\ Head(slot[s].todo) \in Allowed(e) /\ e \in Event /\ slot[s].ev # 0
        /\ slot[s].ev \in DOMAIN log
    BY <1>0, Working
  <1>2. e.type \in {"refund_approved", "refund_completed"}
    <2>1. "link_note" \in Ops(e)
      BY <1>1, StepIs DEF Op
    <2> QED
      BY <1>1, <2>1 DEF Ops, Event, BookingEvent, BookingTypes, Invoicing
  <1>3. RefundHand(s)
    BY <1>1 DEF RefundInv
  <1>4. /\ slot[s].todo = << <<"link_note">> >> /\ remote.note
        /\ e.type = "refund_completed" => remote.cash
        /\ e.type = "refund_approved" => e.method # "points"
    <2>1. \A b : slot[s].todo # << <<"note", b>> >>
      <3>1. \A b : slot[s].todo = << <<"note", b>> >> => Op(s) = "note"
        BY OneLeft DEF Op
      <3> QED
        BY <3>1
    <2> QED
      BY <1>2, <1>3, <2>1 DEF RefundHand
  <1> DEFINE E(r) == LinkNote(r)
             none == After(s, <<>>)
  <1>5. Tail(slot[s].todo) = <<>> /\ <<>> \o Tail(slot[s].todo) = <<>>
        /\ Head(slot[s].todo)[1] = "link_note"
    BY <1>4, OneLeft
  <1>6. none \in [ev : {slot[s].ev}, todo : {<<>>}, got : {slot[s].got}, rows : {slot[s].rows}]
    BY <1>0, <1>5, AfterIs
  <1>7. /\ Becomes(s, none)
        /\ \/ remote' \in {E(remote), E(E(remote))} /\ UNCHANGED missed
           \/ remote' \in {remote, E(remote)} /\ missed' = missed \cup {"link_note"}
        /\ UNCHANGED <<doc, log, queue>>
    <2>1. none # Idle
      BY <1>1, <1>6 DEF Idle
    <2> QED
      BY <1>5, <2>1 DEF LinkCreditNote, Attempt, Call, PassOver, Onward
  <1>8. /\ E(remote).noted /\ E(E(remote)).noted
        /\ E(remote).note = remote.note /\ E(E(remote)).note = remote.note
        /\ E(remote).cash = remote.cash /\ E(E(remote)).cash = remote.cash
    BY <1>0 DEF LinkNote
  <1> HIDE DEF E
  <1>9. /\ remote'.note = remote.note /\ remote'.cash = remote.cash
        /\ remote.noted => remote'.noted
        /\ remote'.noted \/ Passed'
        /\ Passed => Passed'
    BY <1>7, <1>8 DEF Passed
  <1>10. slot' = [slot EXCEPT ![s] = slot'[s]] /\ slot'[s] = none
    BY <1>0, <1>7 DEF Becomes
  <1>11. RefundHand(s)'
    <2>1. Ev(s)' = e /\ slot'[s].todo = <<>>
      BY <1>6, <1>7, <1>10 DEF Ev
    <2> QED
      BY <1>2, <1>4, <1>9, <2>1 DEF RefundHand, Settled
  <1> QED
    BY <1>4, <1>7, <1>9, <1>10, <1>11 DEF Refunding, RefundInv, RefundFacts

\* Every step of a slot.
LEMMA RefundStep ==
  ASSUME Common, RefundInv, doc.kind = "booking", doc.invoicing, NEW s \in Slot, Step(s)
  PROVE  RefundInv'
  <1>0. /\ Typed /\ Apart /\ DOMAIN remote = BookingFields /\ doc.kind \in Kinds
        /\ slot \in [Slot -> Hand(AnyStep)]
    BY DEF Common, Typed, Shaped
  <1>1. /\ remote.note => "money" \in Approvals
        /\ remote.noted => remote.note
        /\ remote.cash => Logged({"refund_completed"}) # {}
    BY DEF RefundInv, RefundFacts
  <1>2. CASE End(s)
    <2>1. slot'[s] = Idle /\ slot' = [slot EXCEPT ![s] = Idle]
      BY <1>0, <1>2 DEF End, Becomes
    <2>2. slot'[s].ev = 0 /\ slot' = [slot EXCEPT ![s] = slot'[s]]
      BY <2>1 DEF Idle
    <2>3. UNCHANGED <<doc, remote, log, missed>>
      BY <1>2 DEF End
    <2>4. Refunding(s)
      BY <1>1, <2>2, <2>3 DEF Refunding, Passed
    <2> QED
      BY <1>2, <2>4, RefundKept DEF End
  <1>3. CASE Crash(s)
    <2>1. slot'[s] = Idle /\ slot' = [slot EXCEPT ![s] = Idle]
      BY <1>0, <1>3 DEF Crash, Becomes
    <2>2. slot'[s].ev = 0 /\ slot' = [slot EXCEPT ![s] = slot'[s]]
      BY <2>1 DEF Idle
    <2>3. UNCHANGED <<doc, remote, log, missed>>
      BY <1>3 DEF Crash
    <2>4. Refunding(s)
      BY <1>1, <2>2, <2>3 DEF Refunding, Passed
    <2> QED
      BY <1>3, <2>4, RefundKept DEF Crash
  <1>4. ASSUME NEW n \in queue, Starts(s, n) PROVE RefundInv'
    <2> DEFINE l == [Idle EXCEPT !.ev = n, !.todo = Steps(log[n])]
    <2>1. l.ev = n /\ l.todo = BookingSteps(log[n])
      BY DEF Idle, Steps
    <2> HIDE DEF l
    <2>2. slot' = [slot EXCEPT ![s] = l] /\ slot'[s] = l
          /\ UNCHANGED <<doc, remote, log, queue, missed>>
      BY <1>0, <1>4 DEF Starts, Becomes, l
    <2>3. log[n].type = "refund_approved" /\ log[n].method = "points" => l.todo = <<>>
      BY <2>1 DEF BookingSteps, RefundApprovedSteps, Trigger
    <2>4. log[n].type = "refund_approved" /\ log[n].method # "points"
              => l.todo = << <<"note", FALSE>> >>
      BY <2>1 DEF BookingSteps, RefundApprovedSteps, Trigger
    <2>5. log[n].type = "refund_completed" => l.todo = << <<"note", TRUE>> >>
      BY <2>1 DEF BookingSteps, RefundCompletedSteps, Trigger
    <2>6. RefundHand(s)'
      BY <2>1, <2>2, <2>3, <2>4, <2>5 DEF RefundHand, Ev
    <2>7. Refunding(s)
      BY <1>1, <2>2, <2>6 DEF Refunding, Passed
    <2> QED
      BY <2>2, <2>7, RefundKept
  <1>5. CASE slot[s].todo # <<>> /\ Does(s)
    <2>1. Moves(s)
      BY <1>0, <1>5, OperationMoves
    <2>2. CASE Op(s) = "note"
      BY <1>5, <2>1, <2>2, RefundNote, RefundKept DEF Does, Moves, Framed
    <2>3. CASE Op(s) = "link_note"
      BY <1>5, <2>1, <2>3, RefundLink, RefundKept DEF Does, Moves, Framed
    <2>4. CASE Op(s) \notin {"note", "link_note"}
      <3>1. Ev(s) \in Event /\ Op(s) \in Ops(Ev(s))
        BY <1>0, <1>5, Working, StepIs DEF Op
      <3>2. Ev(s).type \notin {"refund_approved", "refund_completed"}
        BY <2>4, <3>1 DEF Ops
      <3>3. {"note", "noted", "cash"} \cap Touches(Op(s)) = {}
        BY <2>4 DEF Touches
      <3>4. /\ remote'.note = remote.note /\ remote'.noted = remote.noted
            /\ remote'.cash = remote.cash
        BY <1>0, <2>1, <3>3 DEF Moves, Framed, Agree
      <3>5. UNCHANGED <<doc, log, queue>> /\ (Passed => Passed')
        BY <2>1 DEF Moves, Framed, Passed
      <3>6. slot' = [slot EXCEPT ![s] = slot'[s]] /\ slot'[s].ev \in {0, slot[s].ev}
        <4>1. CASE Raises(s)
          BY <1>0, <4>1 DEF Raises, Becomes, Idle
        <4>2. CASE Stops(s)
          BY <1>0, <4>2 DEF Stops, Becomes, Hand
        <4>3. ASSUME NEW then \in Follows(s), Goes(s, then)
              PROVE  slot' = [slot EXCEPT ![s] = slot'[s]] /\ slot'[s].ev \in {0, slot[s].ev}
          BY <1>0, <4>3 DEF Goes, Becomes
        <4> QED
          BY <2>1, <4>1, <4>2, <4>3 DEF Moves
      <3>7. slot'[s].ev # 0 => RefundHand(s)'
        BY <3>2, <3>5, <3>6 DEF RefundHand, Ev
      <3>8. Refunding(s)
        BY <1>1, <3>4, <3>5, <3>6, <3>7 DEF Refunding
      <3> QED
        BY <3>5, <3>8, RefundKept
    <2> QED
      BY <2>2, <2>3, <2>4
  <1> QED
    BY <1>0, <1>2, <1>3, <1>4, <1>5, StepCases

\* Every event that is published.
LEMMA RefundHappen ==
  ASSUME Common, RefundInv, doc.kind = "booking", doc.invoicing, Happen
  PROVE  RefundInv'
  <1>0. /\ Typed /\ Apart /\ DOMAIN remote = BookingFields /\ doc.kind \in Kinds /\ Shaped
    BY DEF Common, Typed, Shaped
  <1>1. doc' = doc
    BY <1>0, NextLasting DEF Next, Lasting
  <1>2. PICK e \in Event : Publish(e) /\ Agree(remote, remote', Changes) /\ BookingNews(e)
    BY <1>0, HappenPublishes
  <1> DEFINE n == Len(log) + 1
  <1>3. /\ DOMAIN log' = DOMAIN log \cup {n} /\ n \notin DOMAIN log /\ log'[n] = e
        /\ \A m \in DOMAIN log : log'[m] = log[m]
        /\ queue' = queue \cup {n}
    BY <1>0, <1>1, <1>2, PublishApart
  <1> HIDE DEF n
  <1>4. /\ remote'.note = remote.note /\ remote'.noted = remote.noted
        /\ remote'.cash = remote.cash
    BY <1>0, <1>2 DEF Agree, Changes
  <1>5. UNCHANGED <<slot, missed>>
    BY <1>2 DEF Publish
  <1>6. /\ Approvals' \subseteq Approvals \cup {"points", "money"}
        /\ Approvals \subseteq Approvals'
    <2>1. Approvals \subseteq Approvals'
      BY <1>3 DEF Approvals
    <2>2. ASSUME NEW m \in DOMAIN log', log'[m].type = "refund_approved"
          PROVE  log'[m].method \in Approvals \cup {"points", "money"}
      BY <1>2, <1>3, <2>2 DEF Approvals, BookingNews
    <2> QED
      BY <2>1, <2>2 DEF Approvals
  <1>7. /\ Logged({"refund_completed"}) \subseteq Logged({"refund_completed"})'
        /\ Logged({"refund_completed"})' # {} => "money" \in Approvals
    <2>1. Logged({"refund_completed"}) \subseteq Logged({"refund_completed"})'
      BY <1>3 DEF Logged
    <2>2. ASSUME NEW m \in DOMAIN log', log'[m].type = "refund_completed"
          PROVE  "money" \in Approvals
      <3>1. CASE m = n
        BY <1>2, <1>3, <2>2, <3>1 DEF BookingNews
      <3>2. CASE m # n
        BY <1>3, <2>2, <3>2 DEF Logged, RefundInv, RefundFacts
      <3> QED
        BY <3>1, <3>2
    <2> QED
      BY <2>1, <2>2 DEF Logged
  <1>8. RefundFacts'
    BY <1>4, <1>6, <1>7 DEF RefundInv, RefundFacts
  <1>9. RefundDone'
    <2>1. Handled({"refund_approved"})' \subseteq Handled({"refund_approved"})
      BY <1>3 DEF Handled, Logged
    <2>2. Handled({"refund_completed"})' \subseteq Handled({"refund_completed"})
      BY <1>3 DEF Handled, Logged
    <2>3. \A m \in Handled({"refund_approved"}) : log'[m] = log[m]
      BY <1>3 DEF Handled, Logged
    <2> QED
      BY <1>4, <1>5, <2>1, <2>2, <2>3 DEF RefundInv, RefundDone, Passed, Settled
  <1>10. ASSUME NEW s \in Slot, slot'[s].ev # 0 PROVE RefundHand(s)'
    <2>1. slot[s].ev \in DOMAIN log /\ RefundHand(s)
      BY <1>0, <1>5, <1>10 DEF Apart, Typed, Idle, RefundInv
    <2> QED
      BY <1>3, <1>4, <1>5, <2>1 DEF RefundHand, Ev, Passed, Settled
  <1> QED
    BY <1>8, <1>9, <1>10 DEF RefundInv

\* At the start, and after every step.
LEMMA RefundAlways == Spec => [](Common /\ RefundInv)
  <1>1. Init => RefundInv
    <2> SUFFICES ASSUME Init, doc.kind = "booking", doc.invoicing PROVE RefundFacts /\ RefundDone
                                    /\ \A s \in Slot : slot[s].ev = 0
      BY DEF RefundInv
    <2>1. log = <<>> /\ queue = {} /\ \A s \in Slot : slot[s].ev = 0
      BY DEF Init, InitDelivery, Idle
    <2>2. ~remote.note /\ ~remote.noted /\ ~remote.cash
      BY DEF Init, CancelledBooking, NewBooking
    <2>3. Approvals = {} /\ Logged({"refund_approved"}) = {} /\ Logged({"refund_completed"}) = {}
      BY <2>1 DEF Approvals, Logged
    <2> QED
      BY <2>1, <2>2, <2>3 DEF RefundFacts, RefundDone, Handled
  <1>2. Common /\ RefundInv /\ [Next]_vars => RefundInv'
    <2> SUFFICES ASSUME Common, RefundInv, [Next]_vars PROVE RefundInv'
      OBVIOUS
    <2>0. doc' = doc
      BY NextLasting DEF Common, Typed, Lasting
    <2>1. CASE ~(doc.kind = "booking" /\ doc.invoicing)
      BY <2>0, <2>1 DEF RefundInv
    <2>2. CASE doc.kind = "booking" /\ doc.invoicing /\ Next
      BY <2>2, RefundStep, RefundHappen DEF Next
    <2>3. CASE UNCHANGED vars
      BY <2>3 DEF vars, RefundInv, RefundFacts, RefundDone, RefundHand, Passed, Settled, Ev,
         Approvals, Handled, Logged
    <2> QED
      BY <2>1, <2>2, <2>3
  <1> QED
    BY <1>1, <1>2, CommonInit, CommonNext, PTL DEF Spec

\* When every event of a booking is handled, money that was asked back has its credit note,
\* points have none, and cash leaves with the completion only, unless the note itself failed.
THEOREM Refunds == Spec => []RefundsSettle
  <1>1. Common /\ RefundInv => RefundsSettle
    <2> SUFFICES ASSUME Common, RefundInv, doc.kind = "booking", doc.invoicing, Quiescent, ~Passed
                 PROVE  /\ remote.note <=> "money" \in Approvals
                        /\ remote.noted <=> remote.note
                        /\ remote.cash <=> Logged({"refund_completed"}) # {}
      BY DEF RefundsSettle, Passed
    <2>1. \A types : Handled(types) = Logged(types)
      BY DEF Handled, Quiescent
    <2>2. "money" \in Approvals => Settled
      <3>1. ASSUME "money" \in Approvals PROVE Settled
        <4>1. PICK n \in Logged({"refund_approved"}) : log[n].method = "money"
          BY <3>1 DEF Approvals, Logged
        <4> QED
          BY <2>1, <4>1 DEF RefundInv, RefundDone
      <3> QED
        BY <3>1
    <2>3. Logged({"refund_completed"}) # {} => remote.cash
      BY <2>1 DEF RefundInv, RefundDone
    <2> QED
      BY <2>2, <2>3 DEF RefundInv, RefundFacts, Settled
  <1> QED
    BY <1>1, RefundAlways, PTL

-----------------------------------------------------------------------------
(* Lists where a step of one kind is followed by one of another.           *)

Followed(q, X, Y) ==
    \A i \in DOMAIN q : q[i][1] \in X => \E j \in DOMAIN q : i < j /\ q[j][1] \in Y

\* Lists that need no other step.
LEMMA FollowedNone ==
  ASSUME NEW q, NEW X, NEW Y, ~Has(q, X)
  PROVE  Followed(q, X, Y)
  BY DEF Has, Followed

\* The first step and the others.
LEMMA FollowedRest ==
  ASSUME NEW S, NEW q \in Seq(S), q # <<>>, NEW X, NEW Y, Followed(q, X, Y)
  PROVE  Followed(Tail(q), X, Y) /\ (Head(q)[1] \in X => Has(Tail(q), Y))
  <1>1. /\ Len(q) \in Nat \ {0} /\ DOMAIN q = 1..Len(q) /\ Head(q) = q[1]
        /\ Tail(q) \in Seq(S) /\ Len(Tail(q)) = Len(q) - 1 /\ DOMAIN Tail(q) = 1..(Len(q) - 1)
        /\ \A i \in 1..(Len(q) - 1) : Tail(q)[i] = q[i + 1]
    BY HeadTailProperties, EmptySeq, LenProperties
  <1>2. \A i \in DOMAIN q : i = 1 \/ (i - 1 \in DOMAIN Tail(q) /\ Tail(q)[i - 1] = q[i])
    BY <1>1
  <1>3. \A i \in DOMAIN Tail(q) : i + 1 \in DOMAIN q /\ q[i + 1] = Tail(q)[i]
    BY <1>1
  <1>4. ASSUME NEW i \in DOMAIN Tail(q), Tail(q)[i][1] \in X
        PROVE  \E j \in DOMAIN Tail(q) : i < j /\ Tail(q)[j][1] \in Y
    <2>1. PICK j \in DOMAIN q : i + 1 < j /\ q[j][1] \in Y
      BY <1>3, <1>4 DEF Followed
    <2>2. j # 1 /\ i < j - 1
      BY <1>1, <2>1
    <2> QED
      BY <1>2, <2>1, <2>2
  <1>5. ASSUME Head(q)[1] \in X PROVE Has(Tail(q), Y)
    <2>1. PICK j \in DOMAIN q : 1 < j /\ q[j][1] \in Y
      BY <1>1, <1>5 DEF Followed
    <2>2. j # 1
      BY <2>1
    <2> QED
      BY <1>2, <2>1, <2>2 DEF Has
  <1> QED
    BY <1>4, <1>5 DEF Followed

\* One list after the other.
LEMMA FollowedBoth ==
  ASSUME NEW S, NEW p \in Seq(S), NEW q \in Seq(S), NEW X, NEW Y,
         Followed(p, X, Y) \/ Has(q, Y), Followed(q, X, Y)
  PROVE  Followed(p \o q, X, Y)
  <1>1. /\ p \o q \in Seq(S) /\ DOMAIN p = 1..Len(p) /\ DOMAIN q = 1..Len(q)
        /\ Len(p) \in Nat /\ Len(q) \in Nat /\ DOMAIN (p \o q) = 1..(Len(p) + Len(q))
        /\ \A i \in 1..(Len(p) + Len(q)) :
               (p \o q)[i] = IF i <= Len(p) THEN p[i] ELSE q[i - Len(p)]
    BY ConcatProperties, LenProperties
  <1>2. \A i \in DOMAIN (p \o q) :
            \/ i \in DOMAIN p /\ (p \o q)[i] = p[i]
            \/ i - Len(p) \in DOMAIN q /\ (p \o q)[i] = q[i - Len(p)]
    BY <1>1
  <1>3. /\ \A i \in DOMAIN p : i \in DOMAIN (p \o q) /\ (p \o q)[i] = p[i]
        /\ \A i \in DOMAIN q : i + Len(p) \in DOMAIN (p \o q) /\ (p \o q)[i + Len(p)] = q[i]
    BY <1>1
  <1>4. ASSUME NEW i \in DOMAIN (p \o q), (p \o q)[i][1] \in X
        PROVE  \E j \in DOMAIN (p \o q) : i < j /\ (p \o q)[j][1] \in Y
    <2>1. CASE i \in DOMAIN p /\ (p \o q)[i] = p[i]
      <3>1. CASE Followed(p, X, Y)
        <4>1. PICK j \in DOMAIN p : i < j /\ p[j][1] \in Y
          BY <1>4, <2>1, <3>1 DEF Followed
        <4> QED
          BY <1>3, <4>1
      <3>2. CASE Has(q, Y)
        <4>1. PICK j \in DOMAIN q : q[j][1] \in Y
          BY <3>2 DEF Has
        <4>2. i < j + Len(p)
          BY <1>1, <2>1
        <4> QED
          BY <1>3, <4>1, <4>2
      <3> QED
        BY <3>1, <3>2
    <2>2. CASE i - Len(p) \in DOMAIN q /\ (p \o q)[i] = q[i - Len(p)]
      <3>1. PICK j \in DOMAIN q : i - Len(p) < j /\ q[j][1] \in Y
        BY <1>4, <2>2 DEF Followed
      <3>2. i < j + Len(p)
        BY <1>1, <3>1
      <3> QED
        BY <1>3, <3>1, <3>2
    <2> QED
      BY <1>2, <2>1, <2>2
  <1> QED
    BY <1>4 DEF Followed

-----------------------------------------------------------------------------
(* The payment link of a cancelled booking.                                *)

\* A step that closes the link was passed over.
Lost == missed \cap {"find_link", "close_link"} # {}

\* The cancellations that have to close it, and how their handler gets there.
Unwanted == {n \in Logged({"cancelled"}) : PendingPayment(log[n])}
Closing(s) ==
    /\ Followed(slot[s].todo, {"find_link"}, {"close_link"})
    /\ \/ Has(slot[s].todo, {"find_link"})
       \/ (Ev(s).full \/ slot[s].got) /\ Has(slot[s].todo, {"close_link"})

LinkInv ==
    doc.kind = "booking" =>
        /\ Logged({"cancelled"}) # {} => remote.status \notin Unconfirmed
        /\ Lost \/ remote.link # "open" \/
             /\ Unwanted \subseteq queue
             /\ \A s \in Slot : slot[s].ev \in Unwanted => Closing(s)

\* The handler of a cancellation closes the link.
LEMMA CancelledCloses ==
  ASSUME doc.kind = "booking", NEW e \in Event, e.type = "cancelled", PendingPayment(e)
  PROVE  /\ Followed(BookingSteps(e), {"find_link"}, {"close_link"})
         /\ Has(BookingSteps(e), {"find_link"}) \/ (e.full /\ Has(BookingSteps(e), {"close_link"}))
  <1> DEFINE S == Allowed(e)
             F == {"find_link"}
             C == {"close_link"}
             a == ReversalSteps(e)
             b == FindLinkSteps(e)
             c == << <<"drop_row">> >>
             d == CloseLinkSteps(e)
             f == << <<"set_booking", "cancelled", SyncPay(e)>> >>
             g == IF e.pay = "refund_requested" THEN << <<"request_refund">> >> ELSE <<>>
  <1>0. e \in BookingEvent
    BY DEF Event
  <1>1. /\ ~Has(a, F) /\ ~Has(c, F) /\ ~Has(d, F) /\ ~Has(f, F) /\ ~Has(g, F)
        /\ Has(d, C) /\ (~e.full => Has(b, F))
    BY HasOne DEF ReversalSteps, CloseLinkSteps, FindLinkSteps
  <1>2. a \in Seq(S) /\ b \in Seq(S) /\ c \in Seq(S) /\ d \in Seq(S) /\ f \in Seq(S) /\ g \in Seq(S)
    BY <1>0, CancelledParts, Zenon
  <1>3. BookingSteps(e) = ((((a \o b) \o c) \o d) \o f) \o g
    BY DEF BookingSteps, CancelledSteps
  <1> HIDE DEF a, b, c, d, f, g, S, F, C
  <1>5. /\ a \o b \in Seq(S) /\ (a \o b) \o c \in Seq(S) /\ ((a \o b) \o c) \o d \in Seq(S)
        /\ (((a \o b) \o c) \o d) \o f \in Seq(S)
    BY <1>2, Lists
  <1>6. /\ Followed(d, F, C) /\ Followed(f, F, C) /\ Followed(g, F, C)
    BY <1>1, FollowedNone
  <1> DEFINE h == (((a \o b) \o c) \o d) \o f
  <1>7. Followed(((a \o b) \o c) \o d, F, C) /\ Has(((a \o b) \o c) \o d, C)
    <2> DEFINE p == (a \o b) \o c
    <2>1. p \in Seq(S)
      BY <1>5
    <2> HIDE DEF p
    <2>2. Followed(p \o d, F, C)
      BY <1>1, <1>2, <1>6, <2>1, FollowedBoth
    <2>3. Has(p \o d, C)
      BY <1>1, <1>2, <2>1, HasBoth
    <2> QED
      BY <2>2, <2>3 DEF p
  <1>8. Followed((((a \o b) \o c) \o d) \o f, F, C) /\ Has((((a \o b) \o c) \o d) \o f, C)
    BY <1>2, <1>5, <1>6, <1>7, FollowedBoth, HasBoth
  <1>9. Followed(h \o g, F, C) /\ Has(h \o g, C)
    <2>1. h \in Seq(S) /\ Followed(h, F, C) /\ Has(h, C)
      BY <1>5, <1>8
    <2> HIDE DEF h
    <2> QED
      BY <1>2, <1>6, <2>1, FollowedBoth, HasBoth
  <1>10. ~e.full => Has(h \o g, F)
    <2>1. Has(b, F) => Has(a \o b, F)
      BY <1>2, HasBoth
    <2>2. Has(a \o b, F) => Has((a \o b) \o c, F)
      BY <1>2, <1>5, HasBoth
    <2>3. Has((a \o b) \o c, F) => Has(((a \o b) \o c) \o d, F)
      BY <1>2, <1>5, HasBoth
    <2>4. Has(((a \o b) \o c) \o d, F) => Has((((a \o b) \o c) \o d) \o f, F)
      BY <1>2, <1>5, HasBoth
    <2>5. Has((((a \o b) \o c) \o d) \o f, F) => Has(h \o g, F)
      BY <1>2, <1>5, HasBoth
    <2> QED
      BY <1>1, <2>1, <2>2, <2>3, <2>4, <2>5
  <1>11. BookingSteps(e) = h \o g
    BY <1>3
  <1> QED
    BY <1>9, <1>10, <1>11 DEF F, C

\* What a slot may do to the link, if the slots before it were about to close it.
Closes(s) ==
    /\ Lost => Lost'
    /\ remote'.link = "open" => remote.link = "open"
    /\ remote'.status \in Unconfirmed => remote.status \in Unconfirmed
    /\ slot' = [slot EXCEPT ![s] = slot'[s]]
    /\ log' = log /\ doc' = doc
    /\ \/ Lost' \/ remote'.link # "open"
       \/ slot'[s].ev \in Unwanted /\ (slot[s].ev = slot'[s].ev => Closing(s)) => Closing(s)'

\* That is enough.
LEMMA LinkKept ==
  ASSUME Common, LinkInv, doc.kind = "booking", NEW s \in Slot, Closes(s),
         \/ queue' = queue
         \/ slot[s].ev # 0 /\ slot[s].todo = <<>> /\ queue' = queue \ {slot[s].ev}
  PROVE  LinkInv'
  <1>0. slot \in [Slot -> Hand(AnyStep)]
    BY DEF Common, Typed
  <1>1. Unwanted' = Unwanted /\ Logged({"cancelled"})' = Logged({"cancelled"})
    BY DEF Closes, Unwanted, Logged, PendingPayment
  <1>2. Logged({"cancelled"})' # {} => remote'.status \notin Unconfirmed
    BY <1>1 DEF LinkInv, Closes
  <1>3. ASSUME ~Lost', remote'.link = "open"
        PROVE  /\ Unwanted' \subseteq queue'
               /\ \A t \in Slot : slot'[t].ev \in Unwanted' => Closing(t)'
    <2>1. Unwanted \subseteq queue /\ \A t \in Slot : slot[t].ev \in Unwanted => Closing(t)
      BY <1>3 DEF LinkInv, Closes
    <2>2. slot[s].todo = <<>> => slot[s].ev \notin Unwanted
      BY <2>1 DEF Closing, Has
    <2>3. Unwanted' \subseteq queue'
      BY <1>1, <2>1, <2>2
    <2>4. ASSUME NEW t \in Slot, slot'[t].ev \in Unwanted PROVE Closing(t)'
      <3>1. CASE t # s
        <4>1. slot'[t] = slot[t]
          BY <1>0, <3>1 DEF Closes
        <4> QED
          BY <2>1, <2>4, <4>1 DEF Closes, Closing, Ev
      <3>2. CASE t = s
        BY <1>3, <2>1, <2>4, <3>2 DEF Closes
      <3> QED
        BY <3>1, <3>2
    <2> QED
      BY <1>1, <2>3, <2>4
  <1> QED
    BY <1>2, <1>3 DEF LinkInv, Closes

\* Asking for the link.
LEMMA LinkFound ==
  ASSUME Common, doc.kind = "booking", NEW s \in Slot, slot[s].todo # <<>>,
         Op(s) = "find_link", FetchPaymentLink(s)
  PROVE  Closes(s)
  <1> DEFINE F == {"find_link"}
             C == {"close_link"}
             q == slot[s].todo
             none == After(s, <<>>)
  <1>0. Typed /\ Apart /\ slot \in [Slot -> Hand(AnyStep)]
    BY DEF Common, Typed
  <1>1. /\ q \in Seq(Allowed(Ev(s))) /\ slot[s].ev # 0 /\ Tail(q) \in Seq(Allowed(Ev(s)))
        /\ Head(q)[1] = "find_link" /\ <<>> \o Tail(q) = Tail(q)
    <2>1. q \in Seq(Allowed(Ev(s))) /\ slot[s].ev # 0 /\ Tail(q) \in Seq(Allowed(Ev(s)))
      BY <1>0, Working
    <2> QED
      BY <2>1, ConcatEmptySeq DEF Op
  <1>2. /\ none \in [ev : {slot[s].ev}, todo : {Tail(q)}, got : {slot[s].got}, rows : {slot[s].rows}]
        /\ Holding(none) \in [ev : {slot[s].ev}, todo : {Tail(q)}, got : {TRUE},
                              rows : {slot[s].rows}]
    BY <1>0, <1>1, AfterIs
  <1>3. /\ none # Idle
        /\ none.ev = slot[s].ev /\ none.todo = Tail(q)
        /\ Holding(none).ev = slot[s].ev /\ Holding(none).todo = Tail(q) /\ Holding(none).got
    <2> HIDE DEF none
    <2>1. /\ none.ev = slot[s].ev /\ none.todo = Tail(q)
          /\ Holding(none).ev = slot[s].ev /\ Holding(none).todo = Tail(q) /\ Holding(none).got
      BY <1>2
    <2>2. Idle.ev = 0
      BY DEF Idle
    <2> QED
      BY <1>1, <2>1, <2>2
  <1>4. remote' = remote /\ UNCHANGED <<doc, log>>
        /\ slot' = [slot EXCEPT ![s] = slot'[s]]
        /\ \/ slot'[s] = Holding(none) /\ UNCHANGED missed
           \/ slot'[s] = none /\ UNCHANGED missed /\ remote.link = "none"
           \/ missed' = missed \cup {"find_link"}
    BY <1>0, <1>1, <1>3 DEF FetchPaymentLink, Call, Same, PassOver, Onward, Becomes
  <1>5. Lost => Lost'
    BY <1>4 DEF Lost
  <1>6. CASE slot'[s] = Holding(none)
    <2>1. Closing(s) => Has(Tail(q), C) /\ Followed(Tail(q), F, C)
      BY <1>1, FollowedRest DEF Closing
    <2>2. Closing(s) => Closing(s)'
      BY <1>3, <1>6, <2>1 DEF Closing
    <2> QED
      BY <1>3, <1>4, <1>5, <1>6, <2>2 DEF Closes
  <1>7. CASE remote.link = "none"
    BY <1>4, <1>5, <1>7 DEF Closes
  <1>8. CASE missed' = missed \cup {"find_link"}
    <2>1. Lost'
      BY <1>8 DEF Lost
    <2> QED
      BY <1>4, <1>5, <2>1 DEF Closes
  <1> QED
    BY <1>4, <1>6, <1>7, <1>8

\* Closing it.
LEMMA LinkClosing ==
  ASSUME Common, doc.kind = "booking", NEW s \in Slot, slot[s].todo # <<>>,
         Op(s) = "close_link", CancelPaymentLink(s)
  PROVE  Closes(s)
  <1> DEFINE F == {"find_link"}
             C == {"close_link"}
             q == slot[s].todo
             none == After(s, <<>>)
             E(r) == CloseLinks(r)
  <1>0. Typed /\ Apart /\ slot \in [Slot -> Hand(AnyStep)] /\ DOMAIN remote = BookingFields
    BY DEF Common, Typed, Shaped
  <1>1. /\ q \in Seq(Allowed(Ev(s))) /\ slot[s].ev # 0 /\ Tail(q) \in Seq(Allowed(Ev(s)))
        /\ Head(q)[1] = "close_link" /\ <<>> \o Tail(q) = Tail(q)
    <2>1. q \in Seq(Allowed(Ev(s))) /\ slot[s].ev # 0 /\ Tail(q) \in Seq(Allowed(Ev(s)))
      BY <1>0, Working
    <2> QED
      BY <2>1, ConcatEmptySeq DEF Op
  <1>2. none \in [ev : {slot[s].ev}, todo : {Tail(q)}, got : {slot[s].got}, rows : {slot[s].rows}]
    BY <1>0, <1>1, AfterIs
  <1>3. none # Idle /\ none.ev = slot[s].ev /\ none.todo = Tail(q)
    <2> HIDE DEF none
    <2>1. none.ev = slot[s].ev /\ none.todo = Tail(q)
      BY <1>2
    <2>2. Idle.ev = 0
      BY DEF Idle
    <2> QED
      BY <1>1, <2>1, <2>2
  <1>4. /\ E(remote).link # "open" /\ E(E(remote)).link # "open"
        /\ E(remote).status = remote.status /\ E(E(remote)).status = remote.status
    BY <1>0 DEF CloseLinks
  <1> HIDE DEF E
  <1>5. CASE Ev(s).full \/ slot[s].got
    <2>1. /\ UNCHANGED <<doc, log>> /\ slot' = [slot EXCEPT ![s] = slot'[s]]
          /\ \/ remote' \in {E(remote), E(E(remote))} /\ UNCHANGED missed
             \/ remote' \in {remote, E(remote)} /\ missed' = missed \cup {"close_link"}
      BY <1>0, <1>1, <1>3, <1>5 DEF CancelPaymentLink, Attempt, Call, PassOver, Onward,
         Becomes, E
    <2>2. (Lost => Lost') /\ (remote'.link = "open" => remote.link = "open")
          /\ remote'.status = remote.status /\ (Lost' \/ remote'.link # "open")
      BY <1>4, <2>1 DEF Lost
    <2> QED
      BY <2>1, <2>2 DEF Closes
  <1>6. CASE ~(Ev(s).full \/ slot[s].got)
    <2>1. /\ UNCHANGED <<doc, log, remote, missed>>
          /\ slot' = [slot EXCEPT ![s] = slot'[s]] /\ slot'[s] = none
      BY <1>0, <1>6 DEF CancelPaymentLink, Onward, Becomes
    <2>2. Closing(s) => Has(Tail(q), F) /\ Followed(Tail(q), F, C)
      BY <1>1, <1>6, HasRest, FollowedRest DEF Closing
    <2>3. Closing(s) => Closing(s)'
      BY <1>3, <2>1, <2>2 DEF Closing
    <2> QED
      BY <1>3, <2>1, <2>3 DEF Closes, Lost
  <1> QED
    BY <1>5, <1>6

\* The steps in between.
LEMMA LinkOthers ==
  ASSUME Common, doc.kind = "booking", NEW s \in Slot, slot[s].todo # <<>>, Does(s),
         Op(s) \notin {"find_link", "close_link"}
  PROVE  Closes(s)
  <1> DEFINE F == {"find_link"}
             C == {"close_link"}
             q == slot[s].todo
             e == Ev(s)
  <1>0. /\ Typed /\ Apart /\ slot \in [Slot -> Hand(AnyStep)] /\ DOMAIN remote = BookingFields
        /\ log \in Seq(Event)
    BY DEF Common, Typed, Shaped
  <1>1. Moves(s) /\ UNCHANGED <<doc, log>>
    BY <1>0, OperationMoves DEF Moves, Framed
  <1>2. /\ q \in Seq(Allowed(e)) /\ slot[s].ev # 0 /\ Tail(q) \in Seq(Allowed(e))
        /\ e \in Event /\ Head(q) \in Allowed(e) /\ Op(s) = Head(q)[1] /\ Op(s) \in Ops(e)
    <2>1. q \in Seq(Allowed(e)) /\ slot[s].ev # 0 /\ Tail(q) \in Seq(Allowed(e))
          /\ e \in Event /\ Head(q) \in Allowed(e)
      BY <1>0, Working
    <2> QED
      BY <2>1, StepIs DEF Op
  <1>3. remote'.link = remote.link
    <2>1. "link" \notin Touches(Op(s))
      BY DEF Touches
    <2> QED
      BY <1>0, <1>1, <2>1 DEF Moves, Framed, Agree
  <1>4. remote'.status \in Unconfirmed => remote.status \in Unconfirmed
    <2>1. CASE Op(s) = "set_booking"
      <3> DEFINE E(r) == IF Arg(s, 3) = "none" THEN SetStatus(Arg(s, 2), r)
                         ELSE SetStatusAndPay(Arg(s, 2), Arg(s, 3), r)
      <3>1. remote' \in {remote, E(remote), E(E(remote))}
        BY <2>1 DEF Does, UpdateBookingStatus, Attempt, Call
      <3>2. Arg(s, 2) \in {"confirmed", "cancelled", "reschedule_requested"}
        BY <1>2, <2>1, StepIs DEF Arg
      <3>3. remote' = remote \/ remote'.status = Arg(s, 2)
        BY <1>0, <3>1 DEF SetStatus, SetStatusAndPay
      <3> QED
        BY <3>2, <3>3 DEF Unconfirmed
    <2>2. CASE Op(s) # "set_booking"
      <3>1. Op(s) # "activate"
        BY <1>2 DEF Ops, Event, BookingEvent, BookingTypes
      <3>2. "status" \notin Touches(Op(s))
        BY <2>2, <3>1 DEF Touches
      <3>3. remote'.status = remote.status
        BY <1>0, <1>1, <3>2 DEF Moves, Framed, Agree
      <3> QED
        BY <3>3
    <2> QED
      BY <2>1, <2>2
  <1>5. Lost => Lost'
    BY <1>1 DEF Moves, Framed, Lost
  <1>6. ASSUME slot[s].ev \in Unwanted, Closing(s), NEW then \in Follows(s), Goes(s, then)
        PROVE  Closing(s)'
    <2>1. e.type = "cancelled"
      BY <1>6 DEF Unwanted, Logged, Ev
    <2>2. Op(s) \in {"drop_row", "mark_row", "set_booking", "request_refund", "reverse"}
      BY <1>2, <2>1 DEF Ops
    <2>3. then \in {<<>>, << <<"mark_row">> >>}
      BY <1>6, <2>2 DEF Follows
    <2>4. then \in Seq(Allowed(e)) /\ ~Has(then, F)
      <3>1. ~Has(<<>>, F) /\ ~Has(<< <<"mark_row">> >>, F)
        BY HasOne
      <3> QED
        BY <1>0, <1>6, <2>3, <3>1, FollowsAllowed
    <2>5. /\ Followed(Tail(q), F, C)
          /\ Has(q, F) => Has(Tail(q), F)
          /\ Has(q, C) => Has(Tail(q), C)
      BY <1>2, <1>6, HasRest, FollowedRest DEF Closing
    <2>6. Followed(then, F, C)
      BY <2>4, FollowedNone
    <2>7. /\ Followed(then \o Tail(q), F, C)
          /\ Has(q, F) => Has(then \o Tail(q), F)
          /\ Has(q, C) => Has(then \o Tail(q), C)
      <3> DEFINE r == Tail(q)
      <3>1. r \in Seq(Allowed(e)) /\ then \in Seq(Allowed(e))
        BY <1>2, <2>4
      <3> HIDE DEF r, F, C
      <3>2. Followed(then \o r, F, C)
        BY <2>5, <2>6, <3>1, FollowedBoth DEF r
      <3>3. \A X : Has(r, X) => Has(then \o r, X)
        BY <3>1, HasBoth
      <3> QED
        BY <2>5, <3>2, <3>3 DEF r
    <2>8. /\ slot'[s].todo = then \o Tail(q) /\ slot'[s].ev = slot[s].ev
          /\ slot[s].got => slot'[s].got
      BY <1>0, <1>6 DEF Goes, Becomes
    <2>9. Ev(s)' = e
      BY <1>1, <2>8 DEF Ev
    <2> QED
      BY <1>6, <2>7, <2>8, <2>9 DEF Closing
  <1>7. slot' = [slot EXCEPT ![s] = slot'[s]]
        /\ (slot'[s].ev \in Unwanted /\ (slot[s].ev = slot'[s].ev => Closing(s)) => Closing(s)')
    <2>1. CASE Raises(s)
      <3>1. slot'[s] = Idle /\ slot' = [slot EXCEPT ![s] = Idle]
        BY <1>0, <2>1 DEF Raises, Becomes
      <3>2. 0 \notin Unwanted
        BY <1>0, LenProperties DEF Unwanted, Logged
      <3> QED
        BY <3>1, <3>2 DEF Idle
    <2>2. CASE Stops(s)
      <3>1. slot' = [slot EXCEPT ![s] = slot'[s]] /\ slot'[s].ev = slot[s].ev
        BY <1>0, <2>2 DEF Stops, Becomes, Hand
      <3>2. e.type # "cancelled"
        BY <1>2, <2>2 DEF Stops, Ops
      <3> QED
        BY <3>1, <3>2 DEF Unwanted, Logged, Ev
    <2>3. ASSUME NEW then \in Follows(s), Goes(s, then)
          PROVE  slot' = [slot EXCEPT ![s] = slot'[s]] /\ slot'[s].ev = slot[s].ev
      BY <1>0, <2>3 DEF Goes, Becomes
    <2> QED
      BY <1>1, <1>6, <2>1, <2>2, <2>3 DEF Moves
  <1> QED
    BY <1>1, <1>3, <1>4, <1>5, <1>7 DEF Closes

\* Every step of a slot.
LEMMA LinkStep ==
  ASSUME Common, LinkInv, doc.kind = "booking", NEW s \in Slot, Step(s)
  PROVE  LinkInv'
  <1>0. /\ Typed /\ Apart /\ slot \in [Slot -> Hand(AnyStep)] /\ doc.kind \in Kinds
        /\ log \in Seq(Event) /\ queue \subseteq DOMAIN log
    BY DEF Common, Typed, Shaped
  <1>1. 0 \notin Unwanted
    BY <1>0, LenProperties DEF Unwanted, Logged
  <1>2. CASE End(s) \/ Crash(s)
    <2>1. slot'[s] = Idle /\ slot' = [slot EXCEPT ![s] = Idle]
          /\ UNCHANGED <<doc, remote, log, missed>>
      BY <1>0, <1>2 DEF End, Crash, Becomes
    <2>2. slot'[s].ev = 0 /\ slot' = [slot EXCEPT ![s] = slot'[s]]
      BY <2>1 DEF Idle
    <2>3. Closes(s)
      BY <1>1, <2>1, <2>2 DEF Closes, Lost
    <2> QED
      BY <1>2, <2>3, LinkKept DEF End, Crash
  <1>3. ASSUME NEW n \in queue, Starts(s, n) PROVE LinkInv'
    <2> DEFINE l == [Idle EXCEPT !.ev = n, !.todo = Steps(log[n])]
    <2>1. l.ev = n /\ l.todo = BookingSteps(log[n])
      BY DEF Idle, Steps
    <2> HIDE DEF l
    <2>2. slot' = [slot EXCEPT ![s] = l] /\ slot'[s] = l
          /\ UNCHANGED <<doc, remote, log, queue, missed>>
      BY <1>0, <1>3 DEF Starts, Becomes, l
    <2>3. log[n] \in Event
      BY <1>0, ElementOfSeq, LenProperties
    <2>4. n \in Unwanted => Closing(s)'
      <3>1. ASSUME n \in Unwanted PROVE Closing(s)'
        <4>1. log[n].type = "cancelled" /\ PendingPayment(log[n])
          BY <3>1 DEF Unwanted, Logged
        <4>2. /\ Followed(l.todo, {"find_link"}, {"close_link"})
              /\ Has(l.todo, {"find_link"}) \/ (log[n].full /\ Has(l.todo, {"close_link"}))
          BY <2>1, <2>3, <4>1, CancelledCloses
        <4> QED
          BY <2>1, <2>2, <4>2 DEF Closing, Ev
      <3> QED
        BY <3>1
    <2>5. Closes(s)
      BY <2>1, <2>2, <2>4 DEF Closes, Lost
    <2> QED
      BY <2>2, <2>5, LinkKept
  <1>4. CASE slot[s].todo # <<>> /\ Does(s)
    <2>1. UNCHANGED queue
      BY <1>0, <1>4, OperationMoves DEF Moves, Framed
    <2>2. Closes(s)
      BY <1>4, LinkFound, LinkClosing, LinkOthers DEF Does
    <2> QED
      BY <2>1, <2>2, LinkKept
  <1> QED
    BY <1>0, <1>2, <1>3, <1>4, StepCases

\* Every event that is published.
LEMMA LinkHappen ==
  ASSUME Common, LinkInv, doc.kind = "booking", Happen
  PROVE  LinkInv'
  <1>0. /\ Typed /\ Apart /\ doc.kind \in Kinds /\ Shaped
    BY DEF Common, Typed, Shaped
  <1>1. doc' = doc
    BY <1>0, NextLasting DEF Next, Lasting
  <1>2. PICK e \in Event : Publish(e) /\ Agree(remote, remote', Changes) /\ BookingNews(e)
    BY <1>0, HappenPublishes
  <1> DEFINE n == Len(log) + 1
  <1>3. /\ DOMAIN log' = DOMAIN log \cup {n} /\ n \notin DOMAIN log /\ log'[n] = e
        /\ \A m \in DOMAIN log : log'[m] = log[m]
        /\ queue' = queue \cup {n} /\ n # 0
    <2>1. Len(log) \in Nat
      BY <1>0, LenProperties DEF Typed
    <2>2. n # 0
      BY <2>1
    <2> QED
      BY <1>0, <1>1, <1>2, <2>2, PublishApart
  <1> HIDE DEF n
  <1>4. UNCHANGED <<slot, missed>>
    BY <1>2 DEF Publish
  <1>5. Logged({"cancelled"})' # {} => remote'.status \notin Unconfirmed
    <2>1. ASSUME NEW m \in DOMAIN log', log'[m].type = "cancelled"
          PROVE  remote'.status \notin Unconfirmed
      <3>1. CASE m = n
        BY <1>2, <1>3, <2>1, <3>1 DEF BookingNews
      <3>2. CASE m # n
        BY <1>2, <1>3, <2>1, <3>2 DEF BookingNews, LinkInv, Logged
      <3> QED
        BY <3>1, <3>2
    <2> QED
      BY <2>1 DEF Logged
  <1>6. Unwanted' \subseteq Unwanted \cup {n}
    BY <1>3 DEF Unwanted, Logged, PendingPayment
  <1>7. ASSUME ~Lost', remote'.link = "open"
        PROVE  /\ Unwanted' \subseteq queue'
               /\ \A t \in Slot : slot'[t].ev \in Unwanted' => Closing(t)'
    <2>1. CASE Unwanted = {}
      <3>1. \A t \in Slot : slot[t].ev # n
        BY <1>0, <1>3 DEF Apart, Typed, Idle
      <3> QED
        BY <1>3, <1>4, <1>6, <2>1, <3>1
    <2>2. CASE Unwanted # {}
      <3>1. remote.status \notin Unconfirmed
        BY <2>2 DEF LinkInv, Unwanted
      <3>2. remote.link = "open" /\ ~Lost
        BY <1>2, <1>4, <1>7, <3>1 DEF BookingNews, Lost
      <3>3. Unwanted \subseteq queue /\ \A t \in Slot : slot[t].ev \in Unwanted => Closing(t)
        BY <3>2 DEF LinkInv
      <3>4. ASSUME NEW t \in Slot, slot'[t].ev \in Unwanted' PROVE Closing(t)'
        <4>1. slot[t].ev # n /\ slot'[t] = slot[t]
          BY <1>0, <1>3, <1>4 DEF Apart, Typed, Idle
        <4>2. slot[t].ev \in Unwanted
          BY <1>6, <3>4, <4>1
        <4>3. slot[t].ev \in DOMAIN log
          BY <4>2 DEF Unwanted, Logged
        <4> QED
          BY <1>3, <3>3, <4>1, <4>2, <4>3 DEF Closing, Ev
      <3> QED
        BY <1>3, <1>6, <3>3, <3>4
    <2> QED
      BY <2>1, <2>2
  <1> QED
    BY <1>5, <1>7 DEF LinkInv

\* The payment link of a booking that was cancelled before it was paid is closed when the
\* cancellation is handled, in every order and with every failure, except of the two calls
\* that look for it and close it.
THEOREM Links == Spec => []LinkClosed
  <1>1. Init => LinkInv
    BY DEF Init, InitDelivery, LinkInv, Logged, Unwanted, Idle
  <1>2. Common /\ LinkInv /\ [Next]_vars => LinkInv'
    <2> SUFFICES ASSUME Common, LinkInv, [Next]_vars PROVE LinkInv'
      OBVIOUS
    <2>0. doc' = doc
      BY NextLasting DEF Common, Typed, Lasting
    <2>1. CASE doc.kind # "booking"
      BY <2>0, <2>1 DEF LinkInv
    <2>2. CASE doc.kind = "booking" /\ Next
      BY <2>2, LinkStep, LinkHappen DEF Next
    <2>3. CASE UNCHANGED vars
      BY <2>3 DEF vars, LinkInv, Lost, Closing, Unwanted, PendingPayment, Ev, Logged
    <2> QED
      BY <2>1, <2>2, <2>3
  <1>3. Common /\ LinkInv => LinkClosed
    BY DEF LinkInv, LinkClosed, Lost, Unwanted, Handled, Logged
  <1> QED
    BY <1>1, <1>2, <1>3, CommonInit, CommonNext, PTL DEF Spec

-----------------------------------------------------------------------------
(* Messages that go out once.                                              *)

\* The events that asked for a message and claimed it.
Claimed(m) == {n \in DOMAIN log : log[n].type = Asks(m) /\ DedupKey(n, m) \in claims}

\* A gift's key does not name the event, an account's does.
ToldInv ==
    \A m \in Messages :
        /\ doc.kind \in {"voucher", "gift"} =>
              Count(told, m) <= faults + (IF <<m[1], m[2], m[3], 0>> \in claims THEN 1 ELSE 0)
        /\ doc.kind = "account" => Count(told, m) <= faults + Cardinality(Claimed(m))

\* More events, claims and faults only allow for more.
LEMMA ToldKept ==
  ASSUME Common, ToldInv, doc' = doc, told' = told, claims \subseteq claims',
         faults' \in Nat, faults <= faults', DOMAIN log \subseteq DOMAIN log',
         \A n \in DOMAIN log : log'[n] = log[n], IsFiniteSet(DOMAIN log')
  PROVE  ToldInv'
  <1>0. faults \in Nat /\ \A m : Count(told, m) \in Nat
    BY FaultsAssumption DEF Common, Typed, Counted, Count
  <1> SUFFICES ASSUME NEW m \in Messages
               PROVE  /\ doc.kind \in {"voucher", "gift"} =>
                             Count(told, m) <= faults' +
                                 (IF <<m[1], m[2], m[3], 0>> \in claims' THEN 1 ELSE 0)
                      /\ doc.kind = "account" =>
                             Count(told, m) <= faults' + Cardinality(Claimed(m)')
    BY DEF ToldInv, Messages, Templates, Count
  <1>1. ASSUME doc.kind \in {"voucher", "gift"}
        PROVE  Count(told, m) <= faults' + (IF <<m[1], m[2], m[3], 0>> \in claims' THEN 1 ELSE 0)
    <2>1. Count(told, m) <= faults + (IF <<m[1], m[2], m[3], 0>> \in claims THEN 1 ELSE 0)
      BY <1>1 DEF ToldInv
    <2>2. <<m[1], m[2], m[3], 0>> \in claims => <<m[1], m[2], m[3], 0>> \in claims'
      OBVIOUS
    <2> QED
      BY <1>0, <2>1, <2>2
  <1>2. ASSUME doc.kind = "account"
        PROVE  Count(told, m) <= faults' + Cardinality(Claimed(m)')
    <2>1. Count(told, m) <= faults + Cardinality(Claimed(m))
      BY <1>2 DEF ToldInv
    <2>2. Claimed(m) \subseteq Claimed(m)' /\ Claimed(m)' \subseteq DOMAIN log'
      BY DEF Claimed, DedupKey
    <2>3. IsFiniteSet(Claimed(m)')
      BY <2>2, FS_Subset
    <2>4. /\ Cardinality(Claimed(m)) \in Nat /\ Cardinality(Claimed(m)') \in Nat
          /\ Cardinality(Claimed(m)) <= Cardinality(Claimed(m)')
      BY <2>2, <2>3, CountPart
    <2> HIDE DEF Claimed
    <2> QED
      BY <1>0, <2>1, <2>4
  <1> QED
    BY <1>1, <1>2

\* Which message the handler of an event sends.
LEMMA SaidTo ==
  ASSUME doc.kind \in Kinds, NEW e \in Event, "send" \in Ops(e), NEW m, m[1] = Saying(e)
  PROVE  /\ doc.kind \in {"voucher", "gift"} => m[1] \in ObjectScoped
         /\ doc.kind = "account" => m[1] \notin ObjectScoped /\ Asks(m) = e.type
  <1>1. CASE doc.kind = "voucher"
    BY <1>1 DEF Event, SaleEvent, VoucherTypes, Ops, Saying, ObjectScoped
  <1>2. CASE doc.kind = "gift"
    BY <1>2 DEF Event, SaleEvent, GiftTypes, Ops, Saying, ObjectScoped
  <1>3. CASE doc.kind = "account"
    <2>1. e.type \in Notices \cup {"sms_send"}
      BY <1>3 DEF Event, SomeNotice
    <2> QED
      BY <1>3, <2>1 DEF Notices, Saying, ObjectScoped, Asks
  <1> QED
    BY <1>1, <1>2, <1>3

\* Sending.
LEMMA ToldSend ==
  ASSUME Common, ToldInv, NEW s \in Slot, slot[s].todo # <<>>, Op(s) = "send", Send(s)
  PROVE  ToldInv'
  <1> DEFINE m == Tail(Head(slot[s].todo))
             key == DedupKey(slot[s].ev, m)
  <1>0. /\ Typed /\ Apart /\ Counted /\ doc.kind \in Kinds /\ faults \in Nat
        /\ log \in Seq(Event) /\ DOMAIN log = 1..Len(log) /\ Len(log) \in Nat
        /\ \A k : Count(told, k) \in Nat
    BY FaultsAssumption, LenProperties DEF Common, Typed, Shaped, Counted, Count
  <1>1. IsFiniteSet(DOMAIN log)
    BY <1>0, FS_Interval
  <1>2. /\ Ev(s) \in Event /\ "send" \in Ops(Ev(s)) /\ slot[s].ev \in DOMAIN log
        /\ m \in Messages /\ m[1] = Saying(Ev(s))
    <2>1. /\ Head(slot[s].todo) \in Allowed(Ev(s)) /\ Ev(s) \in Event /\ slot[s].ev \in DOMAIN log
          /\ Head(slot[s].todo)[1] = "send"
      BY <1>0, Working DEF Op
    <2> QED
      BY <2>1, SaidRow, StepIs
  <1>3. /\ doc.kind \in {"voucher", "gift"} => m[1] \in ObjectScoped
        /\ doc.kind = "account" => m[1] \notin ObjectScoped /\ Asks(m) = Ev(s).type
    BY <1>0, <1>2, SaidTo
  <1>4. UNCHANGED <<doc, log>>
    BY DEF Send
  <1> HIDE DEF m
  <1>5. \/ told' = told /\ claims \subseteq claims' /\ faults' \in {faults, faults + 1}
        \/ /\ told' = told (+) SetToBag({m})
           /\ \/ key \notin claims /\ claims' = claims \cup {key} /\ faults' = faults
              \/ claims' = claims /\ faults' = faults + 1
    BY DEF Send, m
  <1>6. CASE told' = told /\ claims \subseteq claims' /\ faults' \in {faults, faults + 1}
    BY <1>0, <1>1, <1>4, <1>6, ToldKept
  <1>7. ASSUME told' = told (+) SetToBag({m}),
               \/ key \notin claims /\ claims' = claims \cup {key} /\ faults' = faults
               \/ claims' = claims /\ faults' = faults + 1
        PROVE  ToldInv'
    <2>1. \A k : Count(told', k) = Count(told, k) + (IF k = m THEN 1 ELSE 0)
      <3>1. \A k \in DOMAIN told : told[k] \in Nat
        BY <1>0 DEF Counted
      <3>2. \A k : Count(told (+) SetToBag({m}), k) = Count(told, k) + (IF k = m THEN 1 ELSE 0)
        BY <3>1, CountMore, ZenonT(40)
      <3>3. told' = told (+) SetToBag({m})
        BY <1>7
      <3> QED
        BY <3>2, <3>3, Zenon
    <2>2. Messages' = Messages
      BY DEF Messages, Templates
    <2>3. SUFFICES ASSUME NEW k \in Messages
                   PROVE  /\ doc.kind \in {"voucher", "gift"} =>
                                 Count(told', k) <= faults' +
                                     (IF <<k[1], k[2], k[3], 0>> \in claims' THEN 1 ELSE 0)
                          /\ doc.kind = "account" =>
                                 Count(told', k) <= faults' + Cardinality(Claimed(k)')
      BY <1>4, <2>2 DEF ToldInv, Count
    <2>4. ASSUME doc.kind \in {"voucher", "gift"}
          PROVE  Count(told', k) <= faults' + (IF <<k[1], k[2], k[3], 0>> \in claims' THEN 1 ELSE 0)
      <3>1. Count(told, k) <= faults + (IF <<k[1], k[2], k[3], 0>> \in claims THEN 1 ELSE 0)
        BY <2>4 DEF ToldInv
      <3>2. key = <<m[1], m[2], m[3], 0>>
        BY <1>3, <2>4 DEF DedupKey
      <3>3. CASE claims' = claims /\ faults' = faults + 1
        BY <1>0, <2>1, <3>1, <3>3
      <3>4. CASE key \notin claims /\ claims' = claims \cup {key} /\ faults' = faults
        <4>1. CASE k = m
          BY <1>0, <2>1, <3>1, <3>2, <3>4, <4>1
        <4>2. CASE k # m
          BY <1>0, <2>1, <3>1, <3>4, <4>2
        <4> QED
          BY <4>1, <4>2
      <3> QED
        BY <1>7, <3>3, <3>4
    <2>5. ASSUME doc.kind = "account"
          PROVE  Count(told', k) <= faults' + Cardinality(Claimed(k)')
      <3>1. Count(told, k) <= faults + Cardinality(Claimed(k))
        BY <2>5 DEF ToldInv
      <3>2. Claimed(k) \subseteq Claimed(k)' /\ Claimed(k)' \subseteq DOMAIN log
        BY <1>4, <1>7 DEF Claimed, DedupKey
      <3>3. IsFiniteSet(Claimed(k)')
        BY <1>1, <3>2, FS_Subset
      <3>4. /\ Cardinality(Claimed(k)) \in Nat /\ Cardinality(Claimed(k)') \in Nat
            /\ Cardinality(Claimed(k)) <= Cardinality(Claimed(k)')
        BY <3>2, <3>3, CountPart
      <3>5. CASE k # m \/ faults' = faults + 1
        <4>1. Count(told', k) <= Count(told, k) + (faults' - faults)
              /\ faults' \in {faults, faults + 1} /\ Count(told', k) \in Nat
          <5>1. /\ Count(told', k) = Count(told, k) + (IF k = m THEN 1 ELSE 0)
                /\ Count(told, k) \in Nat
            BY <1>0, <2>1
          <5>2. faults' = faults \/ faults' = faults + 1
            BY <1>7
          <5> QED
            BY <1>0, <3>5, <5>1, <5>2
        <4> QED
          BY <1>0, <3>1, <3>4, <4>1
      <3>6. CASE k = m /\ key \notin claims /\ claims' = claims \cup {key} /\ faults' = faults
        <4>1. slot[s].ev \in Claimed(k)'
          BY <1>2, <1>3, <1>4, <2>5, <3>6 DEF Claimed, Ev
        <4>2. slot[s].ev \notin Claimed(k)
          BY <3>6 DEF Claimed
        <4>3. Cardinality(Claimed(k)) + 1 <= Cardinality(Claimed(k)')
          BY <3>2, <3>3, <4>1, <4>2, CountLoss
        <4> QED
          BY <1>0, <2>1, <3>1, <3>4, <3>6, <4>3
      <3> QED
        BY <1>7, <3>5, <3>6
    <2> QED
      BY <2>4, <2>5
  <1> QED
    BY <1>5, <1>6, <1>7

\* Every step.
LEMMA ToldNext == Common /\ ToldInv /\ [Next]_vars => ToldInv'
  <1> SUFFICES ASSUME Common, ToldInv, [Next]_vars PROVE ToldInv'
    OBVIOUS
  <1>0. /\ Typed /\ Apart /\ Counted /\ doc.kind \in Kinds /\ faults \in Nat
        /\ log \in Seq(Event) /\ DOMAIN log = 1..Len(log) /\ Len(log) \in Nat
    BY FaultsAssumption, LenProperties DEF Common, Typed, Shaped
  <1>1. IsFiniteSet(DOMAIN log) /\ IsFiniteSet(DOMAIN log \cup {Len(log) + 1})
    <2>1. IsFiniteSet(DOMAIN log)
      BY <1>0, FS_Interval
    <2> QED
      BY <2>1, FS_AddElement
  <1>2. doc' = doc
    BY NextLasting DEF Common, Typed, Lasting
  <1>3. CASE UNCHANGED vars
    BY <1>0, <1>1, <1>3, ToldKept DEF vars
  <1>4. CASE Happen
    <2>1. PICK e \in Event : Publish(e)
      BY <1>0, <1>4, HappenPublishes
    <2>2. /\ DOMAIN log' = DOMAIN log \cup {Len(log) + 1}
          /\ \A n \in DOMAIN log : log'[n] = log[n]
      BY <1>0, <1>2, <2>1, PublishApart
    <2>3. told' = told /\ claims' = claims /\ faults' = faults
      BY <2>1 DEF Publish
    <2> QED
      BY <1>0, <1>1, <1>2, <2>2, <2>3, ToldKept
  <1>5. ASSUME NEW s \in Slot, Step(s) PROVE ToldInv'
    <2>1. CASE End(s) \/ Crash(s) \/ \E n \in queue : Starts(s, n)
      <3>1. told' = told /\ claims' = claims /\ faults' \in {faults, faults + 1} /\ log' = log
        BY <2>1 DEF End, Crash, Starts
      <3> QED
        BY <1>0, <1>1, <1>2, <3>1, ToldKept
    <2>2. CASE slot[s].todo # <<>> /\ Does(s)
      <3>1. CASE Op(s) = "send"
        BY <2>2, <3>1, ToldSend DEF Does
      <3>2. CASE Op(s) # "send"
        <4>1. told' = told /\ claims' = claims /\ faults' \in {faults, faults + 1} /\ log' = log
          BY <1>0, <2>2, <3>2, OperationMoves DEF Moves, Framed
        <4> QED
          BY <1>0, <1>1, <1>2, <4>1, ToldKept
      <3> QED
        BY <3>1, <3>2
    <2> QED
      BY <1>0, <1>5, <2>1, <2>2, StepCases
  <1> QED
    BY <1>3, <1>4, <1>5 DEF Next

\* A gift that is published again is not announced again, and an account's message goes out
\* once per event, whatever the order and the redeliveries: at most one more per fault.
THEOREM Repeats == Spec => []ToldOnce
  <1>1. Init => ToldInv
    <2> SUFFICES ASSUME Init PROVE ToldInv
      OBVIOUS
    <2>1. told = EmptyBag /\ log = <<>> /\ faults = 0 /\ claims = {}
      BY DEF Init, InitDelivery
    <2>2. \A m : Count(told, m) = 0
      BY <2>1 DEF Count, EmptyBag, SetToBag
    <2>3. \A m : Claimed(m) = {}
      BY <2>1 DEF Claimed
    <2>4. Cardinality({}) = 0
      BY FS_EmptySet
    <2>5. \A m : /\ 0 <= 0 + (IF <<m[1], m[2], m[3], 0>> \in claims THEN 1 ELSE 0)
                /\ 0 <= 0 + Cardinality(Claimed(m))
      BY <2>1, <2>3, <2>4
    <2>6. ToldInv <=> \A m \in Messages :
              /\ doc.kind \in {"voucher", "gift"} =>
                    0 <= 0 + (IF <<m[1], m[2], m[3], 0>> \in claims THEN 1 ELSE 0)
              /\ doc.kind = "account" => 0 <= 0 + Cardinality(Claimed(m))
      BY <2>1, <2>2, Zenon DEF ToldInv
    <2> QED
      BY <2>5, <2>6, Zenon
  <1>2. Common /\ ToldInv => ToldOnce
    <2> SUFFICES ASSUME Common, ToldInv, NEW m \in BagToSet(told)
                 PROVE  /\ doc.kind \in {"voucher", "gift"} => Copies(m) <= 1 + faults
                        /\ doc.kind = "account" =>
                               Copies(m) <= faults +
                                   Cardinality({n \in DOMAIN log : log[n].type = Asks(m)})
      BY DEF ToldOnce
    <2>1. m \in Messages /\ faults \in Nat /\ Copies(m) = Count(told, m) /\ Count(told, m) \in Nat
      BY FaultsAssumption, CopiesCount DEF Common, Counted, Typed, BagToSet, Count
    <2>2. ASSUME doc.kind \in {"voucher", "gift"} PROVE Copies(m) <= 1 + faults
      <3>1. Count(told, m) <= faults + (IF <<m[1], m[2], m[3], 0>> \in claims THEN 1 ELSE 0)
        BY <2>1, <2>2 DEF ToldInv
      <3> QED
        BY <2>1, <3>1
    <2>3. ASSUME doc.kind = "account"
          PROVE  Copies(m) <= faults + Cardinality({n \in DOMAIN log : log[n].type = Asks(m)})
      <3> DEFINE A == {n \in DOMAIN log : log[n].type = Asks(m)}
      <3>1. IsFiniteSet(A)
        <4>1. IsFiniteSet(DOMAIN log)
          BY FS_Interval, LenProperties DEF Common, Typed
        <4> QED
          BY <4>1, FS_Subset
      <3>2. /\ Cardinality(Claimed(m)) \in Nat /\ Cardinality(A) \in Nat
            /\ Cardinality(Claimed(m)) <= Cardinality(A)
        <4>1. Claimed(m) \subseteq A
          BY DEF Claimed
        <4> QED
          BY <3>1, <4>1, CountPart
      <3>3. Count(told, m) <= faults + Cardinality(Claimed(m))
        BY <2>1, <2>3 DEF ToldInv
      <3> HIDE DEF A
      <3>4. Copies(m) <= faults + Cardinality(A)
        BY <2>1, <3>2, <3>3
      <3> QED
        BY <3>4 DEF A
    <2> QED
      BY <2>2, <2>3
  <1> QED
    BY <1>1, <1>2, ToldNext, CommonInit, CommonNext, PTL DEF Spec

-----------------------------------------------------------------------------
(* Steps that a handler has once: what is counted.                         *)

Chain == {"partner", "fetch", "invoice"}
Singles == {"record", "credit", "reverse", "request_refund", "loose_note"}

\* At most two steps of a kind.
Pair(q, X) ==
    \A i, j, k \in DOMAIN q :
        q[i][1] \in X /\ q[j][1] \in X /\ q[k][1] \in X => i = j \/ j = k \/ i = k

\* The first step and the others.
LEMMA PairRest ==
  ASSUME NEW S, NEW q \in Seq(S), q # <<>>, NEW X
  PROVE  /\ Once(q, X) => Pair(q, X)
         /\ Pair(q, X) => Pair(Tail(q), X) /\ (Head(q)[1] \in X => Once(Tail(q), X))
  <1>1. /\ Len(q) \in Nat \ {0} /\ DOMAIN q = 1..Len(q) /\ Head(q) = q[1]
        /\ DOMAIN Tail(q) = 1..(Len(q) - 1)
        /\ \A i \in 1..(Len(q) - 1) : Tail(q)[i] = q[i + 1]
    BY HeadTailProperties, EmptySeq, LenProperties
  <1>2. \A i \in DOMAIN Tail(q) : i + 1 \in DOMAIN q /\ q[i + 1] = Tail(q)[i] /\ i \in Nat \ {0}
    BY <1>1
  <1>3. Once(q, X) => Pair(q, X)
    BY DEF Once, Pair
  <1>4. ASSUME Pair(q, X) PROVE Pair(Tail(q), X)
    <2> SUFFICES ASSUME NEW i \in DOMAIN Tail(q), NEW j \in DOMAIN Tail(q),
                        NEW k \in DOMAIN Tail(q), Tail(q)[i][1] \in X, Tail(q)[j][1] \in X,
                        Tail(q)[k][1] \in X
                 PROVE  i = j \/ j = k \/ i = k
      BY DEF Pair
    <2>1. i + 1 = j + 1 \/ j + 1 = k + 1 \/ i + 1 = k + 1
      BY <1>2, <1>4 DEF Pair
    <2> QED
      BY <1>2, <2>1
  <1>5. ASSUME Pair(q, X), Head(q)[1] \in X PROVE Once(Tail(q), X)
    <2> SUFFICES ASSUME NEW i \in DOMAIN Tail(q), NEW j \in DOMAIN Tail(q),
                        Tail(q)[i][1] \in X, Tail(q)[j][1] \in X
                 PROVE  i = j
      BY DEF Once
    <2>1. 1 = i + 1 \/ i + 1 = j + 1 \/ 1 = j + 1
      BY <1>1, <1>2, <1>5 DEF Pair
    <2> QED
      BY <1>2, <2>1
  <1> QED
    BY <1>3, <1>4, <1>5

\* One list after the other.
LEMMA PairBoth ==
  ASSUME NEW S, NEW p \in Seq(S), NEW q \in Seq(S), NEW X,
         \/ Once(p, X) /\ Once(q, X)
         \/ ~Has(p, X) /\ Pair(q, X)
  PROVE  Pair(p \o q, X)
  <1>1. /\ p \o q \in Seq(S) /\ DOMAIN p = 1..Len(p) /\ DOMAIN q = 1..Len(q)
        /\ Len(p) \in Nat /\ Len(q) \in Nat /\ DOMAIN (p \o q) = 1..(Len(p) + Len(q))
        /\ \A i \in 1..(Len(p) + Len(q)) :
               (p \o q)[i] = IF i <= Len(p) THEN p[i] ELSE q[i - Len(p)]
    BY ConcatProperties, LenProperties
  <1>2. \A i \in DOMAIN (p \o q) :
            \/ i \in DOMAIN p /\ (p \o q)[i] = p[i]
            \/ i \in Nat /\ i - Len(p) \in DOMAIN q /\ (p \o q)[i] = q[i - Len(p)]
    BY <1>1
  <1> DEFINE r == p \o q
  <1>3. SUFFICES ASSUME NEW i \in DOMAIN r, NEW j \in DOMAIN r, NEW k \in DOMAIN r,
                        r[i][1] \in X, r[j][1] \in X, r[k][1] \in X
                 PROVE  i = j \/ j = k \/ i = k
    BY DEF Pair
  <1>4. \A l \in DOMAIN r : r[l][1] \in X =>
            \/ l \in DOMAIN p /\ p[l][1] \in X
            \/ l \in Nat /\ l - Len(p) \in DOMAIN q /\ q[l - Len(p)][1] \in X
    BY <1>2
  <1>5. CASE Once(p, X) /\ Once(q, X)
    <2>1. ASSUME NEW a \in DOMAIN p, NEW b \in DOMAIN p, p[a][1] \in X, p[b][1] \in X
          PROVE  a = b
      BY <1>5, <2>1 DEF Once
    <2>2. ASSUME NEW a \in Nat, NEW b \in Nat, a - Len(p) \in DOMAIN q, b - Len(p) \in DOMAIN q,
                 q[a - Len(p)][1] \in X, q[b - Len(p)][1] \in X
          PROVE  a = b
      <3>1. a - Len(p) = b - Len(p)
        BY <1>5, <2>2 DEF Once
      <3> QED
        BY <1>1, <3>1
    <2> QED
      <3> HIDE DEF r
      <3> QED
        BY <1>3, <1>4, <2>1, <2>2
  <1>6. CASE ~Has(p, X) /\ Pair(q, X)
    <2>1. /\ i - Len(p) \in DOMAIN q /\ q[i - Len(p)][1] \in X /\ i \in Nat
          /\ j - Len(p) \in DOMAIN q /\ q[j - Len(p)][1] \in X /\ j \in Nat
          /\ k - Len(p) \in DOMAIN q /\ q[k - Len(p)][1] \in X /\ k \in Nat
      <3> HIDE DEF r
      <3> QED
        BY <1>3, <1>4, <1>6 DEF Has
    <2>2. i - Len(p) = j - Len(p) \/ j - Len(p) = k - Len(p) \/ i - Len(p) = k - Len(p)
      BY <1>6, <2>1 DEF Pair
    <2> QED
      BY <1>1, <2>1, <2>2
  <1> QED
    BY <1>5, <1>6

\* A handler has no steps but those of its event.
LEMMA AllowedWithout ==
  ASSUME NEW e, NEW q \in Seq(Allowed(e)), NEW X, Ops(e) \cap X = {}
  PROVE  ~Has(q, X) /\ Once(q, X) /\ Pair(q, X)
  <1>1. ASSUME NEW i \in DOMAIN q PROVE q[i][1] \notin X
    <2>1. q[i] \in Allowed(e)
      BY ElementOfSeq, LenProperties
    <2> QED
      BY <2>1, StepIs
  <1> QED
    BY <1>1 DEF Has, Once, Pair

\* Lists of at most one step.
LEMMA AtMostOne ==
  ASSUME NEW q, NEW op, NEW X, \/ q = <<>>
                               \/ \E x : q = <<x>> /\ x[1] = op
  PROVE  /\ Has(q, X) => op \in X
         /\ Once(q, X)
  BY HasOne

\* The steps of the invoice.
LEMMA InvoiceList ==
  ASSUME NEW e
  PROVE  /\ InvoiceSteps(e) \in {<<>>, << <<"partner">> >>}
         /\ PaidInvoiceSteps(e) \in {<<>>, << <<"partner">> >>}
         /\ InvoiceSteps(e) # <<>> => doc.invoicing /\ Invoiceable(e) /\ ~Redeems(e)
         /\ PaidInvoiceSteps(e) = IF IsPaid(e) THEN InvoiceSteps(e) ELSE <<>>
  BY Triggered, Zenon DEF InvoiceSteps, PaidInvoiceSteps, Trigger

\* The handler of booking.confirmed does each thing once.
ConfirmedOps == {"put_row", "record", "credit", "partner", "check_sent"}
LEMMA ConfirmedOnce ==
  ASSUME doc.kind = "booking", NEW e \in BookingEvent, NEW f \in BookingEvent,
         e.type \in {"confirmed", "link_paid", "status_success"},
         IsPaid(f) => Pays(e), Invoiceable(f) => Charges(e),
         LoyaltySucceeded(f) => Credits(e), Announced(f) => Announces(e),
         NEW X, \A a, b \in ConfirmedOps \cap X : a = b
  PROVE  /\ Has(ConfirmedSteps(f), X) => \E a \in ConfirmedOps : a \in X
         /\ Once(ConfirmedSteps(f), X)
  <1> DEFINE S == Allowed(e)
             a == CacheSteps(f)
             b == PaymentSteps(f)
             c == LoyaltySteps(f)
             d == PaidInvoiceSteps(f)
             g == NotifySteps(f)
  <1>1. a \in Seq(S) /\ b \in Seq(S) /\ c \in Seq(S) /\ d \in Seq(S) /\ g \in Seq(S)
    BY ConfirmedAllowed
  <1>2. /\ Has(a, X) => "put_row" \in X
        /\ Once(a, X)
    <2>1. a = << <<"put_row", "confirmed", CachePay(f)>> >>
      BY DEF CacheSteps
    <2>2. <<"put_row", "confirmed", CachePay(f)>>[1] = "put_row"
      OBVIOUS
    <2> HIDE DEF a
    <2> QED
      BY <2>1, <2>2, AtMostOne
  <1>3. /\ Has(b, X) => "record" \in X
        /\ Once(b, X)
    <2>1. b = <<>> \/ \E x : b = <<x>> /\ x[1] = "record"
      BY DEF PaymentSteps
    <2> HIDE DEF b
    <2> QED
      BY <2>1, AtMostOne
  <1>4. /\ Has(c, X) => "credit" \in X
        /\ Once(c, X)
    <2>1. c = <<>> \/ \E x : c = <<x>> /\ x[1] = "credit"
      BY DEF LoyaltySteps
    <2> HIDE DEF c
    <2> QED
      BY <2>1, AtMostOne
  <1>5. /\ Has(d, X) => "partner" \in X
        /\ Once(d, X)
    <2>1. d = <<>> \/ \E x : d = <<x>> /\ x[1] = "partner"
      BY InvoiceList
    <2> HIDE DEF d
    <2> QED
      BY <2>1, AtMostOne
  <1>6. /\ Has(g, X) => "check_sent" \in X
        /\ Once(g, X)
    <2>1. g = <<>> \/ \E x : g = <<x>> /\ x[1] = "check_sent"
      BY DEF NotifySteps
    <2> HIDE DEF g
    <2> QED
      BY <2>1, AtMostOne
  <1>7. ConfirmedSteps(f) = a \o b \o c \o d \o g
    BY DEF ConfirmedSteps
  <1>8. /\ ~("put_row" \in X /\ "record" \in X)
        /\ ~("credit" \in X /\ ("put_row" \in X \/ "record" \in X))
        /\ ~("partner" \in X /\ ("put_row" \in X \/ "record" \in X \/ "credit" \in X))
        /\ ~("check_sent" \in X
                 /\ ("put_row" \in X \/ "record" \in X \/ "credit" \in X \/ "partner" \in X))
    BY DEF ConfirmedOps
  <1> HIDE DEF S, a, b, c, d, g
  <1> DEFINE ab == a \o b
  <1>9. /\ ab \in Seq(S) /\ Once(ab, X)
        /\ Has(ab, X) => "put_row" \in X \/ "record" \in X
    BY <1>1, <1>2, <1>3, <1>8, HasBoth
  <1> HIDE DEF ab
  <1> DEFINE abc == ab \o c
  <1>10. /\ abc \in Seq(S) /\ Once(abc, X)
         /\ Has(abc, X) => "put_row" \in X \/ "record" \in X \/ "credit" \in X
    BY <1>1, <1>4, <1>8, <1>9, HasBoth
  <1> HIDE DEF abc
  <1> DEFINE abcd == abc \o d
  <1>11. /\ abcd \in Seq(S) /\ Once(abcd, X)
         /\ Has(abcd, X) => "put_row" \in X \/ "record" \in X \/ "credit" \in X \/ "partner" \in X
    BY <1>1, <1>5, <1>8, <1>10, HasBoth
  <1> HIDE DEF abcd
  <1>12. /\ Once(abcd \o g, X)
         /\ Has(abcd \o g, X) => \E x \in ConfirmedOps : x \in X
    <2>1. /\ Once(abcd \o g, X)
          /\ Has(abcd \o g, X) <=> Has(abcd, X) \/ Has(g, X)
      BY <1>1, <1>6, <1>8, <1>11, HasBoth
    <2> QED
      BY <1>6, <1>11, <2>1 DEF ConfirmedOps
  <1> QED
    BY <1>7, <1>12 DEF ab, abc, abcd

\* The handler of a cancellation does each thing once.
CancelledOps ==
    {"reverse", "find_link", "drop_row", "close_link", "set_booking", "request_refund"}
LEMMA CancelledOnce ==
  ASSUME doc.kind = "booking", NEW e \in BookingEvent, e.type = "cancelled",
         NEW X, \A a, b \in CancelledOps \cap X : a = b
  PROVE  Once(CancelledSteps(e), X)
  <1> DEFINE S == Allowed(e)
             a == ReversalSteps(e)
             b == FindLinkSteps(e)
             c == << <<"drop_row">> >>
             d == CloseLinkSteps(e)
             g == << <<"set_booking", "cancelled", SyncPay(e)>> >>
             h == IF e.pay = "refund_requested" THEN << <<"request_refund">> >> ELSE <<>>
  <1>1. /\ a \in Seq(S) /\ b \in Seq(S) /\ c \in Seq(S) /\ d \in Seq(S) /\ g \in Seq(S)
        /\ h \in Seq(S)
    BY CancelledParts
  <1>2. /\ Has(a, X) => "reverse" \in X
        /\ Once(a, X)
    <2>1. a = <<>> \/ \E x : a = <<x>> /\ x[1] = "reverse"
      BY DEF ReversalSteps
    <2> HIDE DEF a
    <2> QED
      BY <2>1, AtMostOne
  <1>3. /\ Has(b, X) => "find_link" \in X
        /\ Once(b, X)
    <2>1. b = <<>> \/ \E x : b = <<x>> /\ x[1] = "find_link"
      BY DEF FindLinkSteps
    <2> HIDE DEF b
    <2> QED
      BY <2>1, AtMostOne
  <1>4. /\ Has(c, X) => "drop_row" \in X
        /\ Once(c, X)
    <2>1. c = << <<"drop_row">> >> /\ <<"drop_row">>[1] = "drop_row"
      OBVIOUS
    <2> HIDE DEF c
    <2> QED
      BY <2>1, AtMostOne
  <1>5. /\ Has(d, X) => "close_link" \in X
        /\ Once(d, X)
    <2>1. d = <<>> \/ \E x : d = <<x>> /\ x[1] = "close_link"
      BY DEF CloseLinkSteps
    <2> HIDE DEF d
    <2> QED
      BY <2>1, AtMostOne
  <1>6. /\ Has(g, X) => "set_booking" \in X
        /\ Once(g, X)
    <2>1. <<"set_booking", "cancelled", SyncPay(e)>>[1] = "set_booking"
      OBVIOUS
    <2> QED
      BY <2>1, AtMostOne
  <1>7. /\ Has(h, X) => "request_refund" \in X
        /\ Once(h, X)
    <2>1. h = <<>> \/ \E x : h = <<x>> /\ x[1] = "request_refund"
      OBVIOUS
    <2> HIDE DEF h
    <2> QED
      BY <2>1, AtMostOne
  <1>8. CancelledSteps(e) = a \o b \o c \o d \o g \o h
    BY DEF CancelledSteps
  <1>9. /\ ~("reverse" \in X /\ "find_link" \in X)
        /\ ~("drop_row" \in X /\ \E x \in {"reverse", "find_link"} : x \in X)
        /\ ~("close_link" \in X /\ \E x \in {"reverse", "find_link", "drop_row"} : x \in X)
        /\ ~(/\ "set_booking" \in X
             /\ \E x \in {"reverse", "find_link", "drop_row", "close_link"} : x \in X)
        /\ ~(/\ "request_refund" \in X
             /\ \E x \in {"reverse", "find_link", "drop_row", "close_link", "set_booking"} :
                    x \in X)
    BY DEF CancelledOps
  <1> HIDE DEF S, a, b, c, d, g, h
  <1> DEFINE ab == a \o b
  <1>10. /\ ab \in Seq(S) /\ Once(ab, X)
         /\ Has(ab, X) => \E x \in {"reverse", "find_link"} : x \in X
    BY <1>1, <1>2, <1>3, <1>9, HasBoth
  <1> HIDE DEF ab
  <1> DEFINE abc == ab \o c
  <1>11. /\ abc \in Seq(S) /\ Once(abc, X)
         /\ Has(abc, X) => \E x \in {"reverse", "find_link", "drop_row"} : x \in X
    BY <1>1, <1>10, <1>4, <1>9, HasBoth
  <1> HIDE DEF abc
  <1> DEFINE abcd == abc \o d
  <1>12. /\ abcd \in Seq(S) /\ Once(abcd, X)
         /\ Has(abcd, X) => \E x \in {"reverse", "find_link", "drop_row", "close_link"} : x \in X
    BY <1>1, <1>11, <1>5, <1>9, HasBoth
  <1> HIDE DEF abcd
  <1> DEFINE abcdg == abcd \o g
  <1>13. /\ abcdg \in Seq(S) /\ Once(abcdg, X)
         /\ Has(abcdg, X) =>
                \E x \in {"reverse", "find_link", "drop_row", "close_link", "set_booking"} : x \in X
    BY <1>1, <1>12, <1>6, <1>9, HasBoth
  <1> HIDE DEF abcdg
  <1>14. Once(abcdg \o h, X)
    BY <1>1, <1>13, <1>7, <1>9, HasBoth
  <1> QED
    BY <1>8, <1>14 DEF ab, abc, abcd, abcdg

\* The handler of a payment at the desk invoices twice.
LEMMA DeskTwice ==
  ASSUME doc.kind = "booking", NEW e \in BookingEvent, e.type = "status_success"
  PROVE  /\ \A op \in Singles : Once(StatusSuccessSteps(e), {op})
         /\ Pair(StatusSuccessSteps(e), Chain)
  <1> DEFINE S == Allowed(e)
             f == [e EXCEPT !.pay = "success"]
             a == << <<"pay_row">> >>
             b == IF e.full THEN InvoiceSteps(e) ELSE << <<"fetch">> >>
             c == ConfirmedSteps(f)
  <1>1. f \in BookingEvent /\ Pays(e) /\ Charges(e) /\ Credits(e) /\ Announces(e)
    BY AsPaid DEF Pays, Charges, Credits, Announces, Delegating
  <1>2. c \in Seq(S) /\ InvoiceSteps(e) \in Seq(S)
    <2> HIDE DEF f, S
    <2> QED
      BY <1>1, ConfirmedAllowed DEF S
  <1>3. a \in Seq(S) /\ b \in Seq(S)
    <2>1. {"pay_row", "fetch"} \subseteq Ops(e)
      BY DEF Ops
    <2>2. <<"pay_row">> \in Allowed(e) /\ <<"fetch">> \in Allowed(e)
      BY <2>1, OneStep, PlainOps
    <2> QED
      BY <1>2, <2>2, Lists
  <1>4. \A X : Once(a, X) /\ (Has(a, X) <=> "pay_row" \in X)
    BY HasOne
  <1>5. \A X : Once(b, X) /\ (Has(b, X) => "partner" \in X \/ "fetch" \in X)
    <2>1. b = <<>> \/ b = << <<"partner">> >> \/ b = << <<"fetch">> >>
      BY InvoiceList
    <2> HIDE DEF b
    <2> QED
      BY <2>1, HasOne
  <1>6. StatusSuccessSteps(e) = a \o b \o c
    BY DEF StatusSuccessSteps
  <1> HIDE DEF S, f, a, b
  <1>7. ASSUME NEW X, \A x, y \in ConfirmedOps \cap X : x = y
        PROVE  Once(c, X)
    BY <1>1, <1>7, ConfirmedOnce
  <1> HIDE DEF c
  <1> DEFINE ab == a \o b
  <1>8. ASSUME NEW X, "pay_row" \notin X
        PROVE  /\ ab \in Seq(S) /\ Once(ab, X)
               /\ Has(ab, X) => "partner" \in X \/ "fetch" \in X
    <2>1. /\ a \o b \in Seq(S)
          /\ Has(a \o b, X) <=> Has(a, X) \/ Has(b, X)
          /\ Once(a, X) /\ Once(b, X) /\ ~(Has(a, X) /\ Has(b, X)) => Once(a \o b, X)
      BY <1>3, HasBoth
    <2>2. ~Has(a, X)
      BY <1>4, <1>8
    <2> QED
      BY <1>4, <1>5, <2>1, <2>2
  <1> HIDE DEF ab
  <1>9. ASSUME NEW op \in Singles PROVE Once(ab \o c, {op})
    <2>1. /\ ab \in Seq(S) /\ Once(ab, {op}) /\ ~Has(ab, {op})
      BY <1>8 DEF Singles
    <2>2. Once(c, {op})
      BY <1>7
    <2> QED
      BY <1>2, <2>1, <2>2, HasBoth
  <1>10. Pair(ab \o c, Chain)
    <2>1. ab \in Seq(S) /\ Once(ab, Chain)
      BY <1>8 DEF Chain
    <2>2. Once(c, Chain)
      BY <1>7 DEF ConfirmedOps, Chain
    <2> QED
      BY <1>2, <2>1, <2>2, PairBoth
  <1> QED
    BY <1>6, <1>9, <1>10 DEF ab

\* Messages and marks are none of what is counted.
LEMMA QuietOnce ==
  ASSUME NEW S, NEW q \in Seq(S), NEW p \in Seq(S), NEW X, ~Has(q, X), Once(p, X)
  PROVE  /\ Once(q \o p, X) /\ (Has(q \o p, X) <=> Has(p, X))
         /\ Once(p \o q, X) /\ (Has(p \o q, X) <=> Has(p, X))
         /\ q \o p \in Seq(S) /\ p \o q \in Seq(S)
  <1>1. Once(q, X)
    BY DEF Has, Once
  <1> QED
    BY <1>1, HasBoth

\* Messages and marks.
Telling == {q \in AnyStep : q[1] \in {"send", "mark"}}
LEMMA TellingLists ==
  /\ \A t \in Templates, a \in Audiences :
         Phone(t, a) \in Seq(Telling) /\ Mail(t, a) \in Seq(Telling)
  /\ \A t \in Templates : << <<"send", t, "sms", "sender">> >> \in Seq(Telling)
  /\ MarkNotified \in Seq(Telling) /\ <<>> \in Seq(Telling)
  /\ \A p, q \in Seq(Telling) : p \o q \in Seq(Telling) /\ UnlessSelf(p) \in Seq(Telling)
  /\ Seq(Telling) \subseteq Seq(AnyStep)
  /\ \A q \in Seq(Telling) : \A X : X \cap {"send", "mark"} = {} => ~Has(q, X)
  <1>1. ASSUME NEW t \in Templates, NEW c \in Channels, NEW a \in Audiences
        PROVE  << <<"send", t, c, a>> >> \in Seq(Telling)
    <2>1. <<"send", t, c, a>> \in Telling
      BY DEF Telling, AnyStep
    <2> QED
      BY <2>1, Lists
  <1>2. \A t \in Templates, a \in Audiences :
            Phone(t, a) \in Seq(Telling) /\ Mail(t, a) \in Seq(Telling)
    BY <1>1, Lists DEF Phone, Mail, Channels
  <1>3. \A t \in Templates : << <<"send", t, "sms", "sender">> >> \in Seq(Telling)
    BY <1>1 DEF Channels, Audiences
  <1>4. MarkNotified \in Seq(Telling)
    <2>1. <<"mark", "notified">> \in Telling
      BY DEF Telling, AnyStep
    <2> QED
      BY <2>1, Lists DEF MarkNotified
  <1>5. /\ <<>> \in Seq(Telling)
        /\ \A p, q \in Seq(Telling) : p \o q \in Seq(Telling) /\ UnlessSelf(p) \in Seq(Telling)
    BY Lists, Zenon DEF UnlessSelf
  <1>6. ASSUME NEW q \in Seq(Telling)
        PROVE  /\ q \in Seq(AnyStep)
               /\ \A X : X \cap {"send", "mark"} = {} => ~Has(q, X)
    <2>1. \A i \in DOMAIN q : q[i] \in Telling
      BY ElementOfSeq, LenProperties
    <2>2. \A i \in DOMAIN q : q[i] \in AnyStep /\ q[i][1] \in {"send", "mark"}
      BY <2>1 DEF Telling
    <2>3. q \in Seq(AnyStep)
      BY <2>2, SeqDef, LenProperties
    <2> QED
      BY <2>2, <2>3 DEF Has
  <1> QED
    BY <1>2, <1>3, <1>4, <1>5, <1>6

\* Vouchers, orders and gifts are recorded and invoiced once.
LEMMA SaleOnce ==
  ASSUME doc.kind \in Sold, NEW e \in Event, NEW X, X \cap {"send", "mark"} = {},
         ~("partner" \in X /\ "record" \in X),
         e.type \in {"voucher_active", "voucher_scheduled", "order_created",
                     "gift_purchase_completed"}
  PROVE  Once(SaleSteps(e), X)
  <1>1. /\ << <<"record">> >> \in Seq(AnyStep) /\ << <<"partner">> >> \in Seq(AnyStep)
        /\ <<>> \in Seq(AnyStep)
    <2>1. <<"record">> \in AnyStep /\ <<"partner">> \in AnyStep
      BY PlainOps DEF AnyStep
    <2> QED
      BY <2>1, Lists
  <1>2. /\ Once(<< <<"record">> >>, X) /\ Once(<< <<"partner">> >>, X) /\ Once(<<>>, X)
        /\ Has(<< <<"record">> >>, X) <=> "record" \in X
        /\ Has(<< <<"partner">> >>, X) <=> "partner" \in X
        /\ ~Has(<<>>, X)
    BY HasOne
  <1> DEFINE t == Trigger(<<"partner">>)
             tr == t \o << <<"record">> >>
  <1>3. /\ t \in Seq(AnyStep) /\ Once(t, X) /\ (Has(t, X) => "partner" \in X)
        /\ tr \in Seq(AnyStep) /\ Once(tr, X)
    <2>1. t \in {<<>>, << <<"partner">> >>}
      BY Triggered
    <2> HIDE DEF t
    <2>2. t \in Seq(AnyStep) /\ Once(t, X) /\ (Has(t, X) => "partner" \in X)
      BY <1>1, <1>2, <2>1
    <2> QED
      BY <1>1, <1>2, <2>2, HasBoth
  <1>4. ASSUME NEW m \in Seq(Telling) PROVE m \in Seq(AnyStep) /\ ~Has(m, X)
    BY TellingLists
  <1>5. \A x \in {"active", "scheduled", "order", "purchase"} : x \in Templates
    BY DEF Templates, ObjectScoped
  <1>6. \A x \in {"active", "scheduled", "order", "purchase"}, a \in Audiences :
            Phone(x, a) \in Seq(Telling) /\ Mail(x, a) \in Seq(Telling)
    BY <1>5, TellingLists
  <1>7. {"sender", "recipient", "customer"} \subseteq Audiences
    BY DEF Audiences
  <1>8. CASE e.type = "voucher_active"
    <2> DEFINE m == IF e.status = "active" THEN VoucherMessageSteps ELSE <<>>
    <2>1. m \in Seq(Telling)
      <3>1. TellSender \in Seq(Telling)
        BY <1>6, <1>7, TellingLists, Zenon DEF TellSender
      <3>2. TellRecipient \in Seq(Telling)
        BY <1>6, <1>7, TellingLists, Zenon DEF TellRecipient
      <3> QED
        BY <3>1, <3>2, TellingLists, Zenon DEF VoucherMessageSteps
    <2>2. SaleSteps(e) = tr \o m
      BY <1>8 DEF SaleSteps, VoucherActiveSteps
    <2> HIDE DEF m, tr
    <2>3. m \in Seq(AnyStep) /\ ~Has(m, X)
      BY <1>4, <2>1
    <2>4. Once(tr \o m, X)
      BY <1>3, <2>3, QuietOnce
    <2> QED
      BY <2>2, <2>4, Zenon
  <1>9. CASE e.type = "voucher_scheduled"
    <2> DEFINE m == << <<"record">>, <<"send", "scheduled", "sms", "sender">> >>
    <2>1. SaleSteps(e) = t \o m
      BY <1>9 DEF SaleSteps, VoucherScheduledSteps
    <2>2. <<"record">> \in AnyStep /\ <<"send", "scheduled", "sms", "sender">> \in AnyStep
      BY <1>5, <1>7, PlainOps DEF AnyStep, Channels
    <2>3. m \in Seq(AnyStep) /\ Once(m, X) /\ (Has(m, X) => "record" \in X)
      <3>1. m \in Seq(AnyStep)
        BY <2>2
      <3> QED
        BY <3>1 DEF Once, Has
    <2> HIDE DEF m, t
    <2> QED
      BY <1>3, <2>1, <2>3, HasBoth
  <1>10. CASE e.type = "order_created"
    <2> DEFINE m == Phone("order", "customer")
               b == IF e.pay = "success" THEN t ELSE <<>>
               r == << <<"record">> >>
               rm == r \o m
    <2>1. m \in Seq(Telling)
      BY <1>6, <1>7
    <2>2. SaleSteps(e) = r \o m \o b
      BY <1>10 DEF SaleSteps, OrderCreatedSteps
    <2>3. b \in Seq(AnyStep) /\ Once(b, X) /\ (Has(b, X) => "partner" \in X)
      BY <1>1, <1>2, <1>3, Zenon
    <2> HIDE DEF m, b
    <2>4. r \in Seq(AnyStep) /\ Once(r, X) /\ (Has(r, X) <=> "record" \in X)
      BY <1>1, <1>2
    <2> HIDE DEF r
    <2>5. rm \in Seq(AnyStep) /\ Once(rm, X) /\ (Has(rm, X) <=> "record" \in X)
      BY <1>4, <2>1, <2>4, QuietOnce
    <2>6. SaleSteps(e) = rm \o b
      BY <2>2
    <2> HIDE DEF rm
    <2> QED
      BY <2>3, <2>5, <2>6, HasBoth
  <1>11. CASE e.type = "gift_purchase_completed"
    <2> DEFINE a == UnlessSelf(Phone("purchase", "sender"))
               b == IF doc.desk THEN <<>> ELSE Phone("purchase", "recipient") \o MarkNotified
               ab == a \o b
    <2>1. a \in Seq(Telling) /\ b \in Seq(Telling)
      BY <1>6, <1>7, TellingLists, Zenon
    <2>2. SaleSteps(e) = a \o b \o t
      BY <1>11 DEF SaleSteps, GiftPurchaseSteps
    <2> HIDE DEF a, b
    <2>3. ab \in Seq(Telling)
      BY <2>1, TellingLists
    <2>4. SaleSteps(e) = ab \o t
      BY <2>2
    <2> HIDE DEF ab
    <2> QED
      <3>1. ab \in Seq(AnyStep) /\ ~Has(ab, X)
        BY <1>4, <2>3
      <3> HIDE DEF t
      <3>2. Once(ab \o t, X)
        BY <1>3, <3>1, QuietOnce
      <3> QED
        BY <2>4, <3>2, Zenon
  <1> QED
    BY <1>8, <1>9, <1>10, <1>11

\* Every handler does what is counted once; the one for a payment at the desk invoices twice.
LEMMA StepsOnce ==
  ASSUME doc.kind \in Kinds, NEW e \in Event
  PROVE  /\ \A op \in Singles : Once(Steps(e), {op})
         /\ IF e.type = "status_success" THEN Pair(Steps(e), Chain) ELSE Once(Steps(e), Chain)
  <1>0. Steps(e) \in Seq(Allowed(e))
    BY StepsAllowed
  <1>1. \A X : Ops(e) \cap X = {} => Once(Steps(e), X)
    BY <1>0, AllowedWithout
  <1>2. CASE doc.kind = "booking"
    <2>0. e \in BookingEvent /\ Steps(e) = BookingSteps(e)
      BY <1>2 DEF Event, Steps
    <2>1. CASE e.type = "confirmed"
      <3>1. /\ Steps(e) = ConfirmedSteps(e)
            /\ IsPaid(e) => Pays(e)
            /\ Invoiceable(e) => Charges(e)
            /\ LoyaltySucceeded(e) => Credits(e)
            /\ Announced(e) => Announces(e)
        BY <2>0, <2>1 DEF BookingSteps, Pays, Charges, Credits, Announces
      <3>2. \A X : (\A a, b \in ConfirmedOps \cap X : a = b) => Once(Steps(e), X)
        BY <1>2, <2>0, <2>1, <3>1, ConfirmedOnce
      <3>3. /\ \A op \in Singles : \A a, b \in ConfirmedOps \cap {op} : a = b
            /\ \A a, b \in ConfirmedOps \cap Chain : a = b
        BY DEF ConfirmedOps, Chain
      <3> QED
        BY <2>1, <3>2, <3>3
    <2>2. CASE e.type = "link_paid"
      <3> DEFINE f == [e EXCEPT !.pay = "success"]
                 a == << <<"set_booking", "confirmed", "success">>, <<"pay_row">>, <<"mark_paid">> >>
                 c == ConfirmedSteps(f)
      <3>1. f \in BookingEvent /\ Pays(e) /\ Charges(e) /\ Credits(e) /\ Announces(e)
        BY <2>0, <2>2, AsPaid DEF Pays, Charges, Credits, Announces, Delegating
      <3>2. Steps(e) = a \o c
        BY <2>0, <2>2 DEF BookingSteps, LinkPaidSteps
      <3>3. a \in Seq(Allowed(e))
        <4>1. {"set_booking", "pay_row", "mark_paid"} \subseteq Ops(e)
          BY <2>2 DEF Ops
        <4>2. /\ <<"set_booking", "confirmed", "success">> \in Allowed(e)
              /\ <<"pay_row">> \in Allowed(e) /\ <<"mark_paid">> \in Allowed(e)
          BY <2>2, <4>1, OneStep, PlainOps DEF PayStatuses, WrittenBack
        <4> QED
          BY <4>2
      <3>4. \A X : X \cap {"set_booking", "pay_row", "mark_paid"} = {} => ~Has(a, X)
        BY DEF Has
      <3> HIDE DEF f, a
      <3>5. /\ c \in Seq(Allowed(e))
            /\ \A X : (\A x, y \in ConfirmedOps \cap X : x = y) => Once(c, X)
        BY <1>2, <2>0, <2>2, <3>1, ConfirmedAllowed, ConfirmedOnce
      <3> HIDE DEF c
      <3>6. \A X : /\ X \cap {"set_booking", "pay_row", "mark_paid"} = {}
                   /\ \A x, y \in ConfirmedOps \cap X : x = y
                   => Once(Steps(e), X)
        BY <3>2, <3>3, <3>4, <3>5, QuietOnce
      <3>7. /\ \A op \in Singles : /\ {op} \cap {"set_booking", "pay_row", "mark_paid"} = {}
                                   /\ \A x, y \in ConfirmedOps \cap {op} : x = y
            /\ Chain \cap {"set_booking", "pay_row", "mark_paid"} = {}
            /\ \A x, y \in ConfirmedOps \cap Chain : x = y
        BY DEF ConfirmedOps, Chain, Singles
      <3> QED
        BY <2>2, <3>6, <3>7
    <2>3. CASE e.type = "status_success"
      BY <1>2, <2>0, <2>3, DeskTwice DEF BookingSteps
    <2>4. CASE e.type = "cancelled"
      <3>1. \A X : (\A a, b \in CancelledOps \cap X : a = b) => Once(Steps(e), X)
        BY <1>2, <2>0, <2>4, CancelledOnce DEF BookingSteps
      <3>2. /\ \A op \in Singles : \A a, b \in CancelledOps \cap {op} : a = b
            /\ \A a, b \in CancelledOps \cap Chain : a = b
        BY DEF CancelledOps, Chain
      <3> QED
        BY <2>4, <3>1, <3>2
    <2>5. CASE e.type = "payment_refunded"
      <3> DEFINE a == << <<"send", "refunded", "sms", "customer">> >>
                 b == EmailSteps("refunded")
                 c == Trigger(<<"loose_note">>)
                 ab == a \o b
      <3>0. Steps(e) = a \o b \o c
        BY <2>0, <2>5 DEF BookingSteps, PaymentRefundedSteps
      <3>1. /\ "refunded" \in Templates /\ "customer" \in Audiences
            /\ {"sms", "email"} \subseteq Channels
        BY DEF Templates, Unguarded, Audiences, Channels
      <3>2. <<"send", "refunded", "sms", "customer">> \in Telling
            /\ <<"send", "refunded", "email", "customer">> \in Telling
        BY <3>1 DEF Telling, AnyStep
      <3>3. a \in Seq(Telling) /\ b \in Seq(Telling)
        BY <3>2, Lists, Zenon DEF EmailSteps
      <3>4. /\ <<"loose_note">> \in AnyStep
            /\ c \in Seq(AnyStep) /\ \A X : Once(c, X)
        <4>1. c \in {<<>>, << <<"loose_note">> >>} /\ <<"loose_note">> \in AnyStep
          BY Triggered, PlainOps DEF AnyStep
        <4>2. << <<"loose_note">> >> \in Seq(AnyStep) /\ <<>> \in Seq(AnyStep)
          BY <4>1, Lists
        <4>3. \A X : Once(<< <<"loose_note">> >>, X) /\ Once(<<>>, X)
          BY HasOne
        <4> HIDE DEF c
        <4> QED
          BY <4>1, <4>2, <4>3, Zenon
      <3> HIDE DEF a, b, c
      <3>5. ab \in Seq(Telling) /\ Steps(e) = ab \o c
        BY <3>0, <3>3, TellingLists
      <3> HIDE DEF ab
      <3>6. ASSUME NEW X, X \cap {"send", "mark"} = {} PROVE Once(Steps(e), X)
        <4>1. ab \in Seq(AnyStep) /\ ~Has(ab, X)
          BY <3>5, <3>6, TellingLists
        <4>2. Once(ab \o c, X)
          BY <3>4, <4>1, QuietOnce
        <4> QED
          BY <3>5, <4>2, Zenon
      <3>7. /\ \A op \in Singles : {op} \cap {"send", "mark"} = {}
            /\ Chain \cap {"send", "mark"} = {}
        BY DEF Singles, Chain
      <3> QED
        BY <2>5, <3>6, <3>7
    <2>6. CASE e.type \notin {"confirmed", "link_paid", "status_success", "cancelled",
                              "payment_refunded"}
      <3>1. /\ \A op \in Singles : Ops(e) \cap {op} = {}
            /\ Ops(e) \cap Chain = {}
        BY <2>0, <2>6 DEF Ops, BookingEvent, BookingTypes, Singles, Chain
      <3> QED
        BY <1>1, <2>6, <3>1
    <2> QED
      BY <2>1, <2>2, <2>3, <2>4, <2>5, <2>6
  <1>3. CASE doc.kind \in Sold
    <2>0. Steps(e) = SaleSteps(e) /\ e.type \in VoucherTypes \cup GiftTypes \cup {"order_created"}
      BY <1>3 DEF Event, Steps, SaleEvent
    <2>1. CASE e.type \in {"voucher_active", "voucher_scheduled", "order_created",
                           "gift_purchase_completed"}
      <3>1. /\ \A op \in Singles : /\ {op} \cap {"send", "mark"} = {}
                                   /\ ~("partner" \in {op} /\ "record" \in {op})
            /\ Chain \cap {"send", "mark"} = {} /\ "record" \notin Chain
        BY DEF Singles, Chain
      <3> QED
        BY <1>3, <2>0, <2>1, <3>1, SaleOnce
    <2>2. CASE e.type \notin {"voucher_active", "voucher_scheduled", "order_created",
                              "gift_purchase_completed"}
      <3>1. /\ \A op \in Singles : Ops(e) \cap {op} = {}
            /\ Ops(e) \cap Chain = {} /\ e.type # "status_success"
        BY <2>0, <2>2 DEF Ops, VoucherTypes, GiftTypes, Singles, Chain
      <3> QED
        BY <1>1, <3>1
    <2> QED
      BY <2>1, <2>2
  <1>4. CASE doc.kind = "account"
    <2>0. e.type \in Notices \cup {"sms_send"}
      BY <1>4 DEF Event, SomeNotice
    <2>1. /\ \A op \in Singles : Ops(e) \cap {op} = {}
          /\ Ops(e) \cap Chain = {} /\ e.type # "status_success"
      BY <2>0 DEF Ops, Notices, Singles, Chain
    <2> QED
      BY <1>1, <2>1
  <1> QED
    BY <1>2, <1>3, <1>4

\* The first step gives way to others.
LEMMA OnceOnward ==
  ASSUME NEW S, NEW q \in Seq(S), q # <<>>, NEW then \in Seq(S), NEW X,
         Has(then, X) => Head(q)[1] \in X, Once(then, X)
  PROVE  /\ Once(q, X) => Once(then \o Tail(q), X)
         /\ Pair(q, X) => Pair(then \o Tail(q), X)
         /\ Has(then \o Tail(q), X) => Has(q, X)
         /\ Pair(q, X) /\ Head(q)[1] \in X /\ ~Has(then, X) => Once(then \o Tail(q), X)
         /\ Once(q, X) /\ Head(q)[1] \in X /\ ~Has(then, X) => ~Has(then \o Tail(q), X)
  <1> DEFINE r == Tail(q)
  <1>1. r \in Seq(S)
    BY HeadTailProperties
  <1>2. /\ Has(q, X) <=> Head(q)[1] \in X \/ Has(r, X)
        /\ Once(q, X) => Once(r, X) /\ ~(Head(q)[1] \in X /\ Has(r, X))
    BY HasRest
  <1>3. Pair(q, X) => Pair(r, X) /\ (Head(q)[1] \in X => Once(r, X))
    BY PairRest
  <1> HIDE DEF r
  <1>4. /\ Has(then \o r, X) <=> Has(then, X) \/ Has(r, X)
        /\ Once(then, X) /\ Once(r, X) /\ ~(Has(then, X) /\ Has(r, X)) => Once(then \o r, X)
    BY <1>1, HasBoth
  <1>5. \/ Once(then, X) /\ Once(r, X)
        \/ ~Has(then, X) /\ Pair(r, X)
        => Pair(then \o r, X)
    BY <1>1, PairBoth
  <1> QED
    BY <1>2, <1>3, <1>4, <1>5 DEF r

\* What an operation puts before the other steps is not counted, or counted like itself.
LEMMA FollowsOnce ==
  ASSUME Common, NEW s \in Slot, slot[s].todo # <<>>, NEW then \in Follows(s)
  PROVE  /\ \A op \in Singles : ~Has(then, {op})
         /\ Has(then, Chain) => Op(s) \in Chain
         /\ Once(then, Chain)
         /\ Op(s) = "invoice" => ~Has(then, Chain)
  <1>1. CASE Op(s) = "check_sent"
    <2>1. /\ {"confirmed"} \subseteq Templates /\ "customer" \in Audiences
          /\ Channels \subseteq Channels
      BY DEF Templates, Trusting, Audiences
    <2>2. PhoneSteps("confirmed") \in Seq(Telling) /\ EmailSteps("confirmed") \in Seq(Telling)
      <3>1. \A c \in Channels : <<"send", "confirmed", c, "customer">> \in Telling
        BY <2>1 DEF Telling, AnyStep
      <3> QED
        BY <3>1, Lists DEF PhoneSteps, EmailSteps, Channels
    <2>3. ConfirmationSteps \in Seq(Telling)
      BY <2>2, Lists, Zenon DEF ConfirmationSteps
    <2>4. then \in Seq(Telling)
      BY <1>1, <2>3, Lists DEF Follows
    <2>5. \A X : X \cap {"send", "mark"} = {} => ~Has(then, X)
      BY <2>4, TellingLists
    <2>6. /\ \A op \in Singles : ~Has(then, {op})
          /\ ~Has(then, Chain)
      BY <2>5 DEF Singles, Chain
    <2> QED
      BY <1>1, <2>6 DEF Has, Once
  <1>2. CASE Op(s) = "send"
    <2>1. then = <<>> \/ \E x : then = <<x>> /\ x[1] = "send"
      <3>1. \A m : Fallback(m) = <<>> \/ \E x : Fallback(m) = <<x>> /\ x[1] = "send"
        <4>1. \A m : <<"send", m[1], "sms", m[3]>>[1] = "send"
          OBVIOUS
        <4> QED
          BY <4>1 DEF Fallback
      <3> QED
        BY <1>2, <3>1, Zenon DEF Follows
    <2>2. \A X : (Has(then, X) => "send" \in X) /\ Once(then, X)
      BY <2>1, AtMostOne
    <2> QED
      BY <1>2, <2>2 DEF Singles, Chain
  <1>3. CASE Op(s) \notin {"check_sent", "send"}
    <2>1. \/ then = <<>>
          \/ \E op \in {"invoice", "link_payments", "link_booking", "mark_row", "partner",
                        "link_note"} :
                 /\ then = << <<op>> >>
                 /\ op = "invoice" => Op(s) = "partner"
                 /\ op = "partner" => Op(s) = "fetch"
      BY <1>3 DEF Follows
    <2>2. CASE then = <<>>
      BY <2>2, HasOne DEF Singles
    <2>3. ASSUME NEW op \in {"invoice", "link_payments", "link_booking", "mark_row", "partner",
                             "link_note"},
                 then = << <<op>> >>, op = "invoice" => Op(s) = "partner",
                 op = "partner" => Op(s) = "fetch"
          PROVE  /\ \A o \in Singles : ~Has(then, {o})
                 /\ Has(then, Chain) => Op(s) \in Chain
                 /\ Once(then, Chain)
                 /\ Op(s) = "invoice" => ~Has(then, Chain)
      <3>1. \A X : Once(then, X) /\ (Has(then, X) <=> op \in X)
        BY <2>3, HasOne
      <3> QED
        BY <2>3, <3>1 DEF Singles, Chain
    <2> QED
      BY <2>1, <2>2, <2>3
  <1> QED
    BY <1>1, <1>2, <1>3

\* No slot has anything to do twice, except the two invoices of a payment at the desk.
Desk == Logged({"status_success"})
Orderly(s) ==
    /\ \A op \in Singles : Once(slot[s].todo, {op})
    /\ IF slot[s].ev \in Desk THEN Pair(slot[s].todo, Chain) ELSE Once(slot[s].todo, Chain)
OrderInv == \A s \in Slot : Orderly(s)

\* Handlers that go on keep it.
LEMMA OrderGoes ==
  ASSUME Common, OrderInv, NEW s \in Slot, slot[s].todo # <<>>, NEW then \in Follows(s)
  PROVE  /\ \A op \in Singles : /\ Once(then \o Tail(slot[s].todo), {op})
                                /\ Has(then \o Tail(slot[s].todo), {op}) => Has(slot[s].todo, {op})
                                /\ Op(s) = op => ~Has(then \o Tail(slot[s].todo), {op})
         /\ IF slot[s].ev \in Desk THEN Pair(then \o Tail(slot[s].todo), Chain)
            ELSE Once(then \o Tail(slot[s].todo), Chain)
         /\ Has(then \o Tail(slot[s].todo), Chain) => Has(slot[s].todo, Chain)
         /\ Once(slot[s].todo, Chain) => Once(then \o Tail(slot[s].todo), Chain)
         /\ Op(s) = "invoice" =>
                /\ Once(slot[s].todo, Chain) => ~Has(then \o Tail(slot[s].todo), Chain)
                /\ ~Once(slot[s].todo, Chain) => Once(then \o Tail(slot[s].todo), Chain)
  <1> DEFINE q == slot[s].todo
             S == Allowed(Ev(s))
  <1>1. Typed /\ Apart
    BY DEF Common
  <1>2. q \in Seq(S) /\ q # <<>> /\ then \in Seq(S) /\ Head(q)[1] = Op(s)
    BY <1>1, Working, GoesAllowed DEF Op
  <1>3. /\ \A op \in Singles : ~Has(then, {op})
        /\ Has(then, Chain) => Op(s) \in Chain
        /\ Once(then, Chain)
        /\ Op(s) = "invoice" => ~Has(then, Chain)
    BY FollowsOnce
  <1>4. /\ \A op \in Singles : Once(q, {op})
        /\ IF slot[s].ev \in Desk THEN Pair(q, Chain) ELSE Once(q, Chain)
    BY DEF OrderInv, Orderly
  <1> HIDE DEF q, S
  <1>5. Once(q, Chain) => Pair(q, Chain)
    BY <1>2, PairRest
  <1>6. ASSUME NEW op \in Singles
        PROVE  /\ Once(then \o Tail(q), {op})
               /\ Has(then \o Tail(q), {op}) => Has(q, {op})
               /\ Op(s) = op => ~Has(then \o Tail(q), {op})
    <2>1. ~Has(then, {op}) /\ Once(then, {op})
      BY <1>3 DEF Has, Once
    <2> QED
      BY <1>2, <1>4, <2>1, OnceOnward
  <1>7. /\ Once(q, Chain) => Once(then \o Tail(q), Chain)
        /\ Pair(q, Chain) => Pair(then \o Tail(q), Chain)
        /\ Has(then \o Tail(q), Chain) => Has(q, Chain)
        /\ Op(s) = "invoice" /\ Pair(q, Chain) => Once(then \o Tail(q), Chain)
        /\ Op(s) = "invoice" /\ Once(q, Chain) => ~Has(then \o Tail(q), Chain)
    <2>1. "invoice" \in Chain
      BY DEF Chain
    <2> QED
      BY <1>2, <1>3, <2>1, OnceOnward
  <1>8. /\ IF slot[s].ev \in Desk THEN Pair(then \o Tail(q), Chain)
           ELSE Once(then \o Tail(q), Chain)
        /\ Pair(q, Chain)
    BY <1>4, <1>5, <1>7
  <1> QED
    BY <1>6, <1>7, <1>8 DEF q

\* Every step.
LEMMA OrderNext == Common /\ OrderInv /\ [Next]_vars => OrderInv'
  <1> SUFFICES ASSUME Common, OrderInv, [Next]_vars PROVE OrderInv'
    OBVIOUS
  <1>0. /\ Typed /\ Apart /\ doc.kind \in Kinds /\ slot \in [Slot -> Hand(AnyStep)]
        /\ log \in Seq(Event) /\ queue \subseteq DOMAIN log
    BY DEF Common, Typed, Shaped
  <1>1. doc' = doc
    BY NextLasting DEF Common, Typed, Lasting
  <1>2. CASE UNCHANGED vars
    BY <1>2 DEF vars, OrderInv, Orderly, Desk, Logged
  <1>3. CASE Happen
    <2>1. PICK e \in Event : Publish(e)
      BY <1>0, <1>3, HappenPublishes
    <2>2. /\ \A n \in DOMAIN log : n \in DOMAIN log' /\ log'[n] = log[n]
          /\ DOMAIN log' = DOMAIN log \cup {Len(log) + 1} /\ Len(log) + 1 \notin DOMAIN log
          /\ Len(log) \in Nat
      BY <1>0, <1>1, <2>1, PublishApart
    <2>3. slot' = slot
      BY <2>1 DEF Publish
    <2>4. ASSUME NEW s \in Slot PROVE slot[s].ev \in Desk' => slot[s].ev \in Desk
      <3>1. slot[s].ev = 0 \/ slot[s].ev \in DOMAIN log
        BY <1>0 DEF Apart, Idle
      <3>2. slot[s].ev # Len(log) + 1
        BY <2>2, <3>1
      <3> QED
        BY <2>2, <3>2 DEF Desk, Logged
    <2>5. ASSUME NEW s \in Slot PROVE slot[s].ev \in Desk => slot[s].ev \in Desk'
      BY <2>2 DEF Desk, Logged
    <2> QED
      BY <2>3, <2>4, <2>5 DEF OrderInv, Orderly
  <1>4. ASSUME NEW s \in Slot, Step(s) PROVE OrderInv'
    <2>1. ASSUME slot' = [slot EXCEPT ![s] = slot'[s]], log' = log, Orderly(s)'
          PROVE  OrderInv'
      <3>1. Desk' = Desk
        BY <2>1 DEF Desk, Logged
      <3>2. \A t \in Slot : t # s => slot'[t] = slot[t]
        <4>1. slot' = [slot EXCEPT ![s] = slot'[s]]
          BY <2>1
        <4> QED
          BY <1>0, <4>1
      <3> QED
        BY <2>1, <3>1, <3>2 DEF OrderInv, Orderly
    <2>2. ASSUME slot'[s].todo = <<>> PROVE Orderly(s)'
      <3>1. \A X : Once(<<>>, X) /\ Pair(<<>>, X)
        BY DEF Once, Pair
      <3> QED
        BY <2>2, <3>1 DEF Orderly
    <2>3. CASE End(s) \/ Crash(s)
      <3>1. slot' = [slot EXCEPT ![s] = Idle] /\ slot'[s] = Idle /\ log' = log
        BY <1>0, <2>3 DEF End, Crash, Becomes
      <3>2. slot'[s].todo = <<>> /\ slot' = [slot EXCEPT ![s] = slot'[s]]
        <4>1. Idle.todo = <<>>
          BY DEF Idle
        <4> QED
          BY <3>1, <4>1
      <3> QED
        BY <2>1, <2>2, <3>1, <3>2
    <2>4. ASSUME NEW n \in queue, Starts(s, n) PROVE OrderInv'
      <3> DEFINE l == [Idle EXCEPT !.ev = n, !.todo = Steps(log[n])]
      <3>1. l.ev = n /\ l.todo = Steps(log[n])
        BY DEF Idle
      <3> HIDE DEF l
      <3>2. slot' = [slot EXCEPT ![s] = l] /\ slot'[s] = l /\ log' = log
        BY <1>0, <2>4 DEF Starts, Becomes, l
      <3>3. log[n] \in Event /\ n \in DOMAIN log
        BY <1>0, ElementOfSeq, LenProperties
      <3>4. Orderly(s)'
        <4>1. n \in Desk' <=> log[n].type = "status_success"
          BY <3>2, <3>3 DEF Desk, Logged
        <4>2. /\ \A op \in Singles : Once(l.todo, {op})
              /\ IF log[n].type = "status_success" THEN Pair(l.todo, Chain)
                 ELSE Once(l.todo, Chain)
          BY <1>0, <3>1, <3>3, StepsOnce
        <4> QED
          BY <3>1, <3>2, <4>1, <4>2 DEF Orderly
      <3> QED
        BY <2>1, <3>2, <3>4
    <2>5. CASE slot[s].todo # <<>> /\ Does(s)
      <3>1. Moves(s) /\ log' = log
        BY <1>0, <2>5, OperationMoves DEF Moves, Framed
      <3>2. CASE Raises(s)
        <4>1. slot' = [slot EXCEPT ![s] = Idle] /\ slot'[s] = Idle
          BY <1>0, <3>2 DEF Raises, Becomes
        <4>2. slot'[s].todo = <<>> /\ slot' = [slot EXCEPT ![s] = slot'[s]]
          <5>1. Idle.todo = <<>>
            BY DEF Idle
          <5> QED
            BY <4>1, <5>1
        <4> QED
          BY <2>1, <2>2, <3>1, <4>2
      <3>3. CASE Stops(s)
        <4>1. slot' = [slot EXCEPT ![s] = slot'[s]] /\ slot'[s].todo = <<>>
          BY <1>0, <3>3 DEF Stops, Becomes, Hand
        <4> QED
          BY <2>1, <2>2, <3>1, <4>1
      <3>4. ASSUME NEW then \in Follows(s), Goes(s, then) PROVE OrderInv'
        <4>1. /\ slot' = [slot EXCEPT ![s] = slot'[s]] /\ slot'[s].ev = slot[s].ev
              /\ slot'[s].todo = then \o Tail(slot[s].todo)
          BY <1>0, <3>4 DEF Goes, Becomes
        <4>2. Desk' = Desk
          BY <3>1 DEF Desk, Logged
        <4>3. Orderly(s)'
          <5>1. /\ \A op \in Singles : Once(then \o Tail(slot[s].todo), {op})
                /\ IF slot[s].ev \in Desk THEN Pair(then \o Tail(slot[s].todo), Chain)
                   ELSE Once(then \o Tail(slot[s].todo), Chain)
            BY <2>5, OrderGoes
          <5> QED
            BY <4>1, <4>2, <5>1 DEF Orderly
        <4> QED
          BY <2>1, <3>1, <4>1, <4>3
      <3> QED
        BY <3>1, <3>2, <3>3, <3>4 DEF Moves
    <2> QED
      BY <1>0, <1>4, <2>3, <2>4, <2>5, StepCases
  <1> QED
    BY <1>2, <1>3, <1>4 DEF Next

-----------------------------------------------------------------------------
(* What has been counted, and for which events.                            *)

\* The log is finite.
LEMMA LogFinite ==
  ASSUME log \in Seq(Event)
  PROVE  IsFiniteSet(DOMAIN log)
  <1> DEFINE N == Len(log)
  <1>1. DOMAIN log = 1..N /\ N \in Nat /\ 1 \in Int /\ N \in Int
    BY LenProperties
  <1> HIDE DEF N
  <1>2. IsFiniteSet(1..N)
    BY <1>1, FS_Interval
  <1> QED
    BY <1>1, <1>2

\* Events whose handler is still to take steps of a set Q of lists.
Having(X) == {q \in Seq(AnyStep) : Has(q, X)}
Doubled == {q \in Seq(AnyStep) : ~Once(q, Chain)}
Awaiting(Q) == {n \in queue : \A s \in Slot : slot[s].ev = n => slot[s].todo \in Q}

\* What a slot step does to them.
LEMMA AwaitingMoves ==
  ASSUME Typed, Apart, NEW s \in Slot, NEW l, SlotForm(s, l), NEW Q
  PROVE  /\ \A n : n # slot[s].ev /\ n # l.ev => (n \in Awaiting(Q)' <=> n \in Awaiting(Q))
         /\ l # Idle => (l.ev \in Awaiting(Q)' <=> l.todo \in Q)
         /\ slot[s].ev # 0 => (slot[s].ev \in Awaiting(Q) <=> slot[s].todo \in Q)
         /\ l # Idle /\ l.ev # slot[s].ev => l.ev \in Awaiting(Q)
  <1>0. /\ slot \in [Slot -> Hand(AnyStep)] /\ queue \subseteq DOMAIN log
        /\ log \in Seq(Event) /\ 0 \notin DOMAIN log
    BY LenProperties DEF Typed
  <1>1. /\ slot' = [slot EXCEPT ![s] = l]
        /\ \/ l = Idle
           \/ l.ev \in queue /\ l.ev \in queue' /\ (l.ev = slot[s].ev \/ l.ev \notin InHand)
        /\ queue' \subseteq queue /\ queue \ queue' \subseteq {slot[s].ev}
    BY DEF SlotForm
  <1>2. slot'[s] = l /\ \A t \in Slot : t # s => slot'[t] = slot[t]
    BY <1>0, <1>1
  <1>3. \A t \in Slot : t # s /\ slot[s].ev # 0 => slot[t].ev # slot[s].ev
    BY DEF Apart
  <1>4. \A t \in Slot : slot[t].ev # 0 => slot[t].ev \in InHand
    BY DEF InHand
  <1>5. slot[s].ev # 0 => slot[s].ev \in queue
    BY DEF Apart, Idle
  <1>6. ASSUME NEW n, n # slot[s].ev, n # l.ev PROVE n \in Awaiting(Q)' <=> n \in Awaiting(Q)
    <2>1. n \in queue' <=> n \in queue
      BY <1>1, <1>6
    <2>2. \A t \in Slot : (slot'[t].ev = n <=> slot[t].ev = n)
                          /\ (slot[t].ev = n => slot'[t].todo = slot[t].todo)
      BY <1>2, <1>6
    <2> QED
      BY <2>1, <2>2 DEF Awaiting
  <1>7. ASSUME l # Idle PROVE l.ev \in Awaiting(Q)' <=> l.todo \in Q
    <2>1. l.ev \in queue' /\ l.ev # 0
      BY <1>0, <1>1, <1>7
    <2>2. \A t \in Slot : t # s => slot'[t].ev # l.ev
      BY <1>1, <1>2, <1>3, <1>4, <1>7, <2>1
    <2> QED
      BY <1>2, <2>1, <2>2 DEF Awaiting
  <1>8. ASSUME slot[s].ev # 0 PROVE slot[s].ev \in Awaiting(Q) <=> slot[s].todo \in Q
    BY <1>3, <1>5, <1>8 DEF Awaiting
  <1>9. ASSUME l # Idle, l.ev # slot[s].ev PROVE l.ev \in Awaiting(Q)
    <2>1. l.ev \in queue /\ l.ev # 0
      BY <1>0, <1>1, <1>9
    <2>2. \A t \in Slot : slot[t].ev # l.ev
      BY <1>1, <1>4, <1>9, <2>1
    <2> QED
      BY <2>1, <2>2 DEF Awaiting
  <1> QED
    BY <1>6, <1>7, <1>8, <1>9

\* An event that is published is awaiting, whatever its handler has to do.
LEMMA AwaitingPublished ==
  ASSUME Typed, Apart, doc' = doc, NEW e \in Event, Publish(e), NEW Q
  PROVE  /\ Awaiting(Q)' = Awaiting(Q) \cup {Len(log) + 1}
         /\ DOMAIN log \cap Awaiting(Q)' \subseteq Awaiting(Q)
  <1>1. /\ queue' = queue \cup {Len(log) + 1} /\ Len(log) + 1 \notin DOMAIN log /\ slot' = slot
        /\ Len(log) \in Nat
    BY PublishApart DEF Publish
  <1> DEFINE n == Len(log) + 1
  <1>2. n # 0
    BY <1>1
  <1>3. \A t \in Slot : slot[t].ev # n
    <2>1. \A t \in Slot : slot[t].ev = 0 \/ slot[t].ev \in DOMAIN log
      BY DEF Apart, Typed, Idle
    <2> QED
      BY <1>1, <1>2, <2>1
  <1>4. queue' = queue \cup {n} /\ n \notin DOMAIN log
    BY <1>1
  <1> HIDE DEF n
  <1>5. Awaiting(Q)' = Awaiting(Q) \cup {n}
    BY <1>1, <1>3, <1>4 DEF Awaiting
  <1>6. DOMAIN log \cap Awaiting(Q)' \subseteq Awaiting(Q)
    BY <1>4, <1>5
  <1> QED
    BY <1>5, <1>6 DEF n

\* Events that leave those awaiting have had their effect: they stay so, unless a fault
\* starts the handler of one of them again.
Updates == {"updated", "rescheduled", "completed"}
LEMMA SpentStays ==
  ASSUME Common, NEW s \in Slot, Step(s), NEW Q, <<>> \notin Q,
         slot[s].todo # <<>> =>
             \A then \in Follows(s) : then \o Tail(slot[s].todo) \in Q => slot[s].todo \in Q,
         NEW D, D \subseteq DOMAIN log, \A n \in D : log[n].type \notin Updates
  PROVE  /\ faults' \in {faults, faults + 1}
         /\ D \ Awaiting(Q) \subseteq (D \ Awaiting(Q)') \cup {slot[s].ev}
         /\ faults' = faults => D \ Awaiting(Q) \subseteq D \ Awaiting(Q)'
  <1>0. /\ Typed /\ Apart /\ doc.kind \in Kinds /\ slot \in [Slot -> Hand(AnyStep)]
        /\ log \in Seq(Event) /\ queue \subseteq DOMAIN log /\ 0 \notin DOMAIN log
        /\ faults \in Nat
    BY LenProperties, FaultsAssumption DEF Common, Typed, Shaped
  <1>1. PICK l : SlotForm(s, l)
    BY <1>0, SlotForms
  <1>2. slot'[s] = l /\ queue' \subseteq queue
    BY <1>0, <1>1 DEF SlotForm
  <1>3. /\ \A n : n # slot[s].ev /\ n # l.ev => (n \in Awaiting(Q)' <=> n \in Awaiting(Q))
        /\ l # Idle => (l.ev \in Awaiting(Q)' <=> l.todo \in Q)
        /\ slot[s].ev # 0 => (slot[s].ev \in Awaiting(Q) <=> slot[s].todo \in Q)
        /\ l # Idle /\ l.ev # slot[s].ev => l.ev \in Awaiting(Q)
    BY <1>0, <1>1, AwaitingMoves
  <1>4. \/ End(s) /\ faults' = faults
        \/ Crash(s) /\ faults' = faults + 1
        \/ \E n \in queue : Starts(s, n) /\ faults' = faults
        \/ slot[s].todo # <<>> /\ Moves(s) /\ faults' \in {faults, faults + 1}
    <2>1. slot[s].todo # <<>> /\ Does(s) => Moves(s)
      BY <1>0, OperationMoves
    <2> QED
      BY <1>0, <2>1, StepCases DEF End, Crash, Starts, Moves, Framed
  <1>5. Idle.ev = 0
    BY DEF Idle
  <1>6. ASSUME NEW n \in D, n \notin Awaiting(Q), n # slot[s].ev PROVE n \notin Awaiting(Q)'
    <2>1. n # 0
      BY <1>0
    <2>2. CASE n = l.ev
      BY <1>3, <1>5, <1>6, <2>1, <2>2
    <2>3. CASE n # l.ev
      BY <1>3, <1>6, <2>3
    <2> QED
      BY <2>2, <2>3
  <1>7. ASSUME slot[s].ev \in D, slot[s].ev \notin Awaiting(Q), faults' = faults
        PROVE  slot[s].ev \notin Awaiting(Q)'
    <2>0. slot[s].ev # 0 /\ slot[s].todo \notin Q
      BY <1>0, <1>3, <1>7
    <2>1. CASE End(s)
      BY <2>1 DEF End, Awaiting
    <2>2. ASSUME NEW n \in queue, Starts(s, n) PROVE FALSE
      BY <1>5, <2>0, <2>2 DEF Starts
    <2>3. CASE slot[s].todo # <<>> /\ Moves(s)
      <3>1. CASE Raises(s)
        <4>1. Op(s) = "change_row"
          BY <1>0, <1>7, <3>1 DEF Raises
        <4>2. Op(s) \in Ops(Ev(s)) /\ Ev(s) \in Event
          BY <1>0, <2>3, Working, StepIs DEF Op
        <4>3. Ev(s).type \in Updates
          BY <4>1, <4>2 DEF Ops, Updates
        <4> QED
          BY <1>7, <4>3 DEF Ev
      <3>2. CASE Stops(s)
        <4>1. l.todo = <<>> /\ l.ev = slot[s].ev
          BY <1>0, <1>2, <3>2 DEF Stops, Becomes, Hand
        <4> QED
          BY <1>3, <1>5, <2>0, <4>1
      <3>3. ASSUME NEW then \in Follows(s), Goes(s, then) PROVE slot[s].ev \notin Awaiting(Q)'
        <4>1. l.todo = then \o Tail(slot[s].todo) /\ l.ev = slot[s].ev
          BY <1>0, <1>2, <3>3 DEF Goes, Becomes
        <4>2. l.todo \notin Q
          BY <2>0, <2>3, <4>1
        <4> QED
          BY <1>3, <1>5, <2>0, <4>1, <4>2
      <3> QED
        BY <2>3, <3>1, <3>2, <3>3 DEF Moves
    <2> QED
      BY <1>0, <1>4, <1>7, <2>1, <2>2, <2>3
  <1> QED
    BY <1>0, <1>4, <1>6, <1>7

\* Counting: a count grows with the events that have had their effect, or with a fault.
LEMMA CountsOn ==
  ASSUME NEW D, IsFiniteSet(D), NEW A, NEW B, NEW v \in Nat, NEW w \in Nat, NEW f \in Nat,
         NEW g \in Nat, v <= Cardinality(D \ A) + f,
         \/ w <= v /\ f <= g /\ D \ A \subseteq D \ B
         \/ w <= v /\ g = f + 1 /\ \E n : D \ A \subseteq (D \ B) \cup {n}
         \/ /\ \E k \in Nat : g = f + k /\ w <= v + 1 + k
            /\ D \ A \subseteq D \ B /\ \E n \in D : n \in A /\ n \notin B
  PROVE  w <= Cardinality(D \ B) + g
  <1>0. IsFiniteSet(D \ A) /\ IsFiniteSet(D \ B)
    BY FS_Subset
  <1> DEFINE a == Cardinality(D \ A)
             b == Cardinality(D \ B)
  <1>1. a \in Nat /\ b \in Nat /\ v <= a + f
    BY <1>0, FS_CardinalityType
  <1>2. CASE w <= v /\ f <= g /\ D \ A \subseteq D \ B
    <2>1. a <= b
      BY <1>0, <1>2, CountPart
    <2> HIDE DEF a, b
    <2> QED
      BY <1>1, <1>2, <2>1 DEF b
  <1>3. CASE w <= v /\ g = f + 1 /\ \E n : D \ A \subseteq (D \ B) \cup {n}
    <2>1. a <= b + 1
      BY <1>0, <1>3, CountGain
    <2> HIDE DEF a, b
    <2>2. w <= b + g
      BY <1>1, <1>3, <2>1
    <2> QED
      BY <2>2 DEF b
  <1>4. ASSUME NEW k \in Nat, g = f + k, w <= v + 1 + k, D \ A \subseteq D \ B,
               NEW n \in D, n \in A, n \notin B
        PROVE  w <= b + g
    <2>1. n \in D \ B /\ D \ A \subseteq (D \ B) \ {n}
      BY <1>4
    <2>2. a + 1 <= b
      BY <1>0, <2>1, CountLoss
    <2> HIDE DEF a, b
    <2> QED
      BY <1>1, <1>4, <2>2
  <1> HIDE DEF a, b
  <1>5. w <= b + g
    <2>1. CASE w <= v /\ f <= g /\ D \ A \subseteq D \ B
      BY <1>2, <2>1 DEF b
    <2>2. CASE w <= v /\ g = f + 1 /\ \E n : D \ A \subseteq (D \ B) \cup {n}
      BY <1>3, <2>2 DEF b
    <2>3. CASE /\ \E k \in Nat : g = f + k /\ w <= v + 1 + k
               /\ D \ A \subseteq D \ B /\ \E n \in D : n \in A /\ n \notin B
      BY <1>4, <2>3
    <2> QED
      BY <2>1, <2>2, <2>3
  <1> QED
    BY <1>5 DEF b

\* The events that each count may grow with.
Payers == Confirming \cup Selling \cup Logged({"order_created"})
CountInv ==
    /\ remote.payments <= Cardinality(Payers \ Awaiting(Having({"record"}))) + faults
    /\ remote.invoices <= Cardinality((Charging \cup Selling) \ Awaiting(Having(Chain)))
                              + Cardinality(Desk \ Awaiting(Doubled))
                              + (IF Desk = {} THEN faults ELSE faults + faults)
    /\ doc.kind = "booking" =>
         /\ remote.earned \in Nat /\ remote.reversed \in Nat
         /\ remote.requests \in Nat /\ remote.loose \in Nat
         /\ remote.earned <= Cardinality(Crediting \ Awaiting(Having({"credit"}))) + faults
         /\ remote.reversed <=
                Cardinality(Logged({"cancelled"}) \ Awaiting(Having({"reverse"}))) + faults
         /\ remote.requests <=
                Cardinality(Logged({"cancelled"}) \ Awaiting(Having({"request_refund"}))) + faults
         /\ remote.loose <=
                Cardinality(Logged({"payment_refunded"}) \ Awaiting(Having({"loose_note"}))) + faults

\* Which events have the operations that are counted.
LEMMA WhoseOps ==
  ASSUME doc.kind \in Kinds, NEW n \in DOMAIN log, log[n] \in Event
  PROVE  /\ "record" \in Ops(log[n]) => n \in Payers
         /\ "invoice" \in Ops(log[n]) => n \in Charging \cup Selling
         /\ "credit" \in Ops(log[n]) => n \in Crediting
         /\ "reverse" \in Ops(log[n]) => n \in Logged({"cancelled"})
         /\ "request_refund" \in Ops(log[n]) => n \in Logged({"cancelled"})
         /\ "loose_note" \in Ops(log[n]) => n \in Logged({"payment_refunded"})
  <1>1. CASE doc.kind = "booking"
    <2> DEFINE e == log[n]
    <2>1. e \in BookingEvent /\ e.type \in BookingTypes
      BY <1>1 DEF Event, BookingEvent
    <2>2. /\ "record" \in Ops(e) => Pays(e) /\ (e.type = "confirmed" \/ Delegating(e))
          /\ "invoice" \in Ops(e) => Charges(e) /\ (e.type = "confirmed" \/ Delegating(e))
          /\ "credit" \in Ops(e) => Credits(e) /\ (e.type = "confirmed" \/ Delegating(e))
          /\ "reverse" \in Ops(e) => e.type = "cancelled"
          /\ "request_refund" \in Ops(e) => e.type = "cancelled"
          /\ "loose_note" \in Ops(e) => e.type = "payment_refunded"
      <3> HIDE DEF e
      <3> QED
        BY <1>1, <2>1 DEF Ops, BookingTypes, Delegating
    <2>3. /\ Delegating(e) => n \in Confirming \cap Charging \cap Crediting
          /\ e.type = "confirmed" => /\ IsPaid(e) => n \in Confirming
                                     /\ Invoiceable(e) => n \in Charging
                                     /\ LoyaltySucceeded(e) => n \in Crediting
      BY DEF Delegating, Delegated, Confirming, Charging, Crediting, Logged
    <2>4. e.type \in {"cancelled", "payment_refunded"} => n \in Logged({e.type})
      BY DEF Logged
    <2> HIDE DEF e
    <2> QED
      BY <2>2, <2>3, <2>4 DEF Payers, Pays, Charges, Credits, e
  <1>2. CASE doc.kind # "booking"
    <2> DEFINE e == log[n]
    <2>1. /\ "record" \in Ops(e) =>
                 e.type \in {"voucher_active", "voucher_scheduled", "order_created"}
          /\ "invoice" \in Ops(e) =>
                 \/ e.type \in {"voucher_active", "voucher_scheduled", "gift_purchase_completed"}
                 \/ e.type = "order_created" /\ e.pay = "success"
          /\ Ops(e) \cap {"credit", "reverse", "request_refund", "loose_note"} = {}
      <3>1. e.type \notin BookingTypes
        BY <1>2 DEF Event, SaleEvent, SomeNotice, Notices, VoucherTypes, GiftTypes, BookingTypes, Kinds
      <3> HIDE DEF e
      <3>2. e.type \in {"voucher_active", "voucher_scheduled", "voucher_payment_pending",
                        "voucher_delivery_due", "order_created", "gift_purchase_completed"}
            \/ Ops(e) = {"send"}
        BY <3>1 DEF Ops, BookingTypes
      <3> QED
        BY <3>2 DEF Ops, Invoicing
    <2>2. \A types : e.type \in types => n \in Logged(types)
      BY DEF Logged
    <2> HIDE DEF e
    <2>3. e.type = "order_created" /\ e.pay = "success" => n \in Selling
      BY <2>2 DEF Selling, e
    <2> QED
      BY <2>1, <2>2, <2>3 DEF Payers, Selling, e
  <1> QED
    BY <1>1, <1>2

\* None of them is an update.
LEMMA CountedEvents ==
  /\ Payers \subseteq DOMAIN log /\ Charging \cup Selling \subseteq Payers
  /\ Crediting \subseteq Payers /\ Desk \subseteq Charging
  /\ \A n \in Payers : log[n].type \notin Updates
  /\ \A types : Logged(types) \subseteq DOMAIN log
  /\ \A types : types \cap Updates = {} =>
         \A n \in Logged(types) : log[n].type \notin Updates
  <1>1. \A e : Invoiceable(e) \/ LoyaltySucceeded(e) => IsPaid(e)
    BY DEF Invoiceable, LoyaltySucceeded, IsPaid, Succeeded, Outstanding
  <1> QED
    BY <1>1 DEF Payers, Confirming, Charging, Crediting, Delegated, Selling, Logged, Desk, Updates

\* A call that is counted once, or at most once more with a fault, and after which the
\* handler goes on.
Grows(s, v, w) ==
    /\ Becomes(s, After(s, <<>>))
    /\ w \in Nat
    /\ \E k \in Nat : faults' = faults + k /\ w <= v + 1 + k

\* The calls that are counted.
LEMMA CallsCounted ==
  ASSUME Common, NEW s \in Slot, slot[s].todo # <<>>, Does(s)
  PROVE  /\ Op(s) = "record" => Grows(s, remote.payments, remote'.payments)
         /\ doc.kind = "booking" =>
                /\ Op(s) = "credit" /\ remote.earned \in Nat
                       => Grows(s, remote.earned, remote'.earned)
                /\ Op(s) = "reverse" /\ remote.reversed \in Nat
                       => Grows(s, remote.reversed, remote'.reversed)
                /\ Op(s) = "request_refund" /\ remote.requests \in Nat
                       => Grows(s, remote.requests, remote'.requests)
                /\ Op(s) = "loose_note" /\ remote.loose \in Nat
                       => Grows(s, remote.loose, remote'.loose)
  <1>0. /\ Typed /\ doc.kind \in Kinds /\ DOMAIN remote = Fields /\ faults \in Nat
        /\ remote.payments \in Nat
    BY FaultsAssumption DEF Common, Typed, Shaped
  <1>1. ASSUME Op(s) = "record"
        PROVE  Grows(s, remote.payments, remote'.payments)
    <2> DEFINE E(r) == AddPayment(slot[s].got, r)
    <2>1. RecordPayment(s)
      BY <1>1 DEF Does
    <2>2. /\ Becomes(s, After(s, <<>>))
          /\ \/ remote' = E(remote) /\ faults' = faults
             \/ remote' \in {remote, E(remote), E(E(remote))} /\ faults' = faults + 1
      BY <2>1 DEF RecordPayment, Call
    <2>3. /\ E(remote).payments = remote.payments + 1
          /\ E(E(remote)).payments = remote.payments + 1 + 1
      <3>1. {"payments", "linked"} \subseteq DOMAIN remote
        BY <1>0
      <3> QED
        BY <3>1, Recorded
    <2> HIDE DEF E
    <2>4. \/ remote'.payments = remote.payments + 1 /\ faults' = faults + 0
          \/ /\ remote'.payments \in {remote.payments, remote.payments + 1, remote.payments + 1 + 1}
             /\ faults' = faults + 1
      BY <1>0, <2>2, <2>3
    <2>5. /\ remote'.payments \in Nat
          /\ \/ faults' = faults + 0 /\ remote'.payments <= remote.payments + 1 + 0
             \/ faults' = faults + 1 /\ remote'.payments <= remote.payments + 1 + 1
      BY <1>0, <1>1, <2>4
    <2>6. 0 \in Nat /\ 1 \in Nat
      OBVIOUS
    <2> QED
      BY <2>2, <2>5, <2>6 DEF Grows
  <1>2. ASSUME Op(s) = "credit", doc.kind = "booking", remote.earned \in Nat
        PROVE  Grows(s, remote.earned, remote'.earned)
    <2> DEFINE E(r) == Credit(r)
    <2>1. CreditLoyaltyPoints(s)
      BY <1>2 DEF Does
    <2>2. /\ Becomes(s, After(s, <<>>))
          /\ \/ remote' = E(remote) /\ faults' = faults
             \/ remote' \in {remote, E(remote), E(E(remote))} /\ faults' = faults + 1
      BY <2>1 DEF CreditLoyaltyPoints, Attempt, Onward, Call
    <2>3. /\ E(remote).earned = remote.earned + 1
          /\ E(E(remote)).earned = remote.earned + 1 + 1
      BY <1>0, <1>2 DEF Credit
    <2> HIDE DEF E
    <2>4. \/ remote'.earned = remote.earned + 1 /\ faults' = faults + 0
          \/ /\ remote'.earned \in {remote.earned, remote.earned + 1, remote.earned + 1 + 1}
             /\ faults' = faults + 1
      BY <1>0, <2>2, <2>3
    <2>5. /\ remote'.earned \in Nat
          /\ \/ faults' = faults + 0 /\ remote'.earned <= remote.earned + 1 + 0
             \/ faults' = faults + 1 /\ remote'.earned <= remote.earned + 1 + 1
      BY <1>0, <1>2, <2>4
    <2>6. 0 \in Nat /\ 1 \in Nat
      OBVIOUS
    <2> QED
      BY <2>2, <2>5, <2>6 DEF Grows
  <1>3. ASSUME Op(s) = "reverse", doc.kind = "booking", remote.reversed \in Nat
        PROVE  Grows(s, remote.reversed, remote'.reversed)
    <2> DEFINE E(r) == Reverse(r)
    <2>1. CancelLoyaltyPoints(s)
      BY <1>3 DEF Does
    <2>2. /\ Becomes(s, After(s, <<>>))
          /\ \/ remote' = E(remote) /\ faults' = faults
             \/ remote' \in {remote, E(remote), E(E(remote))} /\ faults' = faults + 1
      BY <2>1 DEF CancelLoyaltyPoints, Attempt, Onward, Call
    <2>3. /\ E(remote).reversed = remote.reversed + 1
          /\ E(E(remote)).reversed = remote.reversed + 1 + 1
      BY <1>0, <1>3 DEF Reverse
    <2> HIDE DEF E
    <2>4. \/ remote'.reversed = remote.reversed + 1 /\ faults' = faults + 0
          \/ /\ remote'.reversed \in {remote.reversed, remote.reversed + 1, remote.reversed + 1 + 1}
             /\ faults' = faults + 1
      BY <1>0, <2>2, <2>3
    <2>5. /\ remote'.reversed \in Nat
          /\ \/ faults' = faults + 0 /\ remote'.reversed <= remote.reversed + 1 + 0
             \/ faults' = faults + 1 /\ remote'.reversed <= remote.reversed + 1 + 1
      BY <1>0, <1>3, <2>4
    <2>6. 0 \in Nat /\ 1 \in Nat
      OBVIOUS
    <2> QED
      BY <2>2, <2>5, <2>6 DEF Grows
  <1>4. ASSUME Op(s) = "request_refund", doc.kind = "booking", remote.requests \in Nat
        PROVE  Grows(s, remote.requests, remote'.requests)
    <2> DEFINE E(r) == RequestRefund(r)
    <2>1. CreateRefundRequest(s)
      BY <1>4 DEF Does
    <2>2. /\ Becomes(s, After(s, <<>>))
          /\ \/ remote' = E(remote) /\ faults' = faults
             \/ remote' \in {remote, E(remote), E(E(remote))} /\ faults' = faults + 1
      BY <2>1 DEF CreateRefundRequest, Attempt, Onward, Call
    <2>3. /\ E(remote).requests = remote.requests + 1
          /\ E(E(remote)).requests = remote.requests + 1 + 1
      BY <1>0, <1>4 DEF RequestRefund
    <2> HIDE DEF E
    <2>4. \/ remote'.requests = remote.requests + 1 /\ faults' = faults + 0
          \/ /\ remote'.requests \in {remote.requests, remote.requests + 1, remote.requests + 1 + 1}
             /\ faults' = faults + 1
      BY <1>0, <2>2, <2>3
    <2>5. /\ remote'.requests \in Nat
          /\ \/ faults' = faults + 0 /\ remote'.requests <= remote.requests + 1 + 0
             \/ faults' = faults + 1 /\ remote'.requests <= remote.requests + 1 + 1
      BY <1>0, <1>4, <2>4
    <2>6. 0 \in Nat /\ 1 \in Nat
      OBVIOUS
    <2> QED
      BY <2>2, <2>5, <2>6 DEF Grows
  <1>5. ASSUME Op(s) = "loose_note", doc.kind = "booking", remote.loose \in Nat
        PROVE  Grows(s, remote.loose, remote'.loose)
    <2> DEFINE E(r) == LooseNote(r)
    <2>1. CreateLooseCreditNote(s)
      BY <1>5 DEF Does
    <2>2. /\ Becomes(s, After(s, <<>>))
          /\ \/ remote' = E(remote) /\ faults' = faults
             \/ remote' \in {remote, E(remote), E(E(remote))} /\ faults' = faults + 1
      BY <2>1 DEF CreateLooseCreditNote, Attempt, Onward, Call
    <2>3. /\ E(remote).loose = remote.loose + 1
          /\ E(E(remote)).loose = remote.loose + 1 + 1
      BY <1>0, <1>5 DEF LooseNote
    <2> HIDE DEF E
    <2>4. \/ remote'.loose = remote.loose + 1 /\ faults' = faults + 0
          \/ /\ remote'.loose \in {remote.loose, remote.loose + 1, remote.loose + 1 + 1}
             /\ faults' = faults + 1
      BY <1>0, <2>2, <2>3
    <2>5. /\ remote'.loose \in Nat
          /\ \/ faults' = faults + 0 /\ remote'.loose <= remote.loose + 1 + 0
             \/ faults' = faults + 1 /\ remote'.loose <= remote.loose + 1 + 1
      BY <1>0, <1>5, <2>4
    <2>6. 0 \in Nat /\ 1 \in Nat
      OBVIOUS
    <2> QED
      BY <2>2, <2>5, <2>6 DEF Grows
  <1> QED
    BY <1>1, <1>2, <1>3, <1>4, <1>5

\* What is counted of one kind of call follows the events.
LEMMA SingleCounts ==
  ASSUME Common, OrderInv, NEW s \in Slot, Step(s), NEW op \in Singles,
         NEW D, D \subseteq DOMAIN log, \A n \in D : log[n].type \notin Updates,
         NEW v \in Nat, NEW w \in Nat,
         v <= Cardinality(D \ Awaiting(Having({op}))) + faults,
         IF slot[s].todo # <<>> /\ Does(s) /\ Op(s) = op
         THEN slot[s].ev \in D /\ Grows(s, v, w)
         ELSE w = v
  PROVE  w <= Cardinality(D \ Awaiting(Having({op}))') + faults'
  <1> DEFINE Q == Having({op})
             n == slot[s].ev
  <1>0. /\ Typed /\ Apart /\ faults \in Nat /\ log \in Seq(Event) /\ IsFiniteSet(DOMAIN log)
        /\ slot \in [Slot -> Hand(AnyStep)] /\ 0 \notin DOMAIN log
    <2>1. /\ Typed /\ Apart /\ faults \in Nat /\ log \in Seq(Event)
          /\ slot \in [Slot -> Hand(AnyStep)]
      BY FaultsAssumption DEF Common, Typed
    <2>2. DOMAIN log = 1..Len(log) /\ Len(log) \in Nat
      BY <2>1, LenProperties
    <2>3. IsFiniteSet(DOMAIN log)
      BY <2>1, LogFinite
    <2> QED
      BY <2>1, <2>2, <2>3
  <1>1. IsFiniteSet(D)
    BY <1>0, FS_Subset
  <1>2. \A then \in Follows(s) : slot[s].todo # <<>> =>
            (then \o Tail(slot[s].todo) \in Q => slot[s].todo \in Q)
    <2> SUFFICES ASSUME NEW then \in Follows(s), slot[s].todo # <<>>,
                        then \o Tail(slot[s].todo) \in Q
                 PROVE  slot[s].todo \in Q
      OBVIOUS
    <2>1. slot[s].todo \in Seq(AnyStep)
      BY <1>0 DEF Hand
    <2>2. Has(then \o Tail(slot[s].todo), {op})
      BY DEF Having
    <2>3. Has(slot[s].todo, {op})
      BY <2>2, OrderGoes
    <2> QED
      BY <2>1, <2>3 DEF Having
  <1>3. <<>> \notin Q
    BY HasOne DEF Having
  <1> HIDE DEF Q
  <1>4. /\ faults' \in {faults, faults + 1}
        /\ D \ Awaiting(Q) \subseteq (D \ Awaiting(Q)') \cup {n}
        /\ faults' = faults => D \ Awaiting(Q) \subseteq D \ Awaiting(Q)'
    BY <1>2, <1>3, SpentStays
  <1>5. v <= Cardinality(D \ Awaiting(Q)) + faults
    BY DEF Q
  <1>6. CASE slot[s].todo # <<>> /\ Does(s) /\ Op(s) = op
    <2> DEFINE l == After(s, <<>>)
    <2>1. Becomes(s, l) /\ n \in D /\ \E k \in Nat : faults' = faults + k /\ w <= v + 1 + k
      BY <1>6 DEF Grows
    <2>2. l.ev = n /\ l.todo = <<>> \o Tail(slot[s].todo)
      BY <1>0, <1>6, AfterIs
    <2> HIDE DEF l
    <2>3. PICK k : SlotForm(s, k)
      BY <1>0, SlotForms
    <2>4. k = l
      BY <1>0, <2>1, <2>3 DEF SlotForm, Becomes
    <2>5. n # 0 /\ l # Idle
      BY <1>0, <2>1, <2>2 DEF Idle
    <2>6. /\ n \in Awaiting(Q)' <=> l.todo \in Q
          /\ n \in Awaiting(Q) <=> slot[s].todo \in Q
          /\ \A m : m # n => (m \in Awaiting(Q)' <=> m \in Awaiting(Q))
      BY <1>0, <2>2, <2>3, <2>4, <2>5, AwaitingMoves
    <2>7. slot[s].todo \in Q
      <3>1. slot[s].todo \in Seq(AnyStep) /\ Head(slot[s].todo)[1] = op
        BY <1>0, <1>6 DEF Hand, Op
      <3>2. Has(slot[s].todo, {op})
        BY <1>6, <3>1, HasRest
      <3> QED
        BY <3>1, <3>2 DEF Q, Having
    <2>8. l.todo \notin Q
      <3>1. <<>> \in Follows(s)
        BY DEF Follows
      <3>2. ~Has(<<>> \o Tail(slot[s].todo), {op})
        BY <1>6, <3>1, OrderGoes
      <3> QED
        BY <2>2, <3>2 DEF Q, Having
    <2>9. n \in Awaiting(Q) /\ n \notin Awaiting(Q)' /\ D \ Awaiting(Q) \subseteq D \ Awaiting(Q)'
      BY <2>6, <2>7, <2>8
    <2>10. \E m \in D : m \in Awaiting(Q) /\ m \notin Awaiting(Q)'
      BY <2>1, <2>9
    <2>11. faults' \in Nat
      BY <1>0, <1>4
    <2> QED
      BY <1>0, <1>1, <1>5, <2>1, <2>9, <2>10, <2>11, CountsOn DEF Q
  <1>7. CASE ~(slot[s].todo # <<>> /\ Does(s) /\ Op(s) = op)
    <2>1. w = v /\ faults' \in Nat
      BY <1>0, <1>4, <1>7
    <2>2. \/ w <= v /\ faults <= faults' /\ D \ Awaiting(Q) \subseteq D \ Awaiting(Q)'
          \/ /\ w <= v /\ faults' = faults + 1
             /\ \E m : D \ Awaiting(Q) \subseteq (D \ Awaiting(Q)') \cup {m}
      <3>1. \E m : D \ Awaiting(Q) \subseteq (D \ Awaiting(Q)') \cup {m}
        BY <1>4
      <3>2. w <= v /\ faults <= faults
        BY <1>0, <2>1
      <3>3. CASE faults' = faults
        BY <1>4, <3>2, <3>3
      <3>4. CASE faults' = faults + 1
        BY <3>1, <3>2, <3>4
      <3> QED
        BY <1>4, <3>3, <3>4
    <2> QED
      BY <1>0, <1>1, <1>5, <2>1, <2>2, CountsOn DEF Q
  <1> QED
    BY <1>6, <1>7

\* Counting for two sets of events: a fault starts both again.
LEMMA CountsOnTwo ==
  ASSUME NEW C, IsFiniteSet(C), NEW D, IsFiniteSet(D), NEW A, NEW B, NEW P, NEW Q,
         NEW v \in Nat, NEW w \in Nat, NEW f \in Nat, NEW g \in Nat,
         v <= Cardinality(C \ A) + Cardinality(D \ P) + (IF D = {} THEN f ELSE f + f),
         \/ w <= v /\ f <= g /\ C \ A \subseteq C \ B /\ D \ P \subseteq D \ Q
         \/ /\ w <= v /\ g = f + 1
            /\ \E n : C \ A \subseteq (C \ B) \cup {n} /\ D \ P \subseteq (D \ Q) \cup {n}
         \/ /\ \E k \in Nat : g = f + k /\ w <= v + 1 + k
            /\ C \ A \subseteq C \ B /\ D \ P \subseteq D \ Q
            /\ (\E n \in C : n \in A /\ n \notin B) \/ (\E n \in D : n \in P /\ n \notin Q)
  PROVE  w <= Cardinality(C \ B) + Cardinality(D \ Q) + (IF D = {} THEN g ELSE g + g)
  <1>0. /\ IsFiniteSet(C \ A) /\ IsFiniteSet(C \ B)
        /\ IsFiniteSet(D \ P) /\ IsFiniteSet(D \ Q)
    BY FS_Subset
  <1> DEFINE a == Cardinality(C \ A)
             b == Cardinality(C \ B)
             p == Cardinality(D \ P)
             q == Cardinality(D \ Q)
  <1>1. a \in Nat /\ b \in Nat /\ p \in Nat /\ q \in Nat
    BY <1>0, FS_CardinalityType
  <1>2. v <= a + p + (IF D = {} THEN f ELSE f + f)
    OBVIOUS
  <1>3. C \ A \subseteq C \ B => a <= b
    BY <1>0, CountPart
  <1>4. D \ P \subseteq D \ Q => p <= q
    BY <1>0, CountPart
  <1>5. \A n : C \ A \subseteq (C \ B) \cup {n} => a <= b + 1
    BY <1>0, CountGain
  <1>6. \A n : D \ P \subseteq (D \ Q) \cup {n} => p <= q + 1
    BY <1>0, CountGain
  <1>7. D = {} => p = 0 /\ q = 0
    BY FS_EmptySet
  <1>8. ASSUME NEW n \in C, n \in A, n \notin B, C \ A \subseteq C \ B PROVE a + 1 <= b
    <2>1. n \in C \ B /\ C \ A \subseteq (C \ B) \ {n}
      BY <1>8
    <2> QED
      BY <1>0, <2>1, CountLoss
  <1>9. ASSUME NEW n \in D, n \in P, n \notin Q, D \ P \subseteq D \ Q PROVE p + 1 <= q
    <2>1. n \in D \ Q /\ D \ P \subseteq (D \ Q) \ {n}
      BY <1>9
    <2> QED
      BY <1>0, <2>1, CountLoss
  <1>10. \/ w <= v /\ f <= g /\ a <= b /\ p <= q
         \/ w <= v /\ g = f + 1 /\ a <= b + 1 /\ p <= q + 1
         \/ /\ \E k \in Nat : g = f + k /\ w <= v + 1 + k
            /\ \/ a + 1 <= b /\ p <= q
               \/ a <= b /\ p + 1 <= q
    BY <1>3, <1>4, <1>5, <1>6, <1>8, <1>9
  <1> HIDE DEF a, b, p, q
  <1>11. w <= b + q + (IF D = {} THEN g ELSE g + g)
    <2>1. CASE D = {}
      <3>1. v <= a + f /\ p = 0 /\ q = 0
        BY <1>1, <1>2, <1>7, <2>1
      <3>2. w <= b + g
        BY <1>1, <1>10, <3>1
      <3> QED
        BY <1>1, <2>1, <3>1, <3>2
    <2>2. CASE D # {}
      <3>1. v <= a + p + (f + f)
        BY <1>2, <2>2
      <3>2. w <= b + q + (g + g)
        BY <1>1, <1>10, <3>1
      <3> QED
        BY <2>2, <3>2
    <2> QED
      BY <2>1, <2>2
  <1> QED
    BY <1>11 DEF b, q

\* What is invoiced follows the events, too.
LEMMA InvoicesCount ==
  ASSUME Common, OrderInv, NEW s \in Slot, Step(s),
         remote.invoices <= Cardinality((Charging \cup Selling) \ Awaiting(Having(Chain)))
                                + Cardinality(Desk \ Awaiting(Doubled))
                                + (IF Desk = {} THEN faults ELSE faults + faults)
  PROVE  remote'.invoices <= Cardinality((Charging \cup Selling) \ Awaiting(Having(Chain))')
                                 + Cardinality(Desk \ Awaiting(Doubled)')
                                 + (IF Desk = {} THEN faults' ELSE faults' + faults')
  <1> DEFINE Q == Having(Chain)
             C == Charging \cup Selling
             n == slot[s].ev
  <1>0. /\ Typed /\ Apart /\ faults \in Nat /\ doc.kind \in Kinds
        /\ slot \in [Slot -> Hand(AnyStep)] /\ log \in Seq(Event) /\ IsFiniteSet(DOMAIN log)
        /\ remote.invoices \in Nat /\ DOMAIN remote = Fields
    <2>1. /\ Typed /\ Apart /\ faults \in Nat /\ doc.kind \in Kinds
          /\ slot \in [Slot -> Hand(AnyStep)] /\ log \in Seq(Event)
          /\ remote.invoices \in Nat /\ DOMAIN remote = Fields
      BY FaultsAssumption DEF Common, Typed, Shaped
    <2>2. IsFiniteSet(DOMAIN log)
      BY <2>1, LogFinite
    <2> QED
      BY <2>1, <2>2
  <1>1. /\ IsFiniteSet(C) /\ IsFiniteSet(Desk)
        /\ C \subseteq DOMAIN log /\ Desk \subseteq DOMAIN log
        /\ \A m \in C : log[m].type \notin Updates
        /\ \A m \in Desk : log[m].type \notin Updates
    <2>1. /\ C \subseteq DOMAIN log /\ Desk \subseteq DOMAIN log
          /\ \A m \in C : log[m].type \notin Updates
          /\ \A m \in Desk : log[m].type \notin Updates
      BY CountedEvents
    <2> QED
      BY <1>0, <2>1, FS_Subset
  <1>2. remote'.invoices \in Nat
    BY <1>0, StepTyped DEF Common, Typed
  <1>3. slot[s].todo \in Seq(AnyStep)
    BY <1>0 DEF Hand
  <1>4. ASSUME NEW then \in Follows(s), slot[s].todo # <<>>
        PROVE  /\ then \o Tail(slot[s].todo) \in Q => slot[s].todo \in Q
               /\ then \o Tail(slot[s].todo) \in Doubled => slot[s].todo \in Doubled
    <2>1. /\ Has(then \o Tail(slot[s].todo), Chain) => Has(slot[s].todo, Chain)
          /\ Once(slot[s].todo, Chain) => Once(then \o Tail(slot[s].todo), Chain)
      BY <1>4, OrderGoes
    <2> QED
      BY <1>3, <2>1 DEF Having, Doubled
  <1>5. <<>> \notin Q /\ <<>> \notin Doubled
    BY HasOne DEF Having, Doubled
  <1> HIDE DEF Q, C
  <1>6. /\ faults' \in {faults, faults + 1}
        /\ C \ Awaiting(Q) \subseteq (C \ Awaiting(Q)') \cup {n}
        /\ faults' = faults => C \ Awaiting(Q) \subseteq C \ Awaiting(Q)'
    BY <1>1, <1>4, <1>5, SpentStays
  <1>7. /\ Desk \ Awaiting(Doubled) \subseteq (Desk \ Awaiting(Doubled)') \cup {n}
        /\ faults' = faults => Desk \ Awaiting(Doubled) \subseteq Desk \ Awaiting(Doubled)'
    BY <1>1, <1>4, <1>5, SpentStays
  <1>8. remote.invoices <= Cardinality(C \ Awaiting(Q)) + Cardinality(Desk \ Awaiting(Doubled))
                               + (IF Desk = {} THEN faults ELSE faults + faults)
    BY DEF C, Q
  <1> DEFINE Goal == remote'.invoices <=
                         Cardinality(C \ Awaiting(Q)') + Cardinality(Desk \ Awaiting(Doubled)')
                             + (IF Desk = {} THEN faults' ELSE faults' + faults')
  <1>9. faults' \in Nat
    BY <1>0, <1>6
  <1> DEFINE A == Awaiting(Q)
             B == Awaiting(Q)'
             P == Awaiting(Doubled)
             R == Awaiting(Doubled)'
             v == remote.invoices
             w == remote'.invoices
             f == faults
             g == faults'
             Ways == \/ w <= v /\ f <= g /\ C \ A \subseteq C \ B /\ Desk \ P \subseteq Desk \ R
                     \/ /\ w <= v /\ g = f + 1
                        /\ \E m : /\ C \ A \subseteq (C \ B) \cup {m}
                                  /\ Desk \ P \subseteq (Desk \ R) \cup {m}
                     \/ /\ \E k \in Nat : g = f + k /\ w <= v + 1 + k
                        /\ C \ A \subseteq C \ B /\ Desk \ P \subseteq Desk \ R
                        /\ \/ \E m \in C : m \in A /\ m \notin B
                           \/ \E m \in Desk : m \in P /\ m \notin R
  <1>13. Ways => Goal
    <2> DEFINE D == Desk
    <2>1. /\ IsFiniteSet(C) /\ IsFiniteSet(D) /\ v \in Nat /\ w \in Nat /\ f \in Nat /\ g \in Nat
          /\ v <= Cardinality(C \ A) + Cardinality(D \ P) + (IF D = {} THEN f ELSE f + f)
      BY <1>0, <1>1, <1>2, <1>8, <1>9
    <2> HIDE DEF A, B, P, R, v, w, f, g, D
    <2> SUFFICES ASSUME Ways PROVE Goal
      OBVIOUS
    <2>2. \/ w <= v /\ f <= g /\ C \ A \subseteq C \ B /\ D \ P \subseteq D \ R
          \/ /\ w <= v /\ g = f + 1
             /\ \E m : C \ A \subseteq (C \ B) \cup {m} /\ D \ P \subseteq (D \ R) \cup {m}
          \/ /\ \E k \in Nat : g = f + k /\ w <= v + 1 + k
             /\ C \ A \subseteq C \ B /\ D \ P \subseteq D \ R
             /\ (\E m \in C : m \in A /\ m \notin B) \/ (\E m \in D : m \in P /\ m \notin R)
      BY DEF D
    <2>3. w <= Cardinality(C \ B) + Cardinality(D \ R) + (IF D = {} THEN g ELSE g + g)
      BY <2>1, <2>2, CountsOnTwo, ZenonT(40)
    <2> QED
      BY <2>3 DEF B, R, w, g, D
  <1>10. ASSUME slot[s].todo # <<>>, Does(s), Op(s) = "invoice" PROVE Goal
    <2>1. PICK then \in Follows(s) :
              slot'[s].ev = n /\ slot'[s].todo = then \o Tail(slot[s].todo)
      <3>1. CreateInvoice(s) /\ {<<>>, << <<"link_payments">> >>} \subseteq Follows(s)
        BY <1>10 DEF Does, Follows
      <3>2. slot'[s] \in {After(s, << <<"link_payments">> >>),
                          Holding(After(s, << <<"link_payments">> >>)), After(s, <<>>)}
        BY <1>0, <3>1 DEF CreateInvoice, Call, Becomes
      <3>3. \A l \in {After(s, << <<"link_payments">> >>),
                      Holding(After(s, << <<"link_payments">> >>))} :
                l.ev = n /\ l.todo = << <<"link_payments">> >> \o Tail(slot[s].todo)
        <4> DEFINE t == << <<"link_payments">> >>
        <4> HIDE DEF t
        <4>1. /\ After(s, t) \in [ev : {slot[s].ev}, todo : {t \o Tail(slot[s].todo)},
                                  got : {slot[s].got}, rows : {slot[s].rows}]
              /\ Holding(After(s, t)) \in [ev : {slot[s].ev}, todo : {t \o Tail(slot[s].todo)},
                                           got : {TRUE}, rows : {slot[s].rows}]
          BY <1>0, <1>10, AfterIs
        <4>2. \A l \in {After(s, t), Holding(After(s, t))} :
                  l.ev = n /\ l.todo = t \o Tail(slot[s].todo)
          BY <4>1
        <4> QED
          BY <4>2 DEF t
      <3>4. After(s, <<>>).ev = n /\ After(s, <<>>).todo = <<>> \o Tail(slot[s].todo)
        BY <1>0, <1>10, AfterIs
      <3> QED
        BY <3>1, <3>2, <3>3, <3>4
    <2>2. \E k \in Nat : faults' = faults + k /\ remote'.invoices <= remote.invoices + 1 + k
      <3>1. \/ remote' = AddInvoice(remote) /\ faults' = faults + 0
            \/ /\ remote' \in {remote, AddInvoice(remote), AddInvoice(AddInvoice(remote))}
               /\ faults' = faults + 1
        BY <1>0, <1>10 DEF Does, CreateInvoice, Call
      <3>2. /\ AddInvoice(remote).invoices = remote.invoices + 1
            /\ AddInvoice(AddInvoice(remote)).invoices = remote.invoices + 1 + 1
        BY <1>0, Invoiced
      <3>3. \/ remote'.invoices <= remote.invoices + 1 + 0 /\ faults' = faults + 0
            \/ remote'.invoices <= remote.invoices + 1 + 1 /\ faults' = faults + 1
        BY <1>0, <3>1, <3>2
      <3>4. 0 \in Nat /\ 1 \in Nat
        OBVIOUS
      <3> QED
        BY <3>3, <3>4
    <2>3. n \in C /\ n # 0
      <3>1. /\ n \in DOMAIN log /\ log[n] \in Event /\ "invoice" \in Ops(log[n]) /\ n # 0
        BY <1>0, <1>10, Working, StepIs DEF Op, Ev
      <3> QED
        BY <1>0, <3>1, WhoseOps DEF C
    <2>4. PICK l : SlotForm(s, l)
      BY <1>0, SlotForms
    <2>5. l.ev = n /\ l.todo = then \o Tail(slot[s].todo) /\ l # Idle
      <3>1. slot'[s] = l
        BY <1>0, <2>4 DEF SlotForm
      <3> QED
        BY <2>1, <2>3, <3>1 DEF Idle
    <2>6. ASSUME NEW Z
          PROVE  /\ n \in Awaiting(Z)' <=> then \o Tail(slot[s].todo) \in Z
                 /\ n \in Awaiting(Z) <=> slot[s].todo \in Z
                 /\ \A m : m # n => (m \in Awaiting(Z)' <=> m \in Awaiting(Z))
      <3>1. /\ \A m : m # slot[s].ev /\ m # l.ev => (m \in Awaiting(Z)' <=> m \in Awaiting(Z))
            /\ l # Idle => (l.ev \in Awaiting(Z)' <=> l.todo \in Z)
            /\ slot[s].ev # 0 => (slot[s].ev \in Awaiting(Z) <=> slot[s].todo \in Z)
        BY <1>0, <2>4, AwaitingMoves
      <3>2. slot[s].ev # 0 /\ l # Idle /\ l.ev = slot[s].ev
        BY <2>3, <2>5
      <3>3. l.todo = then \o Tail(slot[s].todo)
        BY <2>5
      <3>4. l.todo \in Z <=> then \o Tail(slot[s].todo) \in Z
        BY <3>3, Zenon
      <3> QED
        BY <3>1, <3>2, <3>4
    <2>7. /\ Once(slot[s].todo, Chain) => ~Has(then \o Tail(slot[s].todo), Chain)
          /\ ~Once(slot[s].todo, Chain) => Once(then \o Tail(slot[s].todo), Chain)
          /\ slot[s].ev \notin Desk => Once(slot[s].todo, Chain)
      BY <1>10, OrderGoes DEF OrderInv, Orderly
    <2>8. slot[s].todo \in Q
      <3>1. Head(slot[s].todo)[1] \in Chain
        BY <1>10 DEF Op, Chain
      <3>2. Has(slot[s].todo, Chain)
        BY <1>3, <1>10, <3>1, HasRest
      <3> QED
        BY <1>3, <3>2 DEF Q, Having
    <2>9. /\ then \o Tail(slot[s].todo) \in Q => slot[s].todo \in Q
          /\ then \o Tail(slot[s].todo) \in Doubled => slot[s].todo \in Doubled
      BY <1>4, <1>10
    <2>10. /\ C \ Awaiting(Q) \subseteq C \ Awaiting(Q)'
           /\ Desk \ Awaiting(Doubled) \subseteq Desk \ Awaiting(Doubled)'
      BY <2>6, <2>9
    <2>11. \/ \E m \in C : m \in Awaiting(Q) /\ m \notin Awaiting(Q)'
           \/ \E m \in Desk : m \in Awaiting(Doubled) /\ m \notin Awaiting(Doubled)'
      <3>1. CASE Once(slot[s].todo, Chain)
        <4>1. then \o Tail(slot[s].todo) \notin Q
          BY <2>7, <3>1 DEF Q, Having
        <4> QED
          BY <2>3, <2>6, <2>8, <4>1
      <3>2. CASE ~Once(slot[s].todo, Chain)
        <4>1. slot[s].todo \in Doubled /\ then \o Tail(slot[s].todo) \notin Doubled /\ n \in Desk
          BY <1>3, <2>7, <3>2 DEF Doubled
        <4> QED
          BY <2>6, <4>1
      <3> QED
        BY <3>1, <3>2
    <2>12. \/ /\ remote'.invoices <= remote.invoices /\ faults <= faults'
              /\ C \ Awaiting(Q) \subseteq C \ Awaiting(Q)'
              /\ Desk \ Awaiting(Doubled) \subseteq Desk \ Awaiting(Doubled)'
           \/ /\ remote'.invoices <= remote.invoices /\ faults' = faults + 1
              /\ \E m : /\ C \ Awaiting(Q) \subseteq (C \ Awaiting(Q)') \cup {m}
                        /\ Desk \ Awaiting(Doubled) \subseteq (Desk \ Awaiting(Doubled)') \cup {m}
           \/ /\ \E k \in Nat : faults' = faults + k /\ remote'.invoices <= remote.invoices + 1 + k
              /\ C \ Awaiting(Q) \subseteq C \ Awaiting(Q)'
              /\ Desk \ Awaiting(Doubled) \subseteq Desk \ Awaiting(Doubled)'
              /\ \/ \E m \in C : m \in Awaiting(Q) /\ m \notin Awaiting(Q)'
                 \/ \E m \in Desk : m \in Awaiting(Doubled) /\ m \notin Awaiting(Doubled)'
      BY <2>2, <2>10, <2>11
    <2> QED
      BY <1>13, <2>12
  <1>11. ASSUME ~(slot[s].todo # <<>> /\ Does(s) /\ Op(s) = "invoice") PROVE Goal
    <2>1. remote'.invoices = remote.invoices
      <3>1. CASE slot[s].todo # <<>> /\ Does(s)
        <4>1. "invoices" \in DOMAIN remote \ Touches(Op(s))
          BY <1>0, <1>11, <3>1 DEF Touches
        <4> QED
          BY <1>0, <3>1, <4>1, OperationMoves DEF Moves, Framed, Agree
      <3>2. CASE remote' = remote
        BY <3>2
      <3> QED
        BY <1>0, <3>1, <3>2, StepCases DEF End, Crash, Starts
    <2>2. /\ faults' = faults => C \ Awaiting(Q) \subseteq C \ Awaiting(Q)'
          /\ faults' = faults => Desk \ Awaiting(Doubled) \subseteq Desk \ Awaiting(Doubled)'
          /\ faults' = faults \/ faults' = faults + 1
      BY <1>6, <1>7
    <2>3. \E m : /\ C \ Awaiting(Q) \subseteq (C \ Awaiting(Q)') \cup {m}
                 /\ Desk \ Awaiting(Doubled) \subseteq (Desk \ Awaiting(Doubled)') \cup {m}
      <3>1. /\ C \ Awaiting(Q) \subseteq (C \ Awaiting(Q)') \cup {n}
            /\ Desk \ Awaiting(Doubled) \subseteq (Desk \ Awaiting(Doubled)') \cup {n}
        BY <1>6, <1>7
      <3> WITNESS n
      <3> QED
        BY <3>1
    <2>4. remote'.invoices <= remote.invoices /\ faults <= faults
      BY <1>0, <2>1
    <2>12. \/ /\ remote'.invoices <= remote.invoices /\ faults <= faults'
              /\ C \ Awaiting(Q) \subseteq C \ Awaiting(Q)'
              /\ Desk \ Awaiting(Doubled) \subseteq Desk \ Awaiting(Doubled)'
           \/ /\ remote'.invoices <= remote.invoices /\ faults' = faults + 1
              /\ \E m : /\ C \ Awaiting(Q) \subseteq (C \ Awaiting(Q)') \cup {m}
                        /\ Desk \ Awaiting(Doubled) \subseteq (Desk \ Awaiting(Doubled)') \cup {m}
      <3>1. CASE faults' = faults
        <4>1. /\ C \ Awaiting(Q) \subseteq C \ Awaiting(Q)'
              /\ Desk \ Awaiting(Doubled) \subseteq Desk \ Awaiting(Doubled)'
          BY <2>2, <3>1
        <4>2. faults <= faults'
          BY <2>4, <3>1
        <4> QED
          BY <2>4, <4>1, <4>2
      <3>2. CASE faults' = faults + 1
        BY <2>3, <2>4, <3>2
      <3> QED
        BY <2>2, <3>1, <3>2
    <2> QED
      BY <1>13, <2>12
  <1>12. Goal
    BY <1>10, <1>11
  <1> QED
    BY <1>12 DEF C, Q

\* A step of a slot.
LEMMA CountStep ==
  ASSUME Common, OrderInv, CountInv, NEW s \in Slot, Step(s)
  PROVE  CountInv'
  <1>0. /\ Typed /\ Apart /\ doc.kind \in Kinds /\ faults \in Nat /\ log \in Seq(Event)
        /\ DOMAIN remote = Fields /\ remote.payments \in Nat
    BY FaultsAssumption DEF Common, Typed, Shaped
  <1>1. doc' = doc /\ log' = log
    <2>1. slot[s].todo # <<>> /\ Does(s) => doc' = doc /\ log' = log
      BY <1>0, OperationMoves DEF Moves, Framed
    <2> QED
      BY <1>0, <2>1, StepCases DEF End, Crash, Starts
  <1>2. /\ Payers' = Payers /\ Charging' = Charging /\ Crediting' = Crediting
        /\ Selling' = Selling /\ Desk' = Desk
        /\ Logged({"cancelled"})' = Logged({"cancelled"})
        /\ Logged({"payment_refunded"})' = Logged({"payment_refunded"})
    BY <1>1 DEF Payers, Confirming, Charging, Crediting, Delegated, Selling, Desk, Logged
  <1>3. ASSUME NEW f \in Fields, ~(slot[s].todo # <<>> /\ Does(s) /\ f \in Touches(Op(s)))
        PROVE  remote'[f] = remote[f]
    <2>1. CASE slot[s].todo # <<>> /\ Does(s)
      BY <1>0, <1>3, <2>1, OperationMoves DEF Moves, Framed, Agree
    <2>2. CASE remote' = remote
      BY <2>2
    <2> QED
      BY <1>0, <2>1, <2>2, StepCases DEF End, Crash, Starts
  <1>4. ASSUME slot[s].todo # <<>>, Does(s)
        PROVE  /\ Op(s) = "record" => slot[s].ev \in Payers
               /\ Op(s) = "credit" => slot[s].ev \in Crediting
               /\ Op(s) \in {"reverse", "request_refund"} => slot[s].ev \in Logged({"cancelled"})
               /\ Op(s) = "loose_note" => slot[s].ev \in Logged({"payment_refunded"})
    <2>1. /\ slot[s].ev \in DOMAIN log /\ log[slot[s].ev] \in Event
          /\ Op(s) \in Ops(log[slot[s].ev])
      BY <1>0, <1>4, Working, StepIs DEF Op, Ev
    <2> QED
      BY <1>0, <2>1, WhoseOps
  <1>5. ASSUME NEW op \in Singles, NEW f \in Fields,
               \A o : f \in Touches(o) => o = op,
               NEW D, D \subseteq DOMAIN log, \A n \in D : log[n].type \notin Updates,
               remote[f] \in Nat, remote[f] <= Cardinality(D \ Awaiting(Having({op}))) + faults,
               slot[s].todo # <<>> /\ Does(s) /\ Op(s) = op
                   => slot[s].ev \in D /\ Grows(s, remote[f], remote'[f])
        PROVE  remote'[f] \in Nat /\ remote'[f] <= Cardinality(D \ Awaiting(Having({op}))') + faults'
    <2>1. IF slot[s].todo # <<>> /\ Does(s) /\ Op(s) = op
          THEN slot[s].ev \in D /\ Grows(s, remote[f], remote'[f])
          ELSE remote'[f] = remote[f]
      BY <1>3, <1>5
    <2>2. remote'[f] \in Nat
      BY <1>5, <2>1 DEF Grows
    <2> DEFINE v == remote[f]
               w == remote'[f]
    <2>3. /\ v \in Nat /\ w \in Nat /\ v <= Cardinality(D \ Awaiting(Having({op}))) + faults
          /\ IF slot[s].todo # <<>> /\ Does(s) /\ Op(s) = op
             THEN slot[s].ev \in D /\ Grows(s, v, w)
             ELSE w = v
      BY <1>5, <2>1, <2>2
    <2> HIDE DEF v, w
    <2>4. w <= Cardinality(D \ Awaiting(Having({op}))') + faults'
      BY <1>5, <2>3, SingleCounts
    <2> QED
      BY <2>2, <2>4 DEF w
  <1>6. remote'.payments <= Cardinality(Payers' \ Awaiting(Having({"record"}))') + faults'
    <2>1. /\ "record" \in Singles /\ "payments" \in Fields
          /\ \A o : "payments" \in Touches(o) => o = "record"
      BY <1>0 DEF Singles, Touches
    <2>2. remote["payments"] <= Cardinality(Payers \ Awaiting(Having({"record"}))) + faults
      BY DEF CountInv
    <2>3. slot[s].todo # <<>> /\ Does(s) /\ Op(s) = "record"
              => slot[s].ev \in Payers /\ Grows(s, remote["payments"], remote'["payments"])
      BY <1>4, CallsCounted
    <2>4. Payers \subseteq DOMAIN log /\ \A n \in Payers : log[n].type \notin Updates
      BY CountedEvents
    <2>5. remote'["payments"] <= Cardinality(Payers \ Awaiting(Having({"record"}))') + faults'
      BY <1>0, <1>5, <2>1, <2>2, <2>3, <2>4
    <2> QED
      BY <1>2, <2>5
  <1>7. remote'.invoices <= Cardinality((Charging \cup Selling)' \ Awaiting(Having(Chain))')
                                + Cardinality(Desk' \ Awaiting(Doubled)')
                                + (IF Desk' = {} THEN faults' ELSE faults' + faults')
    <2>1. remote.invoices <= Cardinality((Charging \cup Selling) \ Awaiting(Having(Chain)))
                                 + Cardinality(Desk \ Awaiting(Doubled))
                                 + (IF Desk = {} THEN faults ELSE faults + faults)
      BY DEF CountInv
    <2>2. remote'.invoices <= Cardinality((Charging \cup Selling) \ Awaiting(Having(Chain))')
                                  + Cardinality(Desk \ Awaiting(Doubled)')
                                  + (IF Desk = {} THEN faults' ELSE faults' + faults')
      BY <2>1, InvoicesCount
    <2> QED
      BY <1>2, <2>2
  <1>8. ASSUME doc.kind = "booking"
        PROVE  /\ remote'.earned \in Nat
               /\ remote'.earned <= Cardinality(Crediting' \ Awaiting(Having({"credit"}))') + faults'
               /\ remote'.reversed \in Nat
               /\ remote'.reversed <=
                      Cardinality(Logged({"cancelled"})' \ Awaiting(Having({"reverse"}))') + faults'
               /\ remote'.requests \in Nat
               /\ remote'.requests <=
                      Cardinality(Logged({"cancelled"})' \ Awaiting(Having({"request_refund"}))')
                          + faults'
               /\ remote'.loose \in Nat
               /\ remote'.loose <=
                      Cardinality(Logged({"payment_refunded"})' \ Awaiting(Having({"loose_note"}))')
                          + faults'
    <2>1. /\ "credit" \in Singles /\ "reverse" \in Singles /\ "request_refund" \in Singles
          /\ "loose_note" \in Singles
          /\ "earned" \in Fields /\ "reversed" \in Fields /\ "requests" \in Fields
          /\ "loose" \in Fields
          /\ \A o : "earned" \in Touches(o) => o = "credit"
          /\ \A o : "reversed" \in Touches(o) => o = "reverse"
          /\ \A o : "requests" \in Touches(o) => o = "request_refund"
          /\ \A o : "loose" \in Touches(o) => o = "loose_note"
      BY <1>8 DEF Singles, Touches
    <2>2. /\ remote["earned"] \in Nat /\ remote["reversed"] \in Nat
          /\ remote["requests"] \in Nat /\ remote["loose"] \in Nat
          /\ remote["earned"] <= Cardinality(Crediting \ Awaiting(Having({"credit"}))) + faults
          /\ remote["reversed"] <=
                 Cardinality(Logged({"cancelled"}) \ Awaiting(Having({"reverse"}))) + faults
          /\ remote["requests"] <=
                 Cardinality(Logged({"cancelled"}) \ Awaiting(Having({"request_refund"}))) + faults
          /\ remote["loose"] <=
                 Cardinality(Logged({"payment_refunded"}) \ Awaiting(Having({"loose_note"}))) + faults
      BY <1>8 DEF CountInv
    <2>3. /\ slot[s].todo # <<>> /\ Does(s) /\ Op(s) = "credit"
                 => slot[s].ev \in Crediting /\ Grows(s, remote["earned"], remote'["earned"])
          /\ slot[s].todo # <<>> /\ Does(s) /\ Op(s) = "reverse"
                 => /\ slot[s].ev \in Logged({"cancelled"})
                    /\ Grows(s, remote["reversed"], remote'["reversed"])
          /\ slot[s].todo # <<>> /\ Does(s) /\ Op(s) = "request_refund"
                 => /\ slot[s].ev \in Logged({"cancelled"})
                    /\ Grows(s, remote["requests"], remote'["requests"])
          /\ slot[s].todo # <<>> /\ Does(s) /\ Op(s) = "loose_note"
                 => /\ slot[s].ev \in Logged({"payment_refunded"})
                    /\ Grows(s, remote["loose"], remote'["loose"])
      BY <1>4, <1>8, <2>2, CallsCounted
    <2>4. /\ Crediting \subseteq DOMAIN log /\ \A n \in Crediting : log[n].type \notin Updates
          /\ Logged({"cancelled"}) \subseteq DOMAIN log
          /\ \A n \in Logged({"cancelled"}) : log[n].type \notin Updates
          /\ Logged({"payment_refunded"}) \subseteq DOMAIN log
          /\ \A n \in Logged({"payment_refunded"}) : log[n].type \notin Updates
      <3>1. {"cancelled"} \cap Updates = {} /\ {"payment_refunded"} \cap Updates = {}
        BY DEF Updates
      <3> QED
        BY <3>1, CountedEvents
    <2>5. /\ remote'["earned"] \in Nat
          /\ remote'["earned"] <= Cardinality(Crediting \ Awaiting(Having({"credit"}))') + faults'
      BY <1>5, <2>1, <2>2, <2>3, <2>4
    <2>6. /\ remote'["reversed"] \in Nat
          /\ remote'["reversed"] <=
                 Cardinality(Logged({"cancelled"}) \ Awaiting(Having({"reverse"}))') + faults'
      BY <1>5, <2>1, <2>2, <2>3, <2>4
    <2>7. /\ remote'["requests"] \in Nat
          /\ remote'["requests"] <=
                 Cardinality(Logged({"cancelled"}) \ Awaiting(Having({"request_refund"}))') + faults'
      BY <1>5, <2>1, <2>2, <2>3, <2>4
    <2>8. /\ remote'["loose"] \in Nat
          /\ remote'["loose"] <=
                 Cardinality(Logged({"payment_refunded"}) \ Awaiting(Having({"loose_note"}))') + faults'
      BY <1>5, <2>1, <2>2, <2>3, <2>4
    <2> QED
      BY <1>2, <2>5, <2>6, <2>7, <2>8
  <1> QED
    BY <1>1, <1>6, <1>7, <1>8 DEF CountInv

\* An event that is published adds to what may be counted only.
LEMMA CountPublished ==
  ASSUME Common, CountInv, Happen, doc' = doc
  PROVE  CountInv'
  <1>0. /\ Typed /\ Apart /\ doc.kind \in Kinds /\ faults \in Nat /\ log \in Seq(Event)
        /\ DOMAIN remote = Fields /\ remote.payments \in Nat /\ remote.invoices \in Nat
        /\ DOMAIN log = 1..Len(log) /\ Len(log) \in Nat
    BY FaultsAssumption, LenProperties DEF Common, Typed, Shaped
  <1>1. PICK e \in Event : Publish(e) /\ Agree(remote, remote', Changes)
    BY <1>0, HappenPublishes
  <1>2. /\ DOMAIN log' = DOMAIN log \cup {Len(log) + 1}
        /\ \A n \in DOMAIN log : log'[n] = log[n]
    BY <1>0, <1>1, PublishApart
  <1>3. IsFiniteSet(DOMAIN log')
    <2>1. IsFiniteSet(DOMAIN log)
      BY <1>0, LogFinite
    <2> QED
      BY <1>2, <2>1, FS_AddElement
  <1>4. faults' = faults
    BY <1>1 DEF Publish
  <1>5. /\ remote'.payments = remote.payments /\ remote'.invoices = remote.invoices
        /\ doc.kind = "booking" =>
               /\ remote'.earned = remote.earned /\ remote'.reversed = remote.reversed
               /\ remote'.requests = remote.requests /\ remote'.loose = remote.loose
    BY <1>0, <1>1 DEF Agree, Changes
  <1>6. ASSUME NEW Q, NEW D, NEW E, D \subseteq DOMAIN log, D \subseteq E, E \subseteq DOMAIN log'
        PROVE  /\ Cardinality(D \ Awaiting(Q)) \in Nat /\ Cardinality(E \ Awaiting(Q)') \in Nat
               /\ Cardinality(D \ Awaiting(Q)) <= Cardinality(E \ Awaiting(Q)')
    <2>1. DOMAIN log \cap Awaiting(Q)' \subseteq Awaiting(Q)
      BY <1>0, <1>1, AwaitingPublished
    <2>2. D \ Awaiting(Q) \subseteq E \ Awaiting(Q)'
      BY <1>6, <2>1
    <2>3. IsFiniteSet(E \ Awaiting(Q)')
      BY <1>3, <1>6, FS_Subset
    <2> QED
      BY <2>2, <2>3, CountPart
  <1>7. /\ \A types : /\ Logged(types) \subseteq DOMAIN log /\ Logged(types) \subseteq Logged(types)'
                      /\ Logged(types)' \subseteq DOMAIN log'
    BY <1>2 DEF Logged
  <1>8. /\ Confirming \subseteq DOMAIN log /\ Confirming \subseteq Confirming'
        /\ Confirming' \subseteq DOMAIN log'
        /\ Charging \subseteq DOMAIN log /\ Charging \subseteq Charging'
        /\ Charging' \subseteq DOMAIN log'
        /\ Crediting \subseteq DOMAIN log /\ Crediting \subseteq Crediting'
        /\ Crediting' \subseteq DOMAIN log'
        /\ Selling \subseteq DOMAIN log /\ Selling \subseteq Selling'
        /\ Selling' \subseteq DOMAIN log'
    BY <1>2 DEF Confirming, Charging, Crediting, Delegated, Selling, Logged
  <1>9. /\ Payers \subseteq DOMAIN log /\ Payers \subseteq Payers' /\ Payers' \subseteq DOMAIN log'
        /\ Charging \cup Selling \subseteq DOMAIN log
        /\ Charging \cup Selling \subseteq (Charging \cup Selling)'
        /\ (Charging \cup Selling)' \subseteq DOMAIN log'
        /\ Desk \subseteq DOMAIN log /\ Desk \subseteq Desk' /\ Desk' \subseteq DOMAIN log'
    BY <1>7, <1>8 DEF Payers, Desk
  <1>10. remote'.payments <= Cardinality(Payers' \ Awaiting(Having({"record"}))') + faults'
    <2> DEFINE a == Cardinality(Payers \ Awaiting(Having({"record"})))
               b == Cardinality(Payers' \ Awaiting(Having({"record"}))')
    <2>1. a \in Nat /\ b \in Nat /\ a <= b
      BY <1>6, <1>9
    <2>2. remote.payments <= a + faults
      BY DEF CountInv
    <2> HIDE DEF a, b
    <2>3. remote'.payments <= b + faults'
      BY <1>0, <1>4, <1>5, <2>1, <2>2
    <2> QED
      BY <2>3 DEF b
  <1>11. remote'.invoices <= Cardinality((Charging \cup Selling)' \ Awaiting(Having(Chain))')
                                + Cardinality(Desk' \ Awaiting(Doubled)')
                                + (IF Desk' = {} THEN faults' ELSE faults' + faults')
    <2> DEFINE a == Cardinality((Charging \cup Selling) \ Awaiting(Having(Chain)))
               b == Cardinality((Charging \cup Selling)' \ Awaiting(Having(Chain))')
               p == Cardinality(Desk \ Awaiting(Doubled))
               q == Cardinality(Desk' \ Awaiting(Doubled)')
               f == IF Desk = {} THEN faults ELSE faults + faults
               g == IF Desk' = {} THEN faults' ELSE faults' + faults'
    <2>1. a \in Nat /\ b \in Nat /\ a <= b
      BY <1>6, <1>9
    <2>2. p \in Nat /\ q \in Nat /\ p <= q
      BY <1>6, <1>9
    <2>3. f \in Nat /\ g \in Nat /\ f <= g
      BY <1>0, <1>4, <1>9
    <2>4. remote.invoices <= a + p + f
      BY DEF CountInv
    <2> HIDE DEF a, b, p, q, f, g
    <2>5. remote'.invoices <= b + q + g
      BY <1>0, <1>5, <2>1, <2>2, <2>3, <2>4
    <2> QED
      BY <2>5 DEF b, q, g
  <1>12. ASSUME doc.kind = "booking"
         PROVE  /\ remote'.earned <= Cardinality(Crediting' \ Awaiting(Having({"credit"}))') + faults'
                /\ remote'.reversed <=
                       Cardinality(Logged({"cancelled"})' \ Awaiting(Having({"reverse"}))') + faults'
                /\ remote'.requests <=
                       Cardinality(Logged({"cancelled"})' \ Awaiting(Having({"request_refund"}))')
                           + faults'
                /\ remote'.loose <=
                       Cardinality(Logged({"payment_refunded"})' \ Awaiting(Having({"loose_note"}))')
                           + faults'
    <2> DEFINE a1 == Cardinality(Crediting \ Awaiting(Having({"credit"})))
               b1 == Cardinality(Crediting' \ Awaiting(Having({"credit"}))')
               a2 == Cardinality(Logged({"cancelled"}) \ Awaiting(Having({"reverse"})))
               b2 == Cardinality(Logged({"cancelled"})' \ Awaiting(Having({"reverse"}))')
               a3 == Cardinality(Logged({"cancelled"}) \ Awaiting(Having({"request_refund"})))
               b3 == Cardinality(Logged({"cancelled"})' \ Awaiting(Having({"request_refund"}))')
               a4 == Cardinality(Logged({"payment_refunded"}) \ Awaiting(Having({"loose_note"})))
               b4 == Cardinality(Logged({"payment_refunded"})' \ Awaiting(Having({"loose_note"}))')
    <2>1. a1 \in Nat /\ b1 \in Nat /\ a1 <= b1
      BY <1>6, <1>8
    <2>2. a2 \in Nat /\ b2 \in Nat /\ a2 <= b2
      BY <1>6, <1>7
    <2>3. a3 \in Nat /\ b3 \in Nat /\ a3 <= b3
      BY <1>6, <1>7
    <2>4. a4 \in Nat /\ b4 \in Nat /\ a4 <= b4
      BY <1>6, <1>7
    <2>5. /\ remote.earned \in Nat /\ remote.reversed \in Nat
          /\ remote.requests \in Nat /\ remote.loose \in Nat
          /\ remote.earned <= a1 + faults /\ remote.reversed <= a2 + faults
          /\ remote.requests <= a3 + faults /\ remote.loose <= a4 + faults
      BY <1>12 DEF CountInv
    <2> HIDE DEF a1, b1, a2, b2, a3, b3, a4, b4
    <2>6. /\ remote'.earned <= b1 + faults' /\ remote'.reversed <= b2 + faults'
          /\ remote'.requests <= b3 + faults' /\ remote'.loose <= b4 + faults'
      BY <1>0, <1>4, <1>5, <1>12, <2>1, <2>2, <2>3, <2>4, <2>5
    <2> QED
      BY <2>6 DEF b1, b2, b3, b4
  <1> QED
    BY <1>5, <1>10, <1>11, <1>12 DEF CountInv

\* Every step.
LEMMA CountNext == Common /\ OrderInv /\ CountInv /\ [Next]_vars => CountInv'
  <1> SUFFICES ASSUME Common, OrderInv, CountInv, [Next]_vars PROVE CountInv'
    OBVIOUS
  <1>1. doc' = doc
    BY NextLasting DEF Common, Typed, Lasting
  <1>2. CASE UNCHANGED vars
    <2>1. /\ Payers' = Payers /\ Charging' = Charging /\ Crediting' = Crediting
          /\ Selling' = Selling /\ Desk' = Desk
          /\ Logged({"cancelled"})' = Logged({"cancelled"})
          /\ Logged({"payment_refunded"})' = Logged({"payment_refunded"})
      BY <1>2 DEF vars, Payers, Confirming, Charging, Crediting, Delegated, Selling, Desk, Logged
    <2>2. \A Q : Awaiting(Q)' = Awaiting(Q)
      BY <1>2 DEF vars, Awaiting
    <2>3. doc' = doc /\ remote' = remote /\ faults' = faults
      BY <1>2 DEF vars
    <2> QED
      BY <2>1, <2>2, <2>3 DEF CountInv
  <1> QED
    BY <1>1, <1>2, CountStep, CountPublished DEF Next

\* At first nothing has been published, done or counted.
LEMMA CountInit == Init => OrderInv /\ CountInv
  <1> SUFFICES ASSUME Init PROVE OrderInv /\ CountInv
    OBVIOUS
  <1>1. log = <<>> /\ slot = [s \in Slot |-> Idle] /\ faults = 0
    BY DEF Init, InitDelivery
  <1>2. OrderInv
    <2>1. Idle.todo = <<>> /\ Idle.ev = 0
      BY DEF Idle
    <2>2. ~(0 \in Desk)
      BY <1>1 DEF Desk, Logged
    <2>3. \A X : Once(<<>>, X)
      BY DEF Once
    <2> QED
      BY <1>1, <2>1, <2>2, <2>3 DEF OrderInv, Orderly
  <1>3. /\ Payers = {} /\ Charging = {} /\ Crediting = {} /\ Selling = {} /\ Desk = {}
        /\ Logged({"cancelled"}) = {} /\ Logged({"payment_refunded"}) = {}
    BY <1>1 DEF Payers, Confirming, Charging, Crediting, Delegated, Selling, Desk, Logged
  <1>4. \A Q : Cardinality({} \ Awaiting(Q)) = 0
    <2>1. \A Q : {} \ Awaiting(Q) = {}
      OBVIOUS
    <2> QED
      BY <2>1, FS_EmptySet
  <1>5. /\ remote.payments = 0 /\ remote.invoices = 0
        /\ doc.kind = "booking" => /\ remote.earned = 0 /\ remote.reversed = 0
                                   /\ remote.requests = 0 /\ remote.loose = 0
    <2>1. doc.kind \in Kinds
      BY DocumentsAssumption DEF Init
    <2>2. CASE doc.kind \in Sold
      BY <2>2 DEF Init, NewSale
    <2>3. CASE doc.kind = "account"
      BY <2>3 DEF Init, NewAccount
    <2>4. CASE doc.kind = "booking"
      BY <2>4 DEF Init, NewBooking, CancelledBooking
    <2> QED
      BY <2>1, <2>2, <2>3, <2>4
  <1>6. CountInv
    <2>1. \A Q : /\ Cardinality(Payers \ Awaiting(Q)) = 0
                 /\ Cardinality((Charging \cup Selling) \ Awaiting(Q)) = 0
                 /\ Cardinality(Crediting \ Awaiting(Q)) = 0
                 /\ Cardinality(Desk \ Awaiting(Q)) = 0
                 /\ Cardinality(Logged({"cancelled"}) \ Awaiting(Q)) = 0
                 /\ Cardinality(Logged({"payment_refunded"}) \ Awaiting(Q)) = 0
      <3>1. Charging \cup Selling = {}
        BY <1>3
      <3> QED
        BY <1>3, <1>4, <3>1, Zenon
    <2>2. /\ Cardinality(Payers \ Awaiting(Having({"record"}))) = 0
          /\ Cardinality((Charging \cup Selling) \ Awaiting(Having(Chain))) = 0
          /\ Cardinality(Desk \ Awaiting(Doubled)) = 0
          /\ Cardinality(Crediting \ Awaiting(Having({"credit"}))) = 0
          /\ Cardinality(Logged({"cancelled"}) \ Awaiting(Having({"reverse"}))) = 0
          /\ Cardinality(Logged({"cancelled"}) \ Awaiting(Having({"request_refund"}))) = 0
          /\ Cardinality(Logged({"payment_refunded"}) \ Awaiting(Having({"loose_note"}))) = 0
      BY <2>1, Zenon
    <2>3. (IF Desk = {} THEN faults ELSE faults + faults) = 0
      BY <1>1
    <2>4. 0 \in Nat /\ 0 <= 0 + 0 /\ 0 <= 0 + 0 + 0
      OBVIOUS
    <2> QED
      BY <1>1, <1>5, <2>2, <2>3, <2>4, Zenon DEF CountInv
  <1> QED
    BY <1>2, <1>6

\* What has been counted has had its event, but for what a fault repeated.
LEMMA CountMeans ==
  ASSUME Common, CountInv
  PROVE  CountsExplained
  <1>0. /\ Typed /\ faults \in Nat /\ log \in Seq(Event) /\ remote.payments \in Nat
        /\ remote.invoices \in Nat
    BY FaultsAssumption DEF Common, Typed
  <1>1. IsFiniteSet(DOMAIN log)
    BY <1>0, LogFinite
  <1>2. ASSUME NEW D, D \subseteq DOMAIN log, NEW A
        PROVE  /\ Cardinality(D) \in Nat /\ Cardinality(D \ A) \in Nat
               /\ Cardinality(D \ A) <= Cardinality(D)
    <2>1. IsFiniteSet(D)
      BY <1>1, <1>2, FS_Subset
    <2> QED
      BY <2>1, CountPart
  <1>3. /\ Payers \subseteq DOMAIN log /\ Crediting \subseteq DOMAIN log
        /\ Charging \cup Selling \subseteq DOMAIN log /\ Desk \subseteq DOMAIN log
        /\ Logged({"cancelled"}) \subseteq DOMAIN log
        /\ Logged({"payment_refunded"}) \subseteq DOMAIN log
    BY CountedEvents
  <1>4. remote.payments <= Cardinality(Payers) + faults
    <2>1. remote.payments <= Cardinality(Payers \ Awaiting(Having({"record"}))) + faults
      BY DEF CountInv
    <2>2. /\ Cardinality(Payers) \in Nat
          /\ Cardinality(Payers \ Awaiting(Having({"record"}))) \in Nat
          /\ Cardinality(Payers \ Awaiting(Having({"record"}))) <= Cardinality(Payers)
      BY <1>2, <1>3
    <2> QED
      BY <1>0, <2>1, <2>2
  <1>5. remote.invoices - (IF Desk = {} THEN 0 ELSE Cardinality(Desk) + faults)
            <= Cardinality(Charging \cup Selling) + faults
    <2> DEFINE a == Cardinality((Charging \cup Selling) \ Awaiting(Having(Chain)))
               b == Cardinality(Charging \cup Selling)
               p == Cardinality(Desk \ Awaiting(Doubled))
               q == Cardinality(Desk)
    <2>1. remote.invoices <= a + p + (IF Desk = {} THEN faults ELSE faults + faults)
      BY DEF CountInv
    <2>2. a \in Nat /\ b \in Nat /\ a <= b
      BY <1>2, <1>3
    <2>3. p \in Nat /\ q \in Nat /\ p <= q
      BY <1>2, <1>3
    <2>4. Desk = {} => p = 0
      BY FS_EmptySet
    <2> HIDE DEF a, b, p, q
    <2>5. remote.invoices - (IF Desk = {} THEN 0 ELSE q + faults) <= b + faults
      <3>1. CASE Desk = {}
        BY <1>0, <2>1, <2>2, <2>3, <2>4, <3>1
      <3>2. CASE Desk # {}
        BY <1>0, <2>1, <2>2, <2>3, <3>2
      <3> QED
        BY <3>1, <3>2
    <2> QED
      BY <2>5 DEF b, q
  <1>6. ASSUME doc.kind = "booking"
        PROVE  /\ remote.earned <= Cardinality(Crediting) + faults
               /\ remote.reversed <= Cardinality(Logged({"cancelled"})) + faults
               /\ remote.requests <= Cardinality(Logged({"cancelled"})) + faults
               /\ remote.loose <= Cardinality(Logged({"payment_refunded"})) + faults
    <2> DEFINE a1 == Cardinality(Crediting \ Awaiting(Having({"credit"})))
               a2 == Cardinality(Logged({"cancelled"}) \ Awaiting(Having({"reverse"})))
               a3 == Cardinality(Logged({"cancelled"}) \ Awaiting(Having({"request_refund"})))
               a4 == Cardinality(Logged({"payment_refunded"}) \ Awaiting(Having({"loose_note"})))
               b1 == Cardinality(Crediting)
               b2 == Cardinality(Logged({"cancelled"}))
               b4 == Cardinality(Logged({"payment_refunded"}))
    <2>1. /\ a1 \in Nat /\ b1 \in Nat /\ a1 <= b1
          /\ a2 \in Nat /\ b2 \in Nat /\ a2 <= b2
          /\ a3 \in Nat /\ a3 <= b2
          /\ a4 \in Nat /\ b4 \in Nat /\ a4 <= b4
      BY <1>2, <1>3
    <2>2. /\ remote.earned \in Nat /\ remote.reversed \in Nat
          /\ remote.requests \in Nat /\ remote.loose \in Nat
          /\ remote.earned <= a1 + faults /\ remote.reversed <= a2 + faults
          /\ remote.requests <= a3 + faults /\ remote.loose <= a4 + faults
      BY <1>6 DEF CountInv
    <2> HIDE DEF a1, a2, a3, a4, b1, b2, b4
    <2>3. /\ remote.earned <= b1 + faults /\ remote.reversed <= b2 + faults
          /\ remote.requests <= b2 + faults /\ remote.loose <= b4 + faults
      BY <1>0, <2>1, <2>2, SMTT(30)
    <2> QED
      BY <2>3 DEF b1, b2, b4
  <1> QED
    BY <1>4, <1>5, <1>6 DEF CountsExplained, Desk, Payers

\* Every payment record, invoice, point and refund request has an event of its own, or a fault
\* that repeated a call or a delivery.
THEOREM Counts == Spec => []CountsExplained
  <1>1. Init => Common /\ OrderInv /\ CountInv
    BY CommonInit, CountInit
  <1>2. Common /\ OrderInv /\ CountInv /\ [Next]_vars => (Common /\ OrderInv /\ CountInv)'
    BY CommonNext, OrderNext, CountNext
  <1>3. Common /\ CountInv => CountsExplained
    BY CountMeans
  <1> QED
    BY <1>1, <1>2, <1>3, PTL DEF Spec

-----------------------------------------------------------------------------
(* Loyalty points.                                                         *)

\* Handlers that go on without the step that a set of them still has to take keep it.
LEMMA HaveOnward ==
  ASSUME Common, NEW s \in Slot, slot[s].todo # <<>>, NEW then \in Follows(s), NEW X,
         slot[s].todo \in Having(X), Op(s) \notin X
  PROVE  then \o Tail(slot[s].todo) \in Having(X)
  <1> DEFINE q == slot[s].todo
             S == Allowed(Ev(s))
  <1>1. Typed /\ Apart /\ S \subseteq AnyStep
    BY DEF Common, Allowed
  <1>2. q \in Seq(S) /\ q # <<>> /\ then \in Seq(S) /\ Tail(q) \in Seq(S) /\ Head(q)[1] = Op(s)
    BY <1>1, Working, FollowsAllowed DEF Op
  <1>3. Has(q, X)
    BY DEF Having
  <1>4. Op(s) \notin X
    OBVIOUS
  <1> HIDE DEF q, S
  <1>5. Has(Tail(q), X)
    BY <1>2, <1>3, <1>4, HasRest
  <1>6. then \o Tail(q) \in Seq(S) /\ Has(then \o Tail(q), X)
    BY <1>2, <1>5, HasBoth
  <1>7. then \o Tail(q) \in Seq(AnyStep)
    BY <1>1, <1>6
  <1> QED
    BY <1>6, <1>7 DEF Having, q

\* The slot goes on with its event, or gives it back.
LEMMA KeepsOn ==
  ASSUME Common, NEW s \in Slot, slot[s].todo # <<>>, Does(s), slot'[s] # Idle,
         Ev(s).type \notin Updates
  PROVE  \E then \in Follows(s) : Goes(s, then) /\ slot'[s].todo = then \o Tail(slot[s].todo)
  <1>0. Typed /\ Apart /\ slot \in [Slot -> Hand(AnyStep)]
    BY DEF Common, Typed
  <1>1. Moves(s)
    BY <1>0, OperationMoves
  <1>2. ~Raises(s)
    BY <1>0 DEF Raises, Becomes
  <1>3. ~Stops(s)
    <2>1. Op(s) \in Ops(Ev(s)) /\ Ev(s) \in Event
      BY <1>0, Working, StepIs DEF Op
    <2>2. Op(s) # "change_row"
      BY <2>1 DEF Ops, Updates
    <2> QED
      BY <2>2 DEF Stops
  <1>4. \A then \in Follows(s) : Goes(s, then) => slot'[s].todo = then \o Tail(slot[s].todo)
    BY <1>0 DEF Goes, Becomes
  <1> QED
    BY <1>1, <1>2, <1>3, <1>4 DEF Moves

LEMMA StillHaving ==
  ASSUME Common, NEW s \in Slot, slot[s].todo # <<>>, Does(s), slot'[s] # Idle,
         Ev(s).type \notin Updates, NEW X, Op(s) \notin X, slot[s].todo \in Having(X)
  PROVE  slot'[s].todo \in Having(X)
  BY KeepsOn, HaveOnward

\* An event that is awaiting stays so, while its handler keeps what it has to do: given back, it
\* is handled from the start.
LEMMA AwaitingLasts ==
  ASSUME Common, NEW s \in Slot, Step(s), NEW Q, <<>> \notin Q,
         NEW n \in Awaiting(Q), Steps(log[n]) \in Q,
         slot[s].todo # <<>> /\ Does(s) /\ slot[s].ev = n /\ slot[s].todo \in Q /\ slot'[s] # Idle
             => slot'[s].todo \in Q
  PROVE  n \in Awaiting(Q)'
  <1>0. /\ Typed /\ Apart /\ doc.kind \in Kinds /\ slot \in [Slot -> Hand(AnyStep)]
        /\ log \in Seq(Event) /\ queue \subseteq DOMAIN log /\ 0 \notin DOMAIN log
    BY LenProperties DEF Common, Typed, Shaped
  <1>1. PICK l : SlotForm(s, l)
    BY <1>0, SlotForms
  <1>2. slot'[s] = l /\ slot' = [slot EXCEPT ![s] = l] /\ queue \ queue' \subseteq {slot[s].ev}
    BY <1>0, <1>1 DEF SlotForm
  <1>3. /\ \A k : k # slot[s].ev /\ k # l.ev => (k \in Awaiting(Q)' <=> k \in Awaiting(Q))
        /\ l # Idle => (l.ev \in Awaiting(Q)' <=> l.todo \in Q)
        /\ slot[s].ev # 0 => (slot[s].ev \in Awaiting(Q) <=> slot[s].todo \in Q)
    BY <1>0, <1>1, AwaitingMoves
  <1>4. \/ End(s)
        \/ Crash(s)
        \/ \E k \in queue : Starts(s, k)
        \/ slot[s].todo # <<>> /\ Does(s) /\ Moves(s)
    BY <1>0, OperationMoves, StepCases
  <1>5. Idle.ev = 0 /\ Idle.todo = <<>>
    BY DEF Idle
  <1>6. n # 0 /\ n \in queue /\ n \in DOMAIN log
    BY <1>0 DEF Awaiting
  <1>7. CASE n # slot[s].ev /\ n # l.ev
    BY <1>3, <1>7
  <1>8. CASE n = slot[s].ev
    <2>1. slot[s].todo \in Q /\ slot[s].todo # <<>> /\ slot[s] # Idle
      BY <1>3, <1>5, <1>6, <1>8
    <2>2. CASE l = Idle
      <3>1. \A t \in Slot : t # s => slot[t].ev # n
        BY <1>0, <1>6, <1>8 DEF Apart
      <3>2. \A t \in Slot : slot'[t].ev # n
        BY <1>0, <1>2, <1>5, <1>6, <2>2, <3>1
      <3>3. n \in queue'
        BY <1>4, <1>6, <2>1 DEF End, Crash, Starts, Moves, Framed
      <3> QED
        BY <3>2, <3>3 DEF Awaiting
    <2>3. CASE l # Idle
      <3>1. Does(s) /\ Moves(s)
        <4>1. ~Crash(s)
          BY <1>0, <1>2, <2>3 DEF Crash, Becomes
        <4> QED
          BY <1>4, <2>1, <4>1 DEF End, Starts
      <3>2. l.ev = n
        <4>1. Raises(s) => l = Idle
          BY <1>0, <1>2 DEF Raises, Becomes
        <4>2. Stops(s) => l.ev = slot[s].ev
          BY <1>0, <1>2 DEF Stops, Becomes, Hand
        <4>3. \A then \in Follows(s) : Goes(s, then) => l.ev = slot[s].ev
          BY <1>0, <1>2 DEF Goes, Becomes
        <4> QED
          BY <1>8, <2>3, <3>1, <4>1, <4>2, <4>3 DEF Moves
      <3>3. l.todo \in Q
        BY <1>2, <1>8, <2>1, <2>3, <3>1
      <3> QED
        BY <1>3, <2>3, <3>2, <3>3
    <2> QED
      BY <2>2, <2>3
  <1>9. CASE n # slot[s].ev /\ n = l.ev
    <2>1. l # Idle
      BY <1>5, <1>6, <1>9
    <2>2. PICK m \in queue : Starts(s, m)
      <3>1. ~End(s) /\ ~Crash(s)
        BY <1>0, <1>2, <2>1 DEF End, Crash, Becomes
      <3>2. ~(slot[s].todo # <<>> /\ Does(s) /\ Moves(s))
        <4> SUFFICES ASSUME Moves(s) PROVE l = Idle \/ l.ev = slot[s].ev
          BY <1>9, <2>1
        <4>1. Raises(s) => l = Idle
          BY <1>0, <1>2 DEF Raises, Becomes
        <4>2. Stops(s) => l.ev = slot[s].ev
          BY <1>0, <1>2 DEF Stops, Becomes, Hand
        <4>3. \A then \in Follows(s) : Goes(s, then) => l.ev = slot[s].ev
          BY <1>0, <1>2 DEF Goes, Becomes
        <4> QED
          BY <4>1, <4>2, <4>3 DEF Moves
      <3> QED
        BY <1>4, <3>1, <3>2
    <2>3. l = [Idle EXCEPT !.ev = m, !.todo = Steps(log[m])]
      BY <1>0, <1>2, <2>2 DEF Starts, Becomes
    <2>4. l.ev = m /\ l.todo = Steps(log[m])
      BY <2>3 DEF Idle
    <2>5. l.todo \in Q
      BY <1>9, <2>4
    <2> QED
      BY <1>3, <1>9, <2>1, <2>5
  <1> QED
    BY <1>7, <1>8, <1>9

\* Only a booking that earns points has them, and without faults those of a cancelled one are
\* taken back before the handler of the cancellation is through.
Forfeit == Logged({"cancelled"})
PointsInv ==
    doc.kind = "booking" =>
        /\ remote.earned > 0 => Earns
        /\ faults = 0 /\ Earns => remote.reversed >= 1 \/ Forfeit \subseteq Awaiting(Having({"reverse"}))

\* The handler of a cancellation takes the points back.
LEMMA CancelledReverses ==
  ASSUME doc.kind = "booking", Earns, NEW e \in BookingEvent, e.type = "cancelled"
  PROVE  Steps(e) \in Having({"reverse"})
  <1> DEFINE S == Allowed(e)
             a == ReversalSteps(e)
             b == FindLinkSteps(e)
             c == << <<"drop_row">> >>
             d == CloseLinkSteps(e)
             g == << <<"set_booking", "cancelled", SyncPay(e)>> >>
             h == IF e.pay = "refund_requested" THEN << <<"request_refund">> >> ELSE <<>>
  <1>1. /\ a \in Seq(S) /\ b \in Seq(S) /\ c \in Seq(S) /\ d \in Seq(S) /\ g \in Seq(S)
        /\ h \in Seq(S)
    BY CancelledParts
  <1>2. Has(a, {"reverse"})
    <2>1. a = << <<"reverse">> >> /\ <<"reverse">>[1] = "reverse"
      BY DEF ReversalSteps, Earns
    <2> HIDE DEF a
    <2> QED
      BY <2>1, HasOne
  <1>3. Steps(e) = a \o b \o c \o d \o g \o h
    BY DEF Steps, BookingSteps, CancelledSteps
  <1>4. S \subseteq AnyStep
    BY DEF Allowed
  <1> HIDE DEF S, a, b, c, d, g, h
  <1> DEFINE ab == a \o b
  <1>5. ab \in Seq(S) /\ Has(ab, {"reverse"})
    BY <1>1, <1>2, HasBoth
  <1> HIDE DEF ab
  <1> DEFINE abc == ab \o c
  <1>6. abc \in Seq(S) /\ Has(abc, {"reverse"})
    BY <1>1, <1>5, HasBoth
  <1> HIDE DEF abc
  <1> DEFINE abcd == abc \o d
  <1>7. abcd \in Seq(S) /\ Has(abcd, {"reverse"})
    BY <1>1, <1>6, HasBoth
  <1> HIDE DEF abcd
  <1> DEFINE abcdg == abcd \o g
  <1>8. abcdg \in Seq(S) /\ Has(abcdg, {"reverse"})
    BY <1>1, <1>7, HasBoth
  <1> HIDE DEF abcdg
  <1>9. abcdg \o h \in Seq(S) /\ Has(abcdg \o h, {"reverse"})
    BY <1>1, <1>8, HasBoth
  <1>10. Steps(e) \in Seq(S) /\ Has(Steps(e), {"reverse"})
    BY <1>3, <1>9 DEF ab, abc, abcd, abcdg
  <1>11. Steps(e) \in Seq(AnyStep)
    BY <1>4, <1>10
  <1> QED
    BY <1>10, <1>11 DEF Having

\* A step of a slot.
LEMMA PointsStep ==
  ASSUME Common, CountInv, PointsInv, NEW s \in Slot, Step(s), doc.kind = "booking"
  PROVE  PointsInv'
  <1>0. /\ Typed /\ Apart /\ doc.kind \in Kinds /\ faults \in Nat /\ log \in Seq(Event)
        /\ DOMAIN remote = Fields /\ remote.earned \in Nat /\ remote.reversed \in Nat
        /\ {"earned", "reversed"} \subseteq DOMAIN remote
    BY FaultsAssumption DEF Common, Typed, Shaped, CountInv
  <1>1. doc' = doc /\ log' = log /\ faults' \in {faults, faults + 1}
    <2>1. slot[s].todo # <<>> /\ Does(s)
              => doc' = doc /\ log' = log /\ faults' \in {faults, faults + 1}
      BY <1>0, OperationMoves DEF Moves, Framed
    <2> QED
      BY <1>0, <2>1, StepCases DEF End, Crash, Starts
  <1>2. Forfeit' = Forfeit /\ (Earns' <=> Earns) /\ doc'.kind = "booking"
    BY <1>1 DEF Forfeit, Logged, Earns, Redemption
  <1>3. ASSUME remote' = remote \/ (slot[s].todo # <<>> /\ Does(s) /\ Op(s) # "credit")
        PROVE  remote'.earned = remote.earned
    <2>1. CASE slot[s].todo # <<>> /\ Does(s) /\ Op(s) # "credit"
      <3>1. "earned" \in DOMAIN remote \ Touches(Op(s))
        BY <1>0, <2>1 DEF Touches
      <3> QED
        BY <1>0, <2>1, <3>1, OperationMoves DEF Moves, Framed, Agree
    <2> QED
      BY <1>3, <2>1
  <1>4. ASSUME remote' = remote \/ (slot[s].todo # <<>> /\ Does(s) /\ Op(s) # "reverse")
        PROVE  remote'.reversed = remote.reversed
    <2>1. CASE slot[s].todo # <<>> /\ Does(s) /\ Op(s) # "reverse"
      <3>1. "reversed" \in DOMAIN remote \ Touches(Op(s))
        BY <1>0, <2>1 DEF Touches
      <3> QED
        BY <1>0, <2>1, <3>1, OperationMoves DEF Moves, Framed, Agree
    <2> QED
      BY <1>4, <2>1
  <1>5. remote' = remote \/ (slot[s].todo # <<>> /\ Does(s))
    BY <1>0, StepCases DEF End, Crash, Starts
  <1>6. remote'.earned > 0 => Earns
    <2>1. CASE slot[s].todo # <<>> /\ Does(s) /\ Op(s) = "credit"
      <3>1. Op(s) \in Ops(Ev(s)) /\ Ev(s) \in Event
        BY <1>0, <2>1, Working, StepIs DEF Op
      <3> QED
        BY <2>1, <3>1 DEF Ops
    <2>2. CASE ~(slot[s].todo # <<>> /\ Does(s) /\ Op(s) = "credit")
      BY <1>3, <1>5, <2>2 DEF PointsInv
    <2> QED
      BY <2>1, <2>2
  <1>7. ASSUME faults' = 0, Earns
        PROVE  remote'.reversed >= 1 \/ Forfeit \subseteq Awaiting(Having({"reverse"}))'
    <2>0. faults = 0 /\ faults' = faults
      BY <1>0, <1>1, <1>7
    <2>1. CASE slot[s].todo # <<>> /\ Does(s) /\ Op(s) = "reverse"
      <3>1. CancelLoyaltyPoints(s)
        BY <2>1 DEF Does
      <3>2. remote' = Reverse(remote)
        <4>1. \/ remote' = Reverse(remote) /\ faults' = faults
              \/ faults' = faults + 1
          BY <3>1 DEF CancelLoyaltyPoints, Attempt, Call
        <4> QED
          BY <1>0, <2>0, <4>1
      <3> QED
        BY <1>0, <3>2 DEF Reverse
    <2>2. CASE ~(slot[s].todo # <<>> /\ Does(s) /\ Op(s) = "reverse")
      <3>1. remote'.reversed = remote.reversed
        BY <1>4, <1>5, <2>2
      <3>2. CASE remote.reversed >= 1
        BY <3>1, <3>2
      <3>3. CASE Forfeit \subseteq Awaiting(Having({"reverse"}))
        <4> DEFINE Q == Having({"reverse"})
        <4>1. <<>> \notin Q
          BY HasOne DEF Having
        <4>2. \A n \in Forfeit : log[n].type \notin Updates /\ Steps(log[n]) \in Q
          <5>1. \A n \in Forfeit : log[n] \in BookingEvent /\ log[n].type = "cancelled"
            BY <1>0 DEF Forfeit, Logged, Event
          <5> QED
            BY <1>7, <5>1, CancelledReverses DEF Updates
        <4>3. ASSUME NEW n \in Forfeit, slot[s].todo # <<>>, Does(s), slot[s].ev = n,
                     slot[s].todo \in Q, slot'[s] # Idle
              PROVE  slot'[s].todo \in Q
          <5>1. Op(s) \notin {"reverse"} /\ Ev(s).type \notin Updates
            BY <2>2, <4>2, <4>3 DEF Ev
          <5> QED
            BY <4>3, <5>1, StillHaving
        <4> HIDE DEF Q
        <4>4. Forfeit \subseteq Awaiting(Q)
          BY <3>3 DEF Q
        <4>5. Forfeit \subseteq Awaiting(Q)'
          BY <4>1, <4>2, <4>3, <4>4, AwaitingLasts
        <4> QED
          BY <4>5 DEF Q
      <3> QED
        BY <1>7, <2>0, <3>2, <3>3 DEF PointsInv
    <2> QED
      BY <2>1, <2>2
  <1> QED
    BY <1>2, <1>6, <1>7 DEF PointsInv

\* Every step.
LEMMA PointsNext == Common /\ CountInv /\ PointsInv /\ [Next]_vars => PointsInv'
  <1> SUFFICES ASSUME Common, CountInv, PointsInv, [Next]_vars, doc.kind = "booking"
               PROVE  PointsInv'
    BY NextLasting DEF Common, Typed, Lasting, PointsInv
  <1>0. /\ Typed /\ Apart /\ log \in Seq(Event) /\ DOMAIN remote = Fields /\ doc' = doc
    BY NextLasting DEF Common, Typed, Shaped, Lasting
  <1>1. CASE UNCHANGED vars
    <2>1. Forfeit' = Forfeit /\ (Earns' <=> Earns) /\ \A Q : Awaiting(Q)' = Awaiting(Q)
      BY <1>1 DEF vars, Forfeit, Logged, Earns, Redemption, Awaiting
    <2> QED
      BY <1>1, <2>1 DEF vars, PointsInv
  <1>2. CASE Happen
    <2>1. PICK e \in Event : Publish(e) /\ Agree(remote, remote', Changes)
      BY <1>0, <1>2, HappenPublishes
    <2>2. remote'.earned = remote.earned /\ remote'.reversed = remote.reversed /\ faults' = faults
      BY <1>0, <2>1 DEF Agree, Changes, Publish
    <2>3. \A Q : Awaiting(Q)' = Awaiting(Q) \cup {Len(log) + 1}
      BY <1>0, <2>1, AwaitingPublished
    <2>4. /\ DOMAIN log' = DOMAIN log \cup {Len(log) + 1}
          /\ \A n \in DOMAIN log : log'[n] = log[n]
      BY <1>0, <2>1, PublishApart
    <2>5. Forfeit' \subseteq Forfeit \cup {Len(log) + 1}
      BY <2>4 DEF Forfeit, Logged
    <2>6. Earns' <=> Earns
      BY <1>0 DEF Earns, Redemption
    <2> QED
      BY <1>0, <2>2, <2>3, <2>5, <2>6 DEF PointsInv
  <1> QED
    BY <1>1, <1>2, PointsStep DEF Next

\* Without faults, a booking confirmed once and cancelled keeps no points when all is handled.
THEOREM Points == Spec => []PointsBalanced
  <1>1. Init => PointsInv
    <2> SUFFICES ASSUME Init, doc.kind = "booking" PROVE PointsInv
      BY DEF PointsInv
    <2>1. remote.earned = 0
      BY DEF Init, NewBooking, CancelledBooking, Sold
    <2>2. Forfeit = {}
      BY DEF Init, InitDelivery, Forfeit, Logged
    <2> QED
      BY <2>1, <2>2 DEF PointsInv
  <1>2. Common /\ CountInv /\ PointsInv => PointsBalanced
    <2> SUFFICES ASSUME Common, CountInv, PointsInv, doc.kind = "booking", Quiescent, faults = 0,
                        Cardinality(Crediting) <= 1, Forfeit # {}
                 PROVE  remote.earned <= remote.reversed
      BY DEF PointsBalanced, Forfeit
    <2>1. remote.earned \in Nat /\ remote.reversed \in Nat
      BY DEF CountInv
    <2>2. remote.earned <= Cardinality(Crediting) /\ Cardinality(Crediting) \in Nat
      <3>1. CountsExplained
        BY CountMeans
      <3>2. IsFiniteSet(Crediting)
        <4>1. IsFiniteSet(DOMAIN log) /\ Crediting \subseteq DOMAIN log
          BY LogFinite DEF Common, Typed, Crediting, Delegated, Logged
        <4> QED
          BY <4>1, FS_Subset
      <3>3. Cardinality(Crediting) \in Nat
        BY <3>2, FS_CardinalityType
      <3> QED
        BY <3>1, <3>3 DEF CountsExplained
    <2>3. Awaiting(Having({"reverse"})) = {}
      BY DEF Quiescent, Awaiting
    <2> QED
      BY <2>1, <2>2, <2>3 DEF PointsInv
  <1>3. Common /\ OrderInv /\ CountInv /\ PointsInv /\ [Next]_vars
            => (Common /\ OrderInv /\ CountInv /\ PointsInv)'
    BY CommonNext, OrderNext, CountNext, PointsNext
  <1> QED
    BY <1>1, <1>2, <1>3, CommonInit, CountInit, PTL DEF Spec

-----------------------------------------------------------------------------
(* Payment records and their invoice numbers.                              *)

\* A call of the invoicing failed.
Unbilled == missed \cap {"partner", "invoice", "link_payments"} # {}

\* What leads to the number on the records that there are by then.
Linking == {"partner", "invoice", "link_payments"}

\* The events whose handlers record a payment before they invoice it.
Billing ==
    {n \in DOMAIN log :
        /\ doc.invoicing
        /\ \/ doc.kind = "order" /\ log[n].pay = "success"
           \/ /\ doc.kind = "booking" /\ ~GiftVoucher /\ ~Redeems(log[n])
              /\ \/ log[n].type = "confirmed" /\ IsPaid(log[n]) /\ Invoiceable(log[n])
                 \/ Delegating(log[n])}

\* What is recorded and not invoiced: an order that is not paid yet, a booking that only its
\* record takes for paid, or anything where invoicing is not configured.
Deferred ==
    \/ ~doc.invoicing
    \/ doc.kind = "order" /\ \E n \in DOMAIN log : log[n].pay # "success"
    \/ doc.kind = "booking" /\ RecordedOnly # {}

\* A record comes with the number already, or before the steps that will give it one.
Numbered(s) ==
    /\ doc.kind = "voucher" /\ doc.invoicing =>
           \/ slot[s].got
           \/ ~Has(slot[s].todo, {"record"})
           \/ slot[s].todo # <<>> /\ Op(s) \in {"partner", "invoice"}
    /\ slot[s].ev \in Billing => Followed(slot[s].todo, {"record"}, Linking)
RecordInv ==
    /\ doc.kind = "order" =>
           /\ remote.status = "new" => ~remote.paid
           /\ \A n \in DOMAIN log :
                  remote.status # "new" /\ (remote.paid <=> log[n].pay = "success")
    /\ doc.kind \in {"gift", "account"} => remote.payments = 0
    /\ Unbilled \/ \A s \in Slot : Numbered(s)
    /\ \/ Unbilled \/ Deferred \/ remote.linked = remote.payments
       \/ Billing \cap Awaiting(Having(Linking)) # {}

\* The records are followed by what numbers them.
Billed(q) == Followed(q, {"record"}, Linking) /\ Has(q, Linking)

\* Steps before and quiet steps after do not change that.
LEMMA BilledBoth ==
  ASSUME NEW S, NEW p \in Seq(S), NEW q \in Seq(S)
  PROVE  /\ p \o q \in Seq(S)
         /\ Billed(q) => Billed(p \o q)
         /\ Billed(p) /\ ~Has(q, {"record"}) => Billed(p \o q)
  <1>1. p \o q \in Seq(S) /\ (Has(p \o q, Linking) <=> Has(p, Linking) \/ Has(q, Linking))
    BY HasBoth
  <1>2. Billed(q) => Followed(p \o q, {"record"}, Linking)
    BY FollowedBoth DEF Billed
  <1>3. ASSUME Billed(p), ~Has(q, {"record"}) PROVE Followed(p \o q, {"record"}, Linking)
    <2>1. Followed(q, {"record"}, Linking)
      BY <1>3, FollowedNone
    <2> QED
      BY <1>3, <2>1, FollowedBoth DEF Billed
  <1> QED
    BY <1>1, <1>2, <1>3 DEF Billed

LEMMA PartnerBilled == Billed(<< <<"partner">> >>)
  <1>1. ~Has(<< <<"partner">> >>, {"record"}) /\ Has(<< <<"partner">> >>, Linking)
    <2>1. <<"partner">>[1] = "partner"
      OBVIOUS
    <2> QED
      BY <2>1, HasOne DEF Linking
  <1> QED
    BY <1>1, FollowedNone DEF Billed

\* The handler of booking.confirmed: the record, then the invoice.
LEMMA ConfirmedBilled ==
  ASSUME doc.kind = "booking", ~GiftVoucher, NEW e \in BookingEvent, NEW f \in BookingEvent,
         e.type \in {"confirmed", "link_paid", "status_success"},
         Pays(e), Charges(e), IsPaid(f), Invoiceable(f), ~Redeems(f), doc.invoicing,
         LoyaltySucceeded(f) => Credits(e), Announced(f) => Announces(e)
  PROVE  Billed(ConfirmedSteps(f))
  <1> DEFINE S == Allowed(e)
             a == CacheSteps(f)
             b == PaymentSteps(f)
             c == LoyaltySteps(f)
             d == PaidInvoiceSteps(f)
             g == NotifySteps(f)
  <1>1. a \in Seq(S) /\ b \in Seq(S) /\ c \in Seq(S) /\ d \in Seq(S) /\ g \in Seq(S)
    BY ConfirmedAllowed
  <1>2. Billed(d)
    BY PartnerBilled DEF PaidInvoiceSteps, InvoiceSteps, Trigger
  <1>3. ~Has(g, {"record"})
    <2>1. g \in {<<>>, << <<"check_sent">> >>} /\ <<"check_sent">>[1] = "check_sent"
      BY DEF NotifySteps
    <2> HIDE DEF g
    <2> QED
      BY <2>1, HasOne
  <1>4. ConfirmedSteps(f) = a \o b \o c \o d \o g
    BY DEF ConfirmedSteps
  <1> HIDE DEF S, a, b, c, d, g
  <1> DEFINE ab == a \o b
  <1>5. ab \in Seq(S)
    BY <1>1, BilledBoth
  <1> HIDE DEF ab
  <1> DEFINE abc == ab \o c
  <1>6. abc \in Seq(S)
    BY <1>1, <1>5, BilledBoth
  <1> HIDE DEF abc
  <1> DEFINE abcd == abc \o d
  <1>7. abcd \in Seq(S) /\ Billed(abcd)
    BY <1>1, <1>2, <1>6, BilledBoth
  <1> HIDE DEF abcd
  <1>8. Billed(abcd \o g)
    BY <1>1, <1>3, <1>7, BilledBoth
  <1> QED
    BY <1>4, <1>8 DEF ab, abc, abcd

\* The handlers of the events that bill.
LEMMA BillingSteps ==
  ASSUME doc.kind \in Kinds, log \in Seq(Event), NEW n \in Billing
  PROVE  /\ Billed(Steps(log[n])) /\ Steps(log[n]) \in Having(Linking)
         /\ log[n].type \notin Updates /\ log[n] \in Event
  <1> DEFINE e == log[n]
  <1>0. e \in Event /\ n \in DOMAIN log
    BY DEF Billing
  <1>1. CASE doc.kind = "order"
    <2>0. e.type = "order_created" /\ e.pay = "success" /\ doc.kind \in Sold /\ doc.invoicing
      BY <1>0, <1>1 DEF Event, SaleEvent, Billing
    <2> DEFINE a == << <<"record">> >>
               b == Phone("order", "customer")
               c == << <<"partner">> >>
    <2>1. a \in Seq(AnyStep) /\ b \in Seq(AnyStep) /\ c \in Seq(AnyStep)
      <3>1. <<"record">> \in AnyStep /\ <<"partner">> \in AnyStep
        BY PlainOps DEF AnyStep
      <3>2. "order" \in Templates /\ "customer" \in Audiences
        BY DEF Templates, Audiences
      <3>3. b \in Seq(Telling)
        BY <3>2, TellingLists
      <3> QED
        BY <3>1, <3>3, Lists, TellingLists
    <2>2. Steps(e) = a \o b \o c
      BY <2>0 DEF Steps, SaleSteps, OrderCreatedSteps, Trigger
    <2>3. Billed(c)
      BY PartnerBilled
    <2> HIDE DEF a, b, c
    <2> DEFINE ab == a \o b
    <2>4. ab \in Seq(AnyStep)
      BY <2>1, BilledBoth
    <2> HIDE DEF ab
    <2>5. Billed(ab \o c)
      BY <2>1, <2>3, <2>4, BilledBoth
    <2>6. Billed(Steps(e))
      BY <2>2, <2>5 DEF ab
    <2>7. Steps(e) \in Seq(Allowed(e)) /\ Allowed(e) \subseteq AnyStep
      BY <1>0, StepsAllowed DEF Allowed
    <2>8. Steps(e) \in Seq(AnyStep)
      BY <2>7
    <2>9. e.type \notin Updates
      BY <2>0 DEF Updates
    <2> QED
      BY <1>0, <2>6, <2>8, <2>9 DEF Billed, Having
  <1>2. CASE doc.kind = "booking"
    <2>0. /\ e \in BookingEvent /\ ~GiftVoucher /\ ~Redeems(e) /\ doc.invoicing
          /\ \/ e.type = "confirmed" /\ IsPaid(e) /\ Invoiceable(e)
             \/ Delegating(e) /\ e.type \in {"link_paid", "status_success"}
      BY <1>0, <1>2 DEF Event, Billing, Delegating
    <2> DEFINE f == [e EXCEPT !.pay = "success"]
               S == Allowed(e)
    <2>1. f \in BookingEvent /\ IsPaid(f) /\ Invoiceable(f) /\ ~Redeems(f)
      BY <2>0, AsPaid DEF Redeems
    <2> HIDE DEF f
    <2>2. ASSUME e.type = "confirmed", IsPaid(e), Invoiceable(e) PROVE Billed(Steps(e))
      <3>1. /\ Pays(e) /\ Charges(e)
            /\ (LoyaltySucceeded(e) => Credits(e)) /\ (Announced(e) => Announces(e))
        BY <2>2 DEF Pays, Charges, Credits, Announces
      <3>2. Billed(ConfirmedSteps(e))
        BY <1>2, <2>0, <2>2, <3>1, ConfirmedBilled
      <3> QED
        BY <1>2, <2>2, <3>2 DEF Steps, BookingSteps
    <2>3. ASSUME e.type \in {"link_paid", "status_success"} PROVE Billed(Steps(e))
      <3>1. Pays(e) /\ Charges(e) /\ Credits(e) /\ Announces(e)
        BY <2>3 DEF Pays, Charges, Credits, Announces, Delegating
      <3>2. Billed(ConfirmedSteps(f))
        BY <1>2, <2>0, <2>1, <2>3, <3>1, ConfirmedBilled
      <3>3. /\ ConfirmedSteps(f) \in Seq(S) /\ InvoiceSteps(e) \in Seq(S)
        BY <1>2, <2>0, <2>1, <2>3, <3>1, ConfirmedAllowed
      <3>4. ASSUME e.type = "link_paid" PROVE Billed(Steps(e))
        <4> DEFINE a == << <<"set_booking", "confirmed", "success">>, <<"pay_row">>,
                           <<"mark_paid">> >>
                   c == ConfirmedSteps(f)
        <4>1. a \in Seq(S)
          <5>1. /\ <<"set_booking", "confirmed", "success">> \in Allowed(e)
                /\ <<"pay_row">> \in Allowed(e) /\ <<"mark_paid">> \in Allowed(e)
            <6>1. {"set_booking", "pay_row", "mark_paid"} \subseteq Ops(e)
              BY <3>4 DEF Ops
            <6> QED
              BY <3>4, <6>1, OneStep, PlainOps DEF PayStatuses, WrittenBack
          <5> QED
            BY <5>1
        <4>2. Steps(e) = a \o c
          BY <1>2, <3>4 DEF Steps, BookingSteps, LinkPaidSteps, f
        <4> HIDE DEF a, c, S
        <4>3. Billed(a \o c)
          BY <3>2, <3>3, <4>1, BilledBoth DEF c
        <4> QED
          BY <4>2, <4>3
      <3>5. ASSUME e.type = "status_success" PROVE Billed(Steps(e))
        <4> DEFINE a == << <<"pay_row">> >>
                   b == IF e.full THEN InvoiceSteps(e) ELSE << <<"fetch">> >>
                   c == ConfirmedSteps(f)
        <4>1. a \in Seq(S) /\ b \in Seq(S)
          <5>1. {"pay_row", "fetch"} \subseteq Ops(e)
            BY <3>5 DEF Ops
          <5>2. <<"pay_row">> \in Allowed(e) /\ <<"fetch">> \in Allowed(e)
            BY <5>1, OneStep, PlainOps
          <5> QED
            BY <3>3, <5>2, Lists
        <4>2. Steps(e) = a \o b \o c
          BY <1>2, <3>5 DEF Steps, BookingSteps, StatusSuccessSteps, f
        <4> HIDE DEF a, b, c, S
        <4> DEFINE ab == a \o b
        <4>3. ab \in Seq(S)
          BY <4>1, BilledBoth
        <4> HIDE DEF ab
        <4>4. Billed(ab \o c)
          BY <3>2, <3>3, <4>3, BilledBoth DEF c
        <4> QED
          BY <4>2, <4>4 DEF ab
      <3> QED
        BY <2>3, <3>4, <3>5
    <2>4. Billed(Steps(e))
      BY <2>0, <2>2, <2>3
    <2>5. Steps(e) \in Seq(Allowed(e)) /\ Allowed(e) \subseteq AnyStep
      BY <1>0, StepsAllowed DEF Allowed
    <2>6. Steps(e) \in Seq(AnyStep)
      BY <2>5
    <2> QED
      BY <1>0, <2>0, <2>4, <2>6 DEF Billed, Having, Updates
  <1> QED
    BY <1>1, <1>2 DEF Billing

\* The handlers of vouchers invoice before they record; others about a sale do not record.
LEMMA VoucherFirst ==
  ASSUME doc.kind = "voucher", doc.invoicing, NEW e \in Event
  PROVE  \/ ~Has(Steps(e), {"record"})
         \/ Steps(e) # <<>> /\ Head(Steps(e))[1] = "partner"
  <1>0. doc.kind \in Sold /\ e.type \in VoucherTypes
    BY DEF Event, SaleEvent
  <1>1. CASE e.type = "voucher_active"
    <2> DEFINE m == IF e.status = "active" THEN VoucherMessageSteps ELSE <<>>
               p == << <<"partner">>, <<"record">> >>
    <2>1. Steps(e) = p \o m
      BY <1>0, <1>1 DEF Steps, SaleSteps, VoucherActiveSteps, Trigger
    <2>2. /\ \A t \in {"active"}, a \in {"sender", "recipient"} :
                 Phone(t, a) \in Seq(Telling) /\ Mail(t, a) \in Seq(Telling)
      <3>1. "active" \in Templates /\ "sender" \in Audiences /\ "recipient" \in Audiences
        BY DEF Templates, ObjectScoped, Audiences
      <3> QED
        BY <3>1, TellingLists
    <2>3. m \in Seq(Telling)
      <3>1. TellSender \in Seq(Telling)
        BY <2>2, TellingLists, Zenon DEF TellSender
      <3>2. TellRecipient \in Seq(Telling)
        BY <2>2, TellingLists, Zenon DEF TellRecipient
      <3> QED
        BY <3>1, <3>2, TellingLists, Zenon DEF VoucherMessageSteps
    <2>4. m \in Seq(AnyStep) /\ p \in Seq(AnyStep)
      <3>1. <<"record">> \in AnyStep /\ <<"partner">> \in AnyStep
        BY PlainOps DEF AnyStep
      <3> QED
        BY <2>3, <3>1, TellingLists
    <2>5. p # <<>> /\ Head(p) = <<"partner">> /\ <<"partner">>[1] = "partner"
      OBVIOUS
    <2> HIDE DEF m, p
    <2>6. p \o m # <<>> /\ Head(p \o m) = Head(p)
      BY <2>4, <2>5
    <2> QED
      BY <2>1, <2>5, <2>6
  <1>2. CASE e.type = "voucher_scheduled"
    <2>1. /\ doc.kind # "booking"
          /\ Steps(e) =
                << <<"partner">> >> \o << <<"record">>, <<"send", "scheduled", "sms", "sender">> >>
      BY <1>0, <1>2 DEF Steps, SaleSteps, VoucherScheduledSteps, Trigger
    <2> DEFINE p == << <<"partner">> >>
               m == << <<"record">>, <<"send", "scheduled", "sms", "sender">> >>
    <2>2. p # <<>> /\ Head(p) = <<"partner">> /\ <<"partner">>[1] = "partner"
      OBVIOUS
    <2>3. p \in Seq(AnyStep) /\ m \in Seq(AnyStep)
      <3>1. <<"record">> \in AnyStep /\ <<"partner">> \in AnyStep
            /\ <<"send", "scheduled", "sms", "sender">> \in AnyStep
        BY PlainOps DEF AnyStep, Templates, ObjectScoped, Channels, Audiences
      <3> QED
        BY <3>1
    <2>4. Steps(e) = p \o m
      BY <2>1
    <2> HIDE DEF p, m
    <2>5. p \o m # <<>> /\ Head(p \o m) = Head(p)
      BY <2>2, <2>3
    <2> QED
      BY <2>2, <2>4, <2>5
  <1>3. CASE e.type \notin {"voucher_active", "voucher_scheduled"}
    <2>1. "record" \notin Ops(e)
      BY <1>0, <1>3 DEF Ops, VoucherTypes
    <2>2. Steps(e) \in Seq(Allowed(e))
      BY <1>0, StepsAllowed
    <2> QED
      BY <2>1, <2>2, AllowedWithout
  <1> QED
    BY <1>1, <1>2, <1>3

\* What a call of the invoicing leaves of its slot, unless it fails.
LEMMA LinkingGoes ==
  ASSUME Common, NEW s \in Slot, slot[s].todo # <<>>, Does(s), ~Unbilled'
  PROVE  /\ Op(s) = "partner" => slot'[s] = After(s, << <<"invoice">> >>)
         /\ Op(s) = "invoice" =>
                slot'[s] = IF doc.kind = "voucher" THEN Holding(After(s, << <<"link_payments">> >>))
                           ELSE After(s, << <<"link_payments">> >>)
         /\ Op(s) = "link_payments" => remote'.linked = remote'.payments
  <1>0. /\ Typed /\ Apart /\ slot \in [Slot -> Hand(AnyStep)]
        /\ {"payments", "linked"} \subseteq DOMAIN remote
    BY DEF Common, Typed, Shaped
  <1>1. After(s, <<>>) # Idle
    <2>1. After(s, <<>>).ev = slot[s].ev
      BY <1>0, AfterIs
    <2> QED
      BY <1>0, <2>1, Working DEF Idle
  <1>2. ASSUME NEW op \in {"partner", "invoice", "link_payments"}, Op(s) = op,
               Becomes(s, After(s, <<>>)), PassOver(s, After(s, <<>>))
        PROVE  FALSE
    <2>1. op \in missed'
      BY <1>1, <1>2 DEF PassOver, Op
    <2> QED
      BY <2>1 DEF Unbilled
  <1>3. ASSUME Op(s) = "partner" PROVE slot'[s] = After(s, << <<"invoice">> >>)
    <2>1. \/ Becomes(s, After(s, << <<"invoice">> >>))
          \/ Becomes(s, After(s, <<>>)) /\ PassOver(s, After(s, <<>>))
      BY <1>3 DEF Does, EnsurePartner, Call
    <2> QED
      BY <1>0, <1>2, <1>3, <2>1 DEF Becomes
  <1>5. ASSUME Op(s) = "invoice"
        PROVE  slot'[s] = IF doc.kind = "voucher"
                          THEN Holding(After(s, << <<"link_payments">> >>))
                          ELSE After(s, << <<"link_payments">> >>)
    <2>1. \/ Becomes(s, IF doc.kind = "voucher" THEN Holding(After(s, << <<"link_payments">> >>))
                        ELSE After(s, << <<"link_payments">> >>))
          \/ Becomes(s, After(s, <<>>)) /\ PassOver(s, After(s, <<>>))
      BY <1>5 DEF Does, CreateInvoice, Call
    <2> QED
      BY <1>0, <1>2, <1>5, <2>1 DEF Becomes
  <1>6. ASSUME Op(s) = "link_payments" PROVE remote'.linked = remote'.payments
    <2>1. \/ remote' = LinkAll(remote) \/ remote' = LinkAll(LinkAll(remote))
          \/ Becomes(s, After(s, <<>>)) /\ PassOver(s, After(s, <<>>))
      BY <1>6 DEF Does, LinkPayments, Call
    <2> QED
      BY <1>0, <1>2, <1>6, <2>1, Linked
  <1> QED
    BY <1>3, <1>5, <1>6

\* What a step leaves alone: the events, and whether a call of the invoicing has failed.
LEMMA RecordFrame ==
  ASSUME Common, NEW s \in Slot, Step(s)
  PROVE  /\ doc' = doc /\ log' = log /\ Billing' = Billing /\ (Deferred' <=> Deferred)
         /\ Unbilled => Unbilled'
         /\ slot' = [slot EXCEPT ![s] = slot'[s]]
         /\ \/ remote' = remote /\ ~(slot[s].todo # <<>> /\ Does(s))
            \/ slot[s].todo # <<>> /\ Does(s)
  <1>0. Typed /\ Apart /\ doc.kind \in Kinds /\ slot \in [Slot -> Hand(AnyStep)]
    BY DEF Common, Typed, Shaped
  <1>1. doc' = doc /\ log' = log /\ missed \subseteq missed'
    <2>1. slot[s].todo # <<>> /\ Does(s) => doc' = doc /\ log' = log /\ missed \subseteq missed'
      BY <1>0, OperationMoves DEF Moves, Framed
    <2> QED
      BY <1>0, <2>1, StepCases DEF End, Crash, Starts
  <1>2. Billing' = Billing /\ (Deferred' <=> Deferred)
    BY <1>1 DEF Billing, Deferred, RecordedOnly, Confirming, Charging, Delegated, Logged,
       GiftVoucher, Redeems
  <1>3. Unbilled => Unbilled'
    BY <1>1 DEF Unbilled
  <1>4. slot' = [slot EXCEPT ![s] = slot'[s]]
    <2>1. PICK l : SlotForm(s, l)
      BY <1>0, SlotForms
    <2> QED
      BY <1>0, <2>1 DEF SlotForm
  <1>5. remote' = remote \/ (slot[s].todo # <<>> /\ Does(s))
    BY <1>0, StepCases DEF End, Crash, Starts
  <1> QED
    BY <1>1, <1>2, <1>3, <1>4, <1>5

\* A step of a handler: the number is still to come before the records, or after them.
LEMMA NumberedGoes ==
  ASSUME Common, NEW s \in Slot, Step(s), slot[s].todo # <<>>, Does(s), ~Unbilled', Numbered(s)
  PROVE  Numbered(s)'
  <1> DEFINE q == slot[s].todo
             S == Allowed(Ev(s))
  <1>0. Typed /\ Apart /\ slot \in [Slot -> Hand(AnyStep)] /\ doc' = doc /\ Billing' = Billing
    BY RecordFrame DEF Common, Typed
  <1>1. q \in Seq(S) /\ q # <<>> /\ Tail(q) \in Seq(S)
    BY <1>0, Working
  <1>2. ASSUME slot'[s].todo = <<>> PROVE Numbered(s)'
    <2>1. ~Has(<<>>, {"record"}) /\ Followed(<<>>, {"record"}, Linking)
      BY HasOne, FollowedNone
    <2> QED
      BY <1>2, <2>1, Zenon DEF Numbered
  <1>3. ASSUME NEW then \in Follows(s), Goes(s, then) PROVE Numbered(s)'
    <2>1. /\ slot'[s].ev = slot[s].ev /\ slot'[s].todo = then \o Tail(q)
          /\ slot[s].got => slot'[s].got
      BY <1>0, <1>3 DEF Goes, Becomes
    <2>2. then \in Seq(S) /\ ~Has(then, {"record"})
      BY <1>0, FollowsAllowed, FollowsOnce DEF Singles
    <2>3. Has(then \o Tail(q), {"record"}) => Has(q, {"record"})
      <3> HIDE DEF q, S
      <3> QED
        BY <1>1, <2>2, HasBoth, HasRest
    <2>4. slot[s].ev \in Billing => Followed(then \o Tail(q), {"record"}, Linking)
      <3>1. ASSUME slot[s].ev \in Billing PROVE Followed(q, {"record"}, Linking)
        BY <3>1 DEF Numbered
      <3> HIDE DEF q, S
      <3>2. Followed(then, {"record"}, Linking)
        BY <2>2, FollowedNone
      <3>3. ASSUME slot[s].ev \in Billing PROVE Followed(Tail(q), {"record"}, Linking)
        BY <1>1, <3>1, <3>3, FollowedRest
      <3> QED
        BY <1>1, <2>2, <3>2, <3>3, FollowedBoth
    <2>5. ASSUME doc.kind = "voucher", doc.invoicing
          PROVE  \/ slot'[s].got
                 \/ ~Has(slot'[s].todo, {"record"})
                 \/ slot'[s].todo # <<>> /\ Head(slot'[s].todo)[1] \in {"partner", "invoice"}
      <3>1. CASE slot[s].got
        BY <2>1, <3>1
      <3>2. CASE ~Has(q, {"record"})
        BY <2>1, <2>3, <3>2
      <3>3. CASE Op(s) = "partner"
        <4>1. slot'[s] = After(s, << <<"invoice">> >>)
          BY <3>3, LinkingGoes
        <4>2. slot'[s].todo = << <<"invoice">> >> \o Tail(q)
          <5>1. \A p : After(s, p).todo = p \o Tail(slot[s].todo)
            BY <1>0, AfterIs
          <5> QED
            BY <4>1, <5>1
        <4>3. << <<"invoice">> >> \in Seq({<<"invoice">>} \cup S) /\ Tail(q) \in Seq({<<"invoice">>} \cup S)
          BY <1>1
        <4> HIDE DEF q, S
        <4>4. /\ << <<"invoice">> >> \o Tail(q) # <<>>
              /\ Head(<< <<"invoice">> >> \o Tail(q)) = <<"invoice">>
          BY <4>3
        <4> QED
          BY <4>2, <4>4
      <3>4. CASE Op(s) = "invoice"
        <4>1. slot'[s] = Holding(After(s, << <<"link_payments">> >>))
          BY <2>5, <3>4, LinkingGoes
        <4>2. slot'[s].got
          BY <1>0, <4>1, AfterIs
        <4> QED
          BY <4>2
      <3> QED
        BY <2>5, <3>1, <3>2, <3>3, <3>4 DEF Numbered
    <2> QED
      BY <1>0, <2>1, <2>4, <2>5 DEF Numbered, Op
  <1>4. Moves(s)
    BY <1>0, OperationMoves
  <1>5. ASSUME Raises(s) PROVE slot'[s].todo = <<>>
    BY <1>0, <1>5 DEF Raises, Becomes, Idle
  <1>6. ASSUME Stops(s) PROVE slot'[s].todo = <<>>
    BY <1>0, <1>6 DEF Stops, Becomes, Hand
  <1> QED
    BY <1>2, <1>3, <1>4, <1>5, <1>6 DEF Moves

\* A step of a slot.
LEMMA NumberedStep ==
  ASSUME Common, NEW s \in Slot, Step(s), ~Unbilled', \A t \in Slot : Numbered(t)
  PROVE  \A t \in Slot : Numbered(t)'
  <1>0. /\ Typed /\ Apart /\ doc.kind \in Kinds /\ slot \in [Slot -> Hand(AnyStep)]
        /\ log \in Seq(Event) /\ queue \subseteq DOMAIN log
        /\ doc' = doc /\ Billing' = Billing /\ slot' = [slot EXCEPT ![s] = slot'[s]]
    BY RecordFrame DEF Common, Typed, Shaped
  <1>1. ASSUME NEW t \in Slot, t # s PROVE Numbered(t)'
    <2>1. slot'[t] = slot[t]
      BY <1>0, <1>1
    <2> QED
      BY <1>0, <2>1 DEF Numbered, Op
  <1>2. ASSUME slot'[s] = Idle PROVE Numbered(s)'
    <2>1. ~Has(<<>>, {"record"}) /\ Followed(<<>>, {"record"}, Linking) /\ Idle.todo = <<>>
      BY HasOne, FollowedNone DEF Idle
    <2> QED
      BY <1>2, <2>1, Zenon DEF Numbered
  <1>3. ASSUME NEW n \in queue, Starts(s, n) PROVE Numbered(s)'
    <2>1. slot'[s] = [Idle EXCEPT !.ev = n, !.todo = Steps(log[n])]
      BY <1>0, <1>3 DEF Starts, Becomes
    <2>2. slot'[s].ev = n /\ slot'[s].todo = Steps(log[n]) /\ log[n] \in Event
      BY <1>0, <2>1 DEF Idle
    <2>3. n \in Billing => Followed(Steps(log[n]), {"record"}, Linking)
      BY <1>0, BillingSteps DEF Billed
    <2>4. doc.kind = "voucher" /\ doc.invoicing =>
              \/ ~Has(Steps(log[n]), {"record"})
              \/ Steps(log[n]) # <<>> /\ Head(Steps(log[n]))[1] = "partner"
      BY <2>2, VoucherFirst
    <2> QED
      BY <1>0, <2>2, <2>3, <2>4 DEF Numbered, Op
  <1>4. ASSUME slot[s].todo # <<>>, Does(s) PROVE Numbered(s)'
    BY <1>4, NumberedGoes
  <1>5. End(s) \/ Crash(s) => slot'[s] = Idle
    BY <1>0 DEF End, Crash, Becomes
  <1>6. Numbered(s)'
    BY <1>0, <1>2, <1>3, <1>4, <1>5, StepCases
  <1> QED
    BY <1>1, <1>6

\* The handler of an event that bills keeps a step that leads to the number, until it links.
LEMMA BillingLasts ==
  ASSUME Common, NEW s \in Slot, Step(s), ~Unbilled', NEW n \in Billing \cap Awaiting(Having(Linking)),
         slot[s].todo # <<>> /\ Does(s) => Op(s) # "link_payments"
  PROVE  n \in Awaiting(Having(Linking))'
  <1>0. /\ Typed /\ Apart /\ doc.kind \in Kinds /\ slot \in [Slot -> Hand(AnyStep)]
        /\ log \in Seq(Event)
    BY DEF Common, Typed, Shaped
  <1>1. Steps(log[n]) \in Having(Linking) /\ log[n].type \notin Updates
    BY <1>0, BillingSteps
  <1>2. <<>> \notin Having(Linking)
    BY HasOne DEF Having
  <1>3. ASSUME slot[s].todo # <<>>, Does(s), slot[s].ev = n, slot[s].todo \in Having(Linking),
               slot'[s] # Idle
        PROVE  slot'[s].todo \in Having(Linking)
    <2>1. CASE Op(s) \notin Linking
      <3>1. Ev(s).type \notin Updates
        BY <1>1, <1>3 DEF Ev
      <3> QED
        BY <1>3, <2>1, <3>1, StillHaving
    <2>2. CASE Op(s) \in {"partner", "invoice"}
      <3>2. \E op \in {<<"invoice">>, <<"link_payments">>} :
                slot'[s].todo = <<op>> \o Tail(slot[s].todo)
        <4>1. \A then : /\ After(s, then).todo = then \o Tail(slot[s].todo)
                        /\ Holding(After(s, then)).todo = then \o Tail(slot[s].todo)
          BY <1>0, <1>3, AfterIs
        <4> QED
          BY <1>3, <2>2, <4>1, LinkingGoes
      <3>3. PICK op \in {<<"invoice">>, <<"link_payments">>} :
                slot'[s].todo = <<op>> \o Tail(slot[s].todo)
        BY <3>2
      <3>4. op \in AnyStep /\ op[1] \in Linking
        BY PlainOps DEF AnyStep, Linking
      <3>5. Tail(slot[s].todo) \in Seq(AnyStep)
        BY <1>0, <1>3 DEF Hand
      <3>6. <<op>> \in Seq(AnyStep) /\ Has(<<op>>, Linking)
        BY <3>4, HasOne
      <3>7. /\ <<op>> \o Tail(slot[s].todo) \in Seq(AnyStep)
            /\ Has(<<op>> \o Tail(slot[s].todo), Linking)
        <4> DEFINE p == <<op>>
                   q == Tail(slot[s].todo)
        <4>1. p \in Seq(AnyStep) /\ q \in Seq(AnyStep) /\ Has(p, Linking)
          BY <3>5, <3>6
        <4> HIDE DEF p, q
        <4>2. p \o q \in Seq(AnyStep) /\ Has(p \o q, Linking)
          BY <4>1, HasBoth
        <4> QED
          BY <4>2 DEF p, q
      <3> QED
        BY <3>3, <3>7 DEF Having
    <2> QED
      BY <1>3, <2>1, <2>2 DEF Linking
  <1> QED
    BY <1>1, <1>2, <1>3, AwaitingLasts

\* Nothing is recorded for gifts and accounts.
LEMMA NeverRecorded ==
  ASSUME doc.kind \in {"gift", "account"}, NEW e \in Event
  PROVE  "record" \notin Ops(e)
  <1>1. e.type \in GiftTypes \cup Notices \cup {"sms_send"}
    BY DEF Event, SaleEvent, SomeNotice
  <1> QED
    BY <1>1 DEF Ops, GiftTypes, Notices

\* A step of a slot.
LEMMA RecordStep ==
  ASSUME Common, RecordInv, NEW s \in Slot, Step(s)
  PROVE  RecordInv'
  <1>0. /\ Typed /\ Apart /\ doc.kind \in Kinds /\ slot \in [Slot -> Hand(AnyStep)]
        /\ {"payments", "linked"} \subseteq DOMAIN remote
        /\ remote.payments \in Nat /\ remote.linked \in 0..remote.payments
        /\ log \in Seq(Event) /\ queue \subseteq DOMAIN log
    BY DEF Common, Typed, Shaped
  <1>1. /\ doc' = doc /\ log' = log /\ Billing' = Billing /\ (Deferred' <=> Deferred)
        /\ Unbilled => Unbilled'
        /\ slot' = [slot EXCEPT ![s] = slot'[s]]
        /\ \/ remote' = remote /\ ~(slot[s].todo # <<>> /\ Does(s))
           \/ slot[s].todo # <<>> /\ Does(s)
    BY RecordFrame
  <1>2. ASSUME slot[s].todo # <<>>, Does(s)
        PROVE  /\ Op(s) \in Ops(Ev(s)) /\ Ev(s) \in Event /\ slot[s].ev \in DOMAIN log
               /\ Agree(remote, remote', Touches(Op(s)))
    BY <1>0, <1>2, Working, StepIs, OperationMoves DEF Op, Moves, Framed
  <1>3. ASSUME doc.kind = "order" PROVE remote'.status = remote.status /\ remote'.paid = remote.paid
    <2>1. CASE slot[s].todo # <<>> /\ Does(s)
      <3>1. Ev(s).type = "order_created"
        BY <1>2, <1>3, <2>1 DEF Event, SaleEvent
      <3>2. Op(s) \in {"record", "send"} \cup Invoicing
        BY <1>2, <2>1, <3>1 DEF Ops
      <3>3. {"status", "paid"} \subseteq DOMAIN remote \ Touches(Op(s))
        BY <1>0, <1>3, <3>2 DEF Typed, Shaped, Touches, Sold, SaleFields
      <3> QED
        BY <1>2, <2>1, <3>3 DEF Agree
    <2> QED
      BY <1>1, <2>1
  <1>4. ASSUME doc.kind \in {"gift", "account"} PROVE remote'.payments = remote.payments
    <2>1. CASE slot[s].todo # <<>> /\ Does(s)
      <3>1. Op(s) # "record"
        BY <1>2, <1>4, <2>1, NeverRecorded
      <3>2. "payments" \in DOMAIN remote \ Touches(Op(s))
        BY <1>0, <3>1 DEF Touches
      <3> QED
        BY <1>2, <2>1, <3>2 DEF Agree
    <2> QED
      BY <1>1, <2>1
  <1>5. Unbilled' \/ \A t \in Slot : Numbered(t)'
    BY <1>1, NumberedStep DEF RecordInv
  <1>6. ASSUME ~Unbilled', ~Deferred, remote.linked = remote.payments
        PROVE  remote'.linked = remote'.payments \/ Billing \cap Awaiting(Having(Linking))' # {}
    <2>1. CASE ~(slot[s].todo # <<>> /\ Does(s))
      BY <1>1, <1>6, <2>1
    <2>2. CASE slot[s].todo # <<>> /\ Does(s) /\ Op(s) \notin {"record", "link_payments"}
      <3>1. {"payments", "linked"} \subseteq DOMAIN remote \ Touches(Op(s))
        BY <1>0, <2>2 DEF Touches
      <3> QED
        BY <1>2, <1>6, <2>2, <3>1 DEF Agree
    <2>3. CASE slot[s].todo # <<>> /\ Does(s) /\ Op(s) = "link_payments"
      BY <1>6, <2>3, LinkingGoes
    <2>4. CASE slot[s].todo # <<>> /\ Does(s) /\ Op(s) = "record"
      <3>0. RecordPayment(s) /\ Numbered(s)
        BY <1>1, <1>6, <2>4 DEF Does, RecordInv
      <3>1. CASE doc.kind = "voucher"
        <4>1. slot[s].got
          <5>1. Has(slot[s].todo, {"record"})
            <6>1. slot[s].todo \in Seq(AnyStep)
              BY <1>0 DEF Hand
            <6> QED
              BY <2>4, <6>1, HasRest DEF Op
          <5>2. doc.invoicing
            BY <1>6 DEF Deferred
          <5> QED
            BY <2>4, <3>0, <3>1, <5>1, <5>2 DEF Numbered
        <4>2. \/ remote' = AddPayment(TRUE, remote) \/ remote' = remote
              \/ remote' = AddPayment(TRUE, AddPayment(TRUE, remote))
          BY <3>0, <4>1 DEF RecordPayment, Call
        <4>3. \A r : {"payments", "linked"} \subseteq DOMAIN r =>
                  /\ {"payments", "linked"} \subseteq DOMAIN AddPayment(TRUE, r)
                  /\ AddPayment(TRUE, r).payments = r.payments + 1
                  /\ AddPayment(TRUE, r).linked = r.linked + 1
          BY DEF AddPayment
        <4> QED
          BY <1>0, <1>6, <4>2, <4>3
      <3>2. CASE doc.kind # "voucher"
        <4>1. slot[s].ev \in Billing
          <5>1. CASE doc.kind = "order"
            BY <1>2, <1>6, <2>4, <5>1 DEF Deferred, Billing
          <5>2. CASE doc.kind = "booking"
            <6> DEFINE e == log[slot[s].ev]
            <6>1. /\ e \in BookingEvent /\ "record" \in Ops(e) /\ slot[s].ev \in DOMAIN log
                  /\ RecordedOnly = {} /\ doc.invoicing
              BY <1>2, <1>6, <2>4, <5>2 DEF Deferred, Ev, Event
            <6>2. Pays(e) /\ ~GiftVoucher /\ (e.type = "confirmed" \/ Delegating(e))
              <7> HIDE DEF e
              <7> QED
                BY <5>2, <6>1 DEF Ops, BookingEvent, BookingTypes, Delegating
            <6>3. slot[s].ev \in Confirming
              BY <6>1, <6>2 DEF Confirming, Delegated, Delegating, Logged, Pays
            <6>4. ~Redeems(e) /\ slot[s].ev \in Charging
              BY <6>1, <6>2, <6>3 DEF RecordedOnly
            <6>5. Delegating(e) \/ (e.type = "confirmed" /\ Invoiceable(e) /\ IsPaid(e))
              BY <6>2, <6>4 DEF Charging, Delegated, Delegating, Logged, Pays
            <6> QED
              BY <5>2, <6>1, <6>2, <6>4, <6>5 DEF Billing
          <5>3. CASE doc.kind \in {"gift", "account"}
            BY <1>2, <2>4, <5>3, NeverRecorded
          <5> QED
            BY <1>0, <3>2, <5>1, <5>2, <5>3
        <4>2. slot[s].todo \in Seq(AnyStep) /\ Tail(slot[s].todo) \in Seq(AnyStep)
          BY <1>0, <2>4 DEF Hand
        <4>3. Has(Tail(slot[s].todo), Linking)
          BY <2>4, <3>0, <4>1, <4>2, FollowedRest DEF Numbered, Op
        <4>4. slot'[s] = After(s, <<>>)
          BY <1>0, <3>0 DEF RecordPayment, Call, Becomes
        <4>5. slot'[s].ev = slot[s].ev /\ slot'[s].todo = Tail(slot[s].todo)
          <5>1. <<>> \o Tail(slot[s].todo) = Tail(slot[s].todo)
            BY <4>2
          <5>2. /\ After(s, <<>>).ev = slot[s].ev
                /\ After(s, <<>>).todo = <<>> \o Tail(slot[s].todo)
            BY <1>0, <2>4, AfterIs
          <5> QED
            BY <4>4, <5>1, <5>2
        <4>6. PICK l : SlotForm(s, l)
          BY <1>0, SlotForms
        <4>7. slot'[s] = l
          BY <1>0, <4>6 DEF SlotForm
        <4>8. slot'[s] # Idle
          BY <1>0, <2>4, <4>5, Working DEF Idle
        <4>9. slot[s].ev \in Awaiting(Having(Linking))'
          BY <1>0, <4>2, <4>3, <4>5, <4>6, <4>7, <4>8, AwaitingMoves DEF Having
        <4> QED
          BY <4>1, <4>9
      <3> QED
        BY <3>1, <3>2
    <2> QED
      BY <2>1, <2>2, <2>3, <2>4
  <1>7. ASSUME ~Unbilled', NEW n \in Billing \cap Awaiting(Having(Linking))
        PROVE  remote'.linked = remote'.payments \/ Billing \cap Awaiting(Having(Linking))' # {}
    <2>1. CASE slot[s].todo # <<>> /\ Does(s) /\ Op(s) = "link_payments"
      BY <1>7, <2>1, LinkingGoes
    <2>2. CASE ~(slot[s].todo # <<>> /\ Does(s) /\ Op(s) = "link_payments")
      <3>1. n \in Awaiting(Having(Linking))'
        BY <1>7, <2>2, BillingLasts
      <3> QED
        BY <3>1
    <2> QED
      BY <2>1, <2>2
  <1>8. \/ Unbilled' \/ Deferred' \/ remote'.linked = remote'.payments
        \/ (Billing \cap Awaiting(Having(Linking)))' # {}
    BY <1>1, <1>6, <1>7 DEF RecordInv
  <1> QED
    BY <1>1, <1>3, <1>4, <1>5, <1>8 DEF RecordInv

\* What is published changes neither the records nor the steps.
LEMMA RecordHappen ==
  ASSUME Common, RecordInv, Happen, doc' = doc
  PROVE  RecordInv'
  <1>0. /\ Typed /\ Apart /\ doc.kind \in Kinds /\ log \in Seq(Event)
        /\ queue \subseteq DOMAIN log /\ 0 \notin DOMAIN log
        /\ {"payments", "linked"} \subseteq DOMAIN remote
    BY LenProperties DEF Common, Typed, Shaped
  <1>1. PICK e \in Event : /\ Publish(e) /\ Agree(remote, remote', Changes)
                           /\ doc.kind \in Sold => SaleNews(e)
    BY <1>0, HappenPublishes
  <1>2. /\ DOMAIN log' = DOMAIN log \cup {Len(log) + 1} /\ log'[Len(log) + 1] = e
        /\ \A n \in DOMAIN log : log'[n] = log[n]
    BY <1>0, <1>1, PublishApart
  <1>3. slot' = slot /\ (Unbilled' <=> Unbilled)
    BY <1>1 DEF Publish, Unbilled
  <1>4. Billing \subseteq Billing' /\ Billing' \cap DOMAIN log \subseteq Billing
    BY <1>2 DEF Billing, GiftVoucher, Redeems
  <1>5. Deferred => Deferred'
    BY <1>2 DEF Deferred, RecordedOnly, Confirming, Charging, Delegated, Logged, GiftVoucher,
       Redeems
  <1>6. Awaiting(Having(Linking))' = Awaiting(Having(Linking)) \cup {Len(log) + 1}
    BY <1>0, <1>1, AwaitingPublished
  <1>7. remote'.payments = remote.payments /\ remote'.linked = remote.linked
    BY <1>0, <1>1 DEF Agree, Changes
  <1>8. ASSUME doc.kind = "order"
        PROVE  /\ remote'.status = "new" => ~remote'.paid
               /\ \A n \in DOMAIN log' :
                      remote'.status # "new" /\ (remote'.paid <=> log'[n].pay = "success")
    <2>1. /\ remote.status = "new" /\ remote'.status # "new"
          /\ remote'.paid <=> remote.paid \/ e.pay = "success"
      BY <1>1, <1>8 DEF SaleNews, Sold
    <2>2. ~remote.paid /\ DOMAIN log = {}
      BY <1>8, <2>1 DEF RecordInv
    <2> QED
      BY <1>2, <2>1, <2>2
  <1>9. ASSUME NEW t \in Slot, Numbered(t) PROVE Numbered(t)'
    <2>1. slot[t].ev \in Billing' => slot[t].ev \in Billing
      <3>1. slot[t] = Idle \/ slot[t].ev \in queue
        BY <1>0 DEF Apart
      <3>2. Idle.ev = 0 /\ 0 \notin Billing'
        <4>1. Len(log) \in Nat
          BY <1>0
        <4> QED
          BY <1>0, <1>2, <4>1 DEF Idle, Billing
      <3> QED
        BY <1>0, <1>4, <3>1, <3>2
    <2> QED
      BY <1>3, <1>9, <2>1 DEF Numbered, Op
  <1> QED
    BY <1>3, <1>4, <1>5, <1>6, <1>7, <1>8, <1>9 DEF RecordInv

\* Every step.
LEMMA RecordNext == Common /\ RecordInv /\ [Next]_vars => RecordInv'
  <1> SUFFICES ASSUME Common, RecordInv, [Next]_vars PROVE RecordInv'
    OBVIOUS
  <1>1. doc' = doc
    BY NextLasting DEF Common, Typed, Lasting
  <1>2. CASE UNCHANGED vars
    <2>1. /\ Awaiting(Having(Linking))' = Awaiting(Having(Linking)) /\ Billing' = Billing
          /\ (Unbilled' <=> Unbilled) /\ (Deferred' <=> Deferred)
      BY <1>2 DEF vars, Awaiting, Billing, GiftVoucher, Redeems, Unbilled, Deferred, RecordedOnly,
         Confirming, Charging, Delegated, Logged
    <2>2. \A s \in Slot : Numbered(s)' <=> Numbered(s)
      BY <1>2, <2>1 DEF vars, Numbered, Op
    <2>3. remote' = remote /\ log' = log /\ doc' = doc
      BY <1>2 DEF vars
    <2> QED
      BY <2>1, <2>2, <2>3 DEF RecordInv
  <1> QED
    BY <1>1, <1>2, RecordStep, RecordHappen DEF Next

\* When all deliveries are done, every payment record of something paid carries an invoice
\* number, where invoicing is configured, unless a call of the invoicing failed or an event was
\* one of those whose payment is recorded only.
THEOREM Records == Spec => []RecordsInvoiced
  <1>1. Init => RecordInv
    <2> SUFFICES ASSUME Init PROVE RecordInv
      OBVIOUS
    <2>0. log = <<>> /\ slot = [s \in Slot |-> Idle] /\ doc.kind \in Kinds
      BY DocumentsAssumption DEF Init, InitDelivery
    <2>1. /\ remote.payments = 0 /\ remote.linked = 0
          /\ doc.kind = "order" => ~remote.paid
      BY <2>0 DEF Init, NewSale, NewAccount, NewBooking, CancelledBooking
    <2>2. DOMAIN log = {}
      BY <2>0
    <2>3. \A s \in Slot : Numbered(s)
      <3>1. ~Has(<<>>, {"record"}) /\ Followed(<<>>, {"record"}, Linking) /\ Idle.todo = <<>>
        BY HasOne, FollowedNone DEF Idle
      <3> QED
        BY <2>0, <3>1, Zenon DEF Numbered
    <2> QED
      BY <2>1, <2>2, <2>3 DEF RecordInv
  <1>2. Common /\ RecordInv => RecordsInvoiced
    <2> SUFFICES ASSUME Common, RecordInv, Quiescent, remote.paid, ~Unbilled, doc.invoicing,
                        doc.kind = "booking" => RecordedOnly = {}
                 PROVE  remote.linked = remote.payments
      BY DEF RecordsInvoiced, Unbilled
    <2>1. Awaiting(Having(Linking)) = {}
      BY DEF Quiescent, Awaiting
    <2>2. ~Deferred
      BY DEF Deferred, RecordInv
    <2> QED
      BY <2>1, <2>2 DEF RecordInv
  <1>3. Init => Common
    BY CommonInit
  <1>4. Common /\ RecordInv /\ [Next]_vars => (Common /\ RecordInv)'
    BY CommonNext, RecordNext
  <1> QED
    BY <1>1, <1>2, <1>3, <1>4, PTL DEF Spec

-----------------------------------------------------------------------------
(* The confirmation of a booking.                                          *)

\* Nothing is sent, and what is sent is looked up last.
Speech == {"send", "check_sent"}
Ends(q) ==
    /\ ~Has(q, {"send"})
    /\ \A i \in DOMAIN q : q[i][1] = "check_sent" => i = Len(q)

\* Such a list after steps that say nothing, and without its first step.
LEMMA EndsBoth ==
  ASSUME NEW S, NEW p \in Seq(S), NEW q \in Seq(S), ~Has(p, Speech), Ends(q)
  PROVE  p \o q \in Seq(S) /\ Ends(p \o q)
  <1>1. /\ Len(p) \in Nat /\ Len(q) \in Nat /\ DOMAIN p = 1..Len(p) /\ DOMAIN q = 1..Len(q)
        /\ p \o q \in Seq(S) /\ Len(p \o q) = Len(p) + Len(q)
        /\ DOMAIN (p \o q) = 1..(Len(p) + Len(q))
        /\ \A i \in 1..(Len(p) + Len(q)) :
               (p \o q)[i] = IF i <= Len(p) THEN p[i] ELSE q[i - Len(p)]
    BY LenProperties
  <1>2. ~Has(p \o q, {"send"})
    <2>1. ~Has(p, {"send"}) /\ ~Has(q, {"send"})
      BY DEF Has, Speech, Ends
    <2> QED
      BY <2>1, HasBoth
  <1>3. ASSUME NEW i \in DOMAIN (p \o q), (p \o q)[i][1] = "check_sent"
        PROVE  i = Len(p \o q)
    <2>1. CASE i <= Len(p)
      BY <1>1, <1>3, <2>1 DEF Has, Speech
    <2>2. CASE i > Len(p)
      <3>1. i - Len(p) \in DOMAIN q /\ q[i - Len(p)][1] = "check_sent"
        BY <1>1, <1>3, <2>2
      <3>2. i - Len(p) = Len(q)
        BY <3>1 DEF Ends
      <3>3. i \in Int /\ Len(p) \in Int /\ Len(q) \in Int
        BY <1>1
      <3>4. \A x, y, z \in Int : x - y = z => x = y + z
        OBVIOUS
      <3>5. i = Len(p) + Len(q)
        BY <3>2, <3>3, <3>4, Zenon
      <3> QED
        BY <1>1, <3>5, Zenon
    <2> QED
      BY <1>1, <2>1, <2>2
  <1> QED
    BY <1>1, <1>2, <1>3 DEF Ends

LEMMA EndsRest ==
  ASSUME NEW S, NEW q \in Seq(S), q # <<>>, Ends(q)
  PROVE  /\ Ends(Tail(q)) /\ Head(q)[1] # "send"
         /\ Head(q)[1] = "check_sent" => Tail(q) = <<>>
  <1>1. /\ Len(q) \in Nat \ {0} /\ DOMAIN q = 1..Len(q) /\ Head(q) = q[1] /\ 1 \in DOMAIN q
        /\ Tail(q) \in Seq(S) /\ Len(Tail(q)) = Len(q) - 1 /\ DOMAIN Tail(q) = 1..(Len(q) - 1)
        /\ \A i \in 1..(Len(q) - 1) : Tail(q)[i] = q[i + 1] /\ i + 1 \in DOMAIN q
    BY LenProperties
  <1>2. Head(q)[1] # "send" /\ ~Has(Tail(q), {"send"})
    <2>1. Has(q, {"send"}) <=> Head(q)[1] \in {"send"} \/ Has(Tail(q), {"send"})
      BY HasRest
    <2> QED
      BY <2>1 DEF Ends
  <1>3. ASSUME NEW i \in DOMAIN Tail(q), Tail(q)[i][1] = "check_sent" PROVE i = Len(Tail(q))
    <2>1. i + 1 = Len(q)
      BY <1>1, <1>3 DEF Ends
    <2> QED
      BY <1>1, <2>1
  <1>4. ASSUME Head(q)[1] = "check_sent" PROVE Tail(q) = <<>>
    <2>1. 1 = Len(q)
      BY <1>1, <1>4 DEF Ends
    <2>2. Len(Tail(q)) = 0
      BY <1>1, <2>1
    <2> QED
      BY <1>1, <2>2, EmptySeq
  <1> QED
    BY <1>2, <1>3, <1>4 DEF Ends

LEMMA EndsOne == Ends(<<>>) /\ Ends(<< <<"check_sent">> >>)
  <1>1. ~Has(<<>>, {"send"}) /\ ~Has(<< <<"check_sent">> >>, {"send"})
    <2>1. <<"check_sent">>[1] = "check_sent"
      OBVIOUS
    <2> QED
      BY <2>1, HasOne
  <1> QED
    BY <1>1 DEF Ends

\* The handlers that confirm a booking send when they have looked up what was sent.
Confirms == {"confirmed", "link_paid", "status_success"}
LEMMA ConfirmedEnds ==
  ASSUME doc.kind = "booking", NEW e \in BookingEvent, NEW f \in BookingEvent,
         e.type \in Confirms,
         IsPaid(f) => Pays(e), Invoiceable(f) => Charges(e),
         LoyaltySucceeded(f) => Credits(e), Announced(f) => Announces(e)
  PROVE  Ends(ConfirmedSteps(f))
  <1> DEFINE S == Allowed(e)
             a == CacheSteps(f)
             b == PaymentSteps(f)
             c == LoyaltySteps(f)
             d == PaidInvoiceSteps(f)
             g == NotifySteps(f)
  <1>1. a \in Seq(S) /\ b \in Seq(S) /\ c \in Seq(S) /\ d \in Seq(S) /\ g \in Seq(S)
    BY ConfirmedAllowed DEF Confirms
  <1>2. ~Has(a, Speech)
    <2>1. a = << <<"put_row", "confirmed", CachePay(f)>> >>
      BY DEF CacheSteps
    <2>2. <<"put_row", "confirmed", CachePay(f)>>[1] = "put_row"
      OBVIOUS
    <2> HIDE DEF a
    <2> QED
      BY <2>1, <2>2, HasOne DEF Speech
  <1>3. ~Has(b, Speech) /\ ~Has(c, Speech) /\ ~Has(d, Speech)
    <2>1. /\ b = <<>> \/ b = << <<"record">> >>
          /\ c = <<>> \/ c = << <<"credit">> >>
          /\ d = <<>> \/ d = << <<"partner">> >>
      BY InvoiceList DEF PaymentSteps, LoyaltySteps
    <2>2. \A op \in {"record", "credit", "partner"} : <<op>>[1] = op /\ ~Has(<< <<op>> >>, Speech)
      BY HasOne DEF Speech
    <2>3. ~Has(<<>>, Speech)
      BY HasOne
    <2> HIDE DEF b, c, d
    <2> QED
      BY <2>1, <2>2, <2>3
  <1>4. Ends(g)
    BY EndsOne DEF NotifySteps
  <1>5. ConfirmedSteps(f) = a \o b \o c \o d \o g
    BY DEF ConfirmedSteps
  <1> HIDE DEF S, a, b, c, d, g
  <1> DEFINE ab == a \o b
  <1>6. ab \in Seq(S) /\ ~Has(ab, Speech)
    BY <1>1, <1>2, <1>3, HasBoth
  <1> HIDE DEF ab
  <1> DEFINE abc == ab \o c
  <1>7. abc \in Seq(S) /\ ~Has(abc, Speech)
    BY <1>1, <1>3, <1>6, HasBoth
  <1> HIDE DEF abc
  <1> DEFINE abcd == abc \o d
  <1>8. abcd \in Seq(S) /\ ~Has(abcd, Speech)
    BY <1>1, <1>3, <1>7, HasBoth
  <1> HIDE DEF abcd
  <1>9. Ends(abcd \o g)
    BY <1>1, <1>4, <1>8, EndsBoth
  <1> QED
    BY <1>5, <1>9 DEF ab, abc, abcd

LEMMA ConfirmingEnds ==
  ASSUME doc.kind = "booking", NEW e \in BookingEvent, e.type \in Confirms
  PROVE  Ends(Steps(e))
  <1> DEFINE f == [e EXCEPT !.pay = "success"]
             S == Allowed(e)
  <1>1. f \in BookingEvent
    BY AsPaid
  <1> HIDE DEF f
  <1>2. CASE e.type = "confirmed"
    <2>1. /\ (IsPaid(e) => Pays(e)) /\ (Invoiceable(e) => Charges(e))
          /\ (LoyaltySucceeded(e) => Credits(e)) /\ (Announced(e) => Announces(e))
      BY DEF Pays, Charges, Credits, Announces
    <2>2. Ends(ConfirmedSteps(e))
      BY <2>1, ConfirmedEnds
    <2> QED
      BY <1>2, <2>2 DEF Steps, BookingSteps
  <1>3. ASSUME e.type \in {"link_paid", "status_success"}
        PROVE  Ends(ConfirmedSteps(f)) /\ ConfirmedSteps(f) \in Seq(S) /\ InvoiceSteps(e) \in Seq(S)
    <2>1. Pays(e) /\ Charges(e) /\ Credits(e) /\ Announces(e)
      BY <1>3 DEF Pays, Charges, Credits, Announces, Delegating
    <2> HIDE DEF S
    <2> QED
      BY <1>1, <2>1, ConfirmedEnds, ConfirmedAllowed DEF Confirms, S
  <1>4. CASE e.type = "link_paid"
    <2> DEFINE a == << <<"set_booking", "confirmed", "success">>, <<"pay_row">>,
                       <<"mark_paid">> >>
               c == ConfirmedSteps(f)
    <2>1. a \in Seq(S)
      <3>1. {"set_booking", "pay_row", "mark_paid"} \subseteq Ops(e)
        BY <1>4 DEF Ops
      <3>2. /\ <<"set_booking", "confirmed", "success">> \in Allowed(e)
            /\ <<"pay_row">> \in Allowed(e) /\ <<"mark_paid">> \in Allowed(e)
        BY <1>4, <3>1, OneStep, PlainOps DEF PayStatuses, WrittenBack
      <3> QED
        BY <3>2
    <2>2. ~Has(a, Speech)
      BY DEF Has, Speech
    <2>3. Steps(e) = a \o c
      BY <1>4 DEF Steps, BookingSteps, LinkPaidSteps, f
    <2> HIDE DEF a, S
    <2>4. Ends(a \o c)
      BY <1>3, <1>4, <2>1, <2>2, EndsBoth
    <2> QED
      BY <2>3, <2>4
  <1>5. CASE e.type = "status_success"
    <2> DEFINE a == << <<"pay_row">> >>
               b == IF e.full THEN InvoiceSteps(e) ELSE << <<"fetch">> >>
               c == ConfirmedSteps(f)
    <2>1. a \in Seq(S) /\ b \in Seq(S)
      <3>1. {"pay_row", "fetch"} \subseteq Ops(e)
        BY <1>5 DEF Ops
      <3>2. <<"pay_row">> \in Allowed(e) /\ <<"fetch">> \in Allowed(e)
        BY <3>1, OneStep, PlainOps
      <3> QED
        BY <1>3, <1>5, <3>2, Lists
    <2>2. ~Has(a, Speech) /\ ~Has(b, Speech)
      <3>1. b = <<>> \/ b = << <<"partner">> >> \/ b = << <<"fetch">> >>
        BY InvoiceList
      <3>2. \A op \in {"pay_row", "fetch", "partner"} :
                <<op>>[1] = op /\ ~Has(<< <<op>> >>, Speech)
        BY HasOne DEF Speech
      <3>3. ~Has(<<>>, Speech)
        BY HasOne
      <3> HIDE DEF b
      <3> QED
        BY <3>1, <3>2, <3>3
    <2>3. Steps(e) = a \o b \o c
      BY <1>5 DEF Steps, BookingSteps, StatusSuccessSteps, f
    <2> HIDE DEF a, b, S
    <2> DEFINE ab == a \o b
    <2>4. ab \in Seq(S) /\ ~Has(ab, Speech)
      BY <2>1, <2>2, HasBoth
    <2> HIDE DEF ab
    <2>5. Ends(ab \o c)
      BY <1>3, <1>5, <2>4, EndsBoth
    <2> QED
      BY <2>3, <2>5 DEF ab
  <1> QED
    BY <1>2, <1>4, <1>5 DEF Confirms

\* Confirmations on the phone, and the rows of notifications by which they are looked up.
Confirmations ==
    Count(told, <<"confirmed", "whatsapp", "customer">>)
        + Count(told, <<"confirmed", "sms", "customer">>)
Marked == "confirmed" \in rows \/ \E s \in Slot : "confirmed" \in slot[s].rows

\* Events handled one by one, without faults: a slot that confirms has yet to look up what was
\* sent, or it has found nothing.
Speaking(s) ==
    \/ Ends(slot[s].todo)
    \/ slot[s].todo = ConfirmationSteps /\ Confirmations = 0
    \/ slot[s].todo = EmailSteps("confirmed")
OneInv ==
    doc.kind = "booking" /\ tidy /\ faults = 0 =>
        /\ \A s, t \in Slot : slot[s] # Idle /\ slot[t] # Idle => s = t
        /\ Confirmations <= 1
        /\ Confirmations > 0 => Marked
        /\ \A s \in Slot : slot[s].ev # 0 =>
               /\ Ev(s).type \in Confirms => Speaking(s)
               /\ Ev(s).type \in Updates => "confirmed" \notin slot[s].rows

\* What the steps of the confirmation are.
LEMMA ConfirmationIs ==
  ASSUME doc.kind = "booking"
  PROVE  /\ \/ EmailSteps("confirmed") = <<>>
            \/ EmailSteps("confirmed") = << <<"send", "confirmed", "email", "customer">> >>
         /\ \/ ConfirmationSteps = EmailSteps("confirmed")
            \/ \E c \in {"whatsapp", "sms"} :
                  ConfirmationSteps = << <<"send", "confirmed", c, "customer">> >>
                                          \o EmailSteps("confirmed")
         /\ EmailSteps("confirmed") \in Seq({"send"} \X {"confirmed"} \X Channels \X {"customer"})
         /\ ConfirmationSteps \in Seq({"send"} \X {"confirmed"} \X Channels \X {"customer"})
  <1> DEFINE S == {"send"} \X {"confirmed"} \X Channels \X {"customer"}
             m == EmailSteps("confirmed")
             p == PhoneSteps("confirmed")
  <1>1. \A c \in Channels : <<"send", "confirmed", c, "customer">> \in S
    OBVIOUS
  <1>2. m = <<>> \/ m = << <<"send", "confirmed", "email", "customer">> >>
    BY DEF EmailSteps
  <1>3. \E c \in {"whatsapp", "sms"} : p = << <<"send", "confirmed", c, "customer">> >>
    BY DEF PhoneSteps
  <1>4. m \in Seq(S) /\ p \in Seq(S)
    <2>1. /\ <<>> \in Seq(S)
          /\ \A c \in Channels : << <<"send", "confirmed", c, "customer">> >> \in Seq(S)
      <3> HIDE DEF S
      <3> QED
        BY <1>1, Lists
    <2>2. "whatsapp" \in Channels /\ "sms" \in Channels /\ "email" \in Channels
      BY DEF Channels
    <2> HIDE DEF S, m, p
    <2> QED
      BY <1>2, <1>3, <2>1, <2>2
  <1>5. ConfirmationSteps = <<>> \o m \/ ConfirmationSteps = p \o m
    BY DEF ConfirmationSteps
  <1> HIDE DEF S, m, p
  <1>6. <<>> \o m = m /\ p \o m \in Seq(S)
    BY <1>4, HasBoth
  <1> QED
    BY <1>2, <1>3, <1>4, <1>5, <1>6 DEF S, m

\* While events are handled one by one, only one slot is at work.
LEMMA OthersIdle ==
  ASSUME Common, OneInv, doc.kind = "booking", NEW s \in Slot, Step(s), tidy', faults' = 0
  PROVE  /\ tidy /\ faults = 0 /\ ~Crash(s)
         /\ \A t \in Slot : t # s => slot[t] = Idle /\ slot'[t] = Idle
  <1>0. /\ Typed /\ Apart /\ doc.kind \in Kinds /\ slot \in [Slot -> Hand(AnyStep)]
        /\ faults \in Nat /\ log \in Seq(Event) /\ queue \subseteq DOMAIN log /\ 0 \notin DOMAIN log
    BY FaultsAssumption, LenProperties DEF Common, Typed, Shaped
  <1>1. \/ End(s)
        \/ Crash(s)
        \/ \E k \in queue : Starts(s, k)
        \/ slot[s].todo # <<>> /\ Does(s) /\ Moves(s)
    BY <1>0, OperationMoves, StepCases
  <1>2. ~Crash(s) /\ faults = 0
    <2>1. ~Crash(s)
      <3>1. faults \in Nat => faults + 1 # 0
        OBVIOUS
      <3>2. Crash(s) => faults' = faults + 1
        BY DEF Crash
      <3> QED
        BY <1>0, <3>1, <3>2
    <2>2. faults' \in {faults, faults + 1}
      BY <1>0, <1>1, <2>1 DEF End, Starts, Moves, Framed
    <2> QED
      BY <1>0, <2>1, <2>2
  <1>3. tidy
    BY <1>1, <1>2 DEF End, Starts, Moves, Framed
  <1>4. \A t \in Slot : t # s => slot'[t] = slot[t]
    <2>1. PICK l : SlotForm(s, l)
      BY <1>0, SlotForms
    <2> QED
      BY <1>0, <2>1 DEF SlotForm
  <1>5. ASSUME NEW t \in Slot, t # s PROVE slot[t] = Idle
    <2>1. CASE \E k \in queue : Starts(s, k)
      <3>1. InHand = {}
        BY <2>1 DEF Starts
      <3>2. slot[t].ev = 0
        BY <3>1 DEF InHand
      <3> QED
        BY <1>0, <3>2 DEF Apart
    <2>2. CASE slot[s] # Idle
      BY <1>2, <1>3, <1>5, <2>2 DEF OneInv
    <2>3. End(s) => slot[s] # Idle
      BY DEF End, Idle
    <2>4. slot[s].todo # <<>> => slot[s] # Idle
      BY DEF Idle
    <2> QED
      BY <1>1, <1>2, <2>1, <2>2, <2>3, <2>4
  <1> QED
    BY <1>2, <1>3, <1>4, <1>5

\* What the invariant says when slot s alone is at work.
Alone(s) ==
    /\ Confirmations <= 1
    /\ Confirmations > 0 => "confirmed" \in rows \cup slot[s].rows
    /\ slot[s].ev # 0 =>
           /\ Ev(s).type \in Confirms => Speaking(s)
           /\ Ev(s).type \in Updates => "confirmed" \notin slot[s].rows

LEMMA AloneBefore ==
  ASSUME OneInv, doc.kind = "booking", tidy, faults = 0, NEW s \in Slot,
         \A t \in Slot : t # s => slot[t] = Idle
  PROVE  Alone(s)
  <1>1. Idle.rows = {}
    BY DEF Idle
  <1> QED
    BY <1>1 DEF OneInv, Alone, Marked

LEMMA AloneAfter ==
  ASSUME NEW s \in Slot, \A t \in Slot : t # s => slot'[t] = Idle, Alone(s)'
  PROVE  OneInv'
  <1>1. Idle.rows = {} /\ Idle.ev = 0
    BY DEF Idle
  <1>2. Marked' <=> "confirmed" \in rows' \cup slot'[s].rows
    BY <1>1 DEF Marked
  <1>3. \A a, b \in Slot : slot'[a] # Idle /\ slot'[b] # Idle => a = b
    OBVIOUS
  <1>4. ASSUME NEW t \in Slot, slot'[t].ev # 0 PROVE t = s
    BY <1>1, <1>4
  <1>5. \A t \in Slot : slot'[t].ev # 0 =>
            /\ (Ev(t).type \in Confirms => Speaking(t))'
            /\ (Ev(t).type \in Updates)' => "confirmed" \notin slot'[t].rows
    BY <1>4 DEF Alone
  <1> QED
    BY <1>2, <1>3, <1>5 DEF OneInv, Alone

\* One message more.
LEMMA AnnouncedMore ==
  ASSUME Counted
  PROVE  /\ Confirmations \in Nat
         /\ told' = told => Confirmations' = Confirmations
         /\ \A m : told' = told (+) SetToBag({m}) =>
                Confirmations' = Confirmations
                    + (IF m \in {<<"confirmed", "whatsapp", "customer">>,
                                 <<"confirmed", "sms", "customer">>} THEN 1 ELSE 0)
  <1> DEFINE w == <<"confirmed", "whatsapp", "customer">>
             x == <<"confirmed", "sms", "customer">>
  <1>1. w # x
    OBVIOUS
  <1>2. \A k \in DOMAIN told : told[k] \in Nat
    BY DEF Counted
  <1>3. \A k : Count(told, k) \in Nat
    BY <1>2 DEF Count
  <1>4. Confirmations = Count(told, w) + Count(told, x) /\ Confirmations' = Count(told', w) + Count(told', x)
    BY DEF Confirmations
  <1> HIDE DEF w, x
  <1>5. ASSUME NEW m, told' = told (+) SetToBag({m})
        PROVE  Confirmations' = Confirmations + (IF m \in {w, x} THEN 1 ELSE 0)
    <2>1. \A k : Count(told (+) SetToBag({m}), k) = Count(told, k) + (IF k = m THEN 1 ELSE 0)
      BY <1>2, CountMore, ZenonT(40)
    <2>2. /\ Count(told', w) = Count(told, w) + (IF w = m THEN 1 ELSE 0)
          /\ Count(told', x) = Count(told, x) + (IF x = m THEN 1 ELSE 0)
      BY <1>5, <2>1, Zenon
    <2>3. Count(told, w) \in Nat /\ Count(told, x) \in Nat
      BY <1>3
    <2> HIDE DEF Confirmations
    <2>4. CASE m = w
      BY <1>1, <1>4, <2>2, <2>3, <2>4
    <2>5. CASE m = x
      BY <1>1, <1>4, <2>2, <2>3, <2>5
    <2>6. CASE m \notin {w, x}
      BY <1>4, <2>2, <2>3, <2>6
    <2> QED
      BY <2>4, <2>5, <2>6
  <1>6. told' = told => Confirmations' = Confirmations
    BY <1>4
  <1>7. Confirmations \in Nat
    BY <1>3, <1>4
  <1> QED
    BY <1>5, <1>6, <1>7 DEF w, x

\* A handler begins or ends.
LEMMA OneTurns ==
  ASSUME Common, doc.kind = "booking", NEW s \in Slot, Alone(s), doc' = doc,
         End(s) \/ \E n \in queue : Starts(s, n)
  PROVE  Alone(s)'
  <1>0. /\ Typed /\ Apart /\ Counted /\ slot \in [Slot -> Hand(AnyStep)] /\ doc.kind \in Kinds
        /\ log \in Seq(Event) /\ queue \subseteq DOMAIN log
    BY DEF Common, Typed, Shaped
  <1>1. Idle.rows = {} /\ Idle.ev = 0
    BY DEF Idle
  <1>2. told' = told /\ log' = log
    BY DEF End, Starts
  <1>3. Confirmations' = Confirmations
    BY <1>0, <1>2, AnnouncedMore
  <1>4. CASE End(s)
    <2>1. slot'[s] = Idle /\ rows' = rows \cup slot[s].rows
      BY <1>0, <1>4 DEF End, Becomes
    <2> QED
      BY <1>1, <1>3, <2>1 DEF Alone
  <1>5. ASSUME NEW n \in queue, Starts(s, n) PROVE Alone(s)'
    <2>1. slot[s] = Idle /\ rows' = rows /\ slot'[s] = [Idle EXCEPT !.ev = n, !.todo = Steps(log[n])]
      BY <1>0, <1>5 DEF Starts, Becomes
    <2>2. slot'[s].ev = n /\ slot'[s].todo = Steps(log[n]) /\ slot'[s].rows = {}
      BY <1>1, <2>1 DEF Idle
    <2>3. log[n] \in BookingEvent /\ Ev(s)' = log[n]
      <3>1. log[n] \in Event
        BY <1>0, LenProperties
      <3> QED
        BY <1>2, <2>2, <3>1 DEF Event, Ev
    <2>4. log[n].type \in Confirms => Ends(Steps(log[n]))
      BY <2>3, ConfirmingEnds
    <2>5. (Ev(s).type \in Confirms => Speaking(s))'
      BY <2>2, <2>3, <2>4 DEF Speaking
    <2> QED
      BY <1>1, <1>3, <2>1, <2>2, <2>5 DEF Alone
  <1> QED
    BY <1>4, <1>5

\* An operation other than sending, of a handler that confirms: what it puts before the rest.
LEMMA OneFollows ==
  ASSUME Common, doc.kind = "booking", NEW s \in Slot, slot[s].todo # <<>>,
         Op(s) \notin Speech, NEW then \in Follows(s), Ends(slot[s].todo)
  PROVE  Ends(then \o Tail(slot[s].todo))
  <1>0. Typed /\ Apart
    BY DEF Common
  <1> DEFINE S == Allowed(Ev(s))
  <1>1. slot[s].todo \in Seq(S) /\ Tail(slot[s].todo) \in Seq(S) /\ then \in Seq(S)
    BY <1>0, Working, GoesAllowed
  <1>2. Ends(Tail(slot[s].todo))
    BY <1>1, EndsRest
  <1>3. ~Has(then, Speech)
    <2>1. then = <<>> \/ \E op \in {"invoice", "link_payments", "link_booking", "mark_row",
                                    "partner", "link_note"} : then = << <<op>> >>
      BY DEF Follows, Speech
    <2>2. \A op \in {"invoice", "link_payments", "link_booking", "mark_row", "partner",
                     "link_note"} : <<op>>[1] = op /\ ~Has(<< <<op>> >>, Speech)
      BY HasOne DEF Speech
    <2>3. ~Has(<<>>, Speech)
      BY HasOne
    <2> QED
      BY <2>1, <2>2, <2>3
  <1> HIDE DEF S
  <1> QED
    BY <1>1, <1>2, <1>3, EndsBoth

\* Whose operation is at hand.
LEMMA ConfirmsApart ==
  ASSUME Common, doc.kind = "booking", NEW s \in Slot, slot[s].todo # <<>>
  PROVE  /\ slot[s].ev # 0 /\ Head(slot[s].todo)[1] = Op(s)
         /\ Op(s) = "change_row" => Ev(s).type \in Updates
         /\ ~(Ev(s).type \in Updates /\ Ev(s).type \in Confirms)
         /\ Op(s) = "send" =>
                /\ \E c \in Channels, a \in Audiences :
                      Tail(Head(slot[s].todo)) = <<Saying(Ev(s)), c, a>>
                /\ Saying(Ev(s)) = "confirmed" <=> Ev(s).type \in Confirms
                /\ Ev(s).type \in Updates => Saying(Ev(s)) = "updated"
  <1>0. Typed /\ Apart
    BY DEF Common
  <1>1. /\ slot[s].ev # 0 /\ Ev(s) \in Event /\ Head(slot[s].todo) \in Allowed(Ev(s))
    BY <1>0, Working
  <1>2. Ev(s) \in BookingEvent
    BY <1>1 DEF Event
  <1>3. Op(s) = Head(slot[s].todo)[1] /\ Op(s) \in Ops(Ev(s))
    BY <1>1, StepIs DEF Op
  <1>4. Op(s) = "change_row" => Ev(s).type \in Updates
    BY <1>2, <1>3 DEF BookingEvent, BookingTypes, Ops, Updates
  <1>5. /\ Saying(Ev(s)) = "confirmed" <=> Ev(s).type \in Confirms
        /\ Ev(s).type \in Updates => Saying(Ev(s)) = "updated"
    BY <1>2 DEF BookingEvent, BookingTypes, Saying, Updates, Confirms
  <1>6. Op(s) = "send" => \E c \in Channels, a \in Audiences :
                              Tail(Head(slot[s].todo)) = <<Saying(Ev(s)), c, a>>
    BY <1>1, <1>3, SaidRow, StepIs
  <1> QED
    BY <1>1, <1>3, <1>4, <1>5, <1>6 DEF Updates, Confirms

\* The steps of a confirmation are sent one after the other.
LEMMA ConfirmationHeads ==
  ASSUME doc.kind = "booking"
  PROVE  /\ EmailSteps("confirmed") # <<>> =>
                /\ Head(EmailSteps("confirmed")) = <<"send", "confirmed", "email", "customer">>
                /\ Tail(EmailSteps("confirmed")) = <<>>
         /\ \/ ConfirmationSteps = EmailSteps("confirmed")
            \/ \E c \in {"whatsapp", "sms"} :
                  /\ Head(ConfirmationSteps) = <<"send", "confirmed", c, "customer">>
                  /\ Tail(ConfirmationSteps) = EmailSteps("confirmed")
  <1> DEFINE S == {"send"} \X {"confirmed"} \X Channels \X {"customer"}
             m == EmailSteps("confirmed")
             p == ConfirmationSteps
  <1>1. m # <<>> => m = << <<"send", "confirmed", "email", "customer">> >>
    BY ConfirmationIs
  <1>2. m # <<>> => Head(m) = <<"send", "confirmed", "email", "customer">> /\ Tail(m) = <<>>
    <2> DEFINE x == <<"send", "confirmed", "email", "customer">>
    <2>1. m # <<>> => m = <<x>>
      BY <1>1
    <2> HIDE DEF m, x
    <2>2. Head(<<x>>) = x /\ Tail(<<x>>) = <<>>
      BY EmptySeq
    <2>3. m # <<>> => Head(m) = x /\ Tail(m) = <<>>
      BY <2>1, <2>2, Zenon
    <2> QED
      BY <2>3 DEF x
  <1>3. m \in Seq(S)
    BY ConfirmationIs
  <1>4. ASSUME NEW c, p = << <<"send", "confirmed", c, "customer">> >> \o m
        PROVE  Head(p) = <<"send", "confirmed", c, "customer">> /\ Tail(p) = m
    <2> DEFINE x == <<"send", "confirmed", c, "customer">>
    <2>1. p = <<x>> \o m
      BY <1>4
    <2> HIDE DEF p, m, x, S
    <2>2. Head(p) = x /\ Tail(p) = m
      BY <1>3, <2>1
    <2> QED
      BY <2>2 DEF x
  <1>5. p = m \/ \E c \in {"whatsapp", "sms"} :
                    p = << <<"send", "confirmed", c, "customer">> >> \o m
    BY ConfirmationIs
  <1> HIDE DEF p, m
  <1>6. p = m \/ \E c \in {"whatsapp", "sms"} :
                    Head(p) = <<"send", "confirmed", c, "customer">> /\ Tail(p) = m
    BY <1>4, <1>5
  <1> QED
    BY <1>2, <1>6 DEF p, m

\* A handler that confirms and is not sending.
LEMMA OneAsks ==
  ASSUME Common, doc.kind = "booking", NEW s \in Slot, Alone(s), slot[s].todo # <<>>, Does(s),
         Op(s) # "send", faults = 0, faults' = 0, slot[s].ev # 0, Ev(s).type \in Confirms,
         NEW then \in Follows(s), Goes(s, then)
  PROVE  Speaking(s)'
  <1>0. Typed /\ Apart /\ Counted /\ slot \in [Slot -> Hand(AnyStep)]
    BY DEF Common, Typed
  <1> DEFINE S == Allowed(Ev(s))
             tail == Tail(slot[s].todo)
  <1>1. /\ slot[s].todo \in Seq(S) /\ then \in Seq(S) /\ tail \in Seq(S)
        /\ Head(slot[s].todo)[1] = Op(s)
    BY <1>0, Working, GoesAllowed DEF Op
  <1>2. slot'[s].todo = then \o tail
    BY <1>0 DEF Goes, Becomes
  <1>3. Ends(slot[s].todo)
    <2>1. Speaking(s)
      BY DEF Alone
    <2>2. Head(slot[s].todo) # <<"send", "confirmed", "email", "customer">>
          /\ \A c : Head(slot[s].todo) # <<"send", "confirmed", c, "customer">>
      BY <1>1
    <2>3. slot[s].todo # EmailSteps("confirmed") /\ slot[s].todo # ConfirmationSteps
      BY <2>2, ConfirmationHeads
    <2> QED
      BY <2>1, <2>3 DEF Speaking
  <1>4. CASE Op(s) # "check_sent"
    <2>1. Ends(slot'[s].todo)
      BY <1>2, <1>3, <1>4, OneFollows DEF Speech
    <2> QED
      BY <2>1 DEF Speaking
  <1>5. CASE Op(s) = "check_sent"
    <2>1. tail = <<>>
      BY <1>1, <1>3, <1>5, EndsRest
    <2>2. CheckAlreadySent(s)
      BY <1>5 DEF Does
    <2>3. slot' = [slot EXCEPT ![s] = After(s, IF "confirmed" \in rows \cup slot[s].rows
                                              THEN <<>> ELSE ConfirmationSteps)]
      BY <2>2 DEF CheckAlreadySent, Call, Becomes
    <2>4. \A q : slot' = [slot EXCEPT ![s] = After(s, q)] => slot'[s].todo = q \o tail
      <3>1. \A q : After(s, q).todo = q \o tail
        BY <1>0, AfterIs
      <3> QED
        BY <1>0, <3>1
    <2>5. told' = told
      BY <2>2 DEF CheckAlreadySent, Call
    <2>6. Confirmations' = Confirmations
      BY <1>0, <2>5, AnnouncedMore
    <2>7. CASE "confirmed" \in rows \cup slot[s].rows
      <3>1. slot'[s].todo = <<>>
        <4>1. <<>> \o <<>> = <<>>
          OBVIOUS
        <4>2. slot'[s].todo = <<>> \o tail
          BY <2>3, <2>4, <2>7
        <4> QED
          BY <2>1, <4>1, <4>2, Zenon
      <3> QED
        BY <3>1, EndsOne DEF Speaking
    <2>8. CASE "confirmed" \notin rows \cup slot[s].rows
      <3>1. slot'[s].todo = ConfirmationSteps \o tail
        BY <2>3, <2>4, <2>8
      <3>2. ConfirmationSteps \o <<>> = ConfirmationSteps
        <4>1. ConfirmationSteps \in Seq({"send"} \X {"confirmed"} \X Channels \X {"customer"})
          BY ConfirmationIs
        <4> QED
          BY <4>1
      <3>3. slot'[s].todo = ConfirmationSteps
        BY <2>1, <3>1, <3>2, Zenon
      <3>4. Confirmations = 0
        BY <1>0, <2>8, AnnouncedMore DEF Alone
      <3>5. ConfirmationSteps' = ConfirmationSteps
        BY <2>2 DEF CheckAlreadySent, Call, ConfirmationSteps, PhoneSteps, EmailSteps,
           GiftVoucher
      <3> QED
        BY <2>6, <3>3, <3>4, <3>5 DEF Speaking
    <2> QED
      BY <2>7, <2>8
  <1> QED
    BY <1>4, <1>5

\* Sending.
LEMMA OneSends ==
  ASSUME Common, doc.kind = "booking", NEW s \in Slot, Alone(s), slot[s].todo # <<>>,
         Op(s) = "send", Send(s), faults = 0, faults' = 0
  PROVE  Alone(s)'
  <1> DEFINE m == Tail(Head(slot[s].todo))
             tail == Tail(slot[s].todo)
             phone == {<<"confirmed", "whatsapp", "customer">>, <<"confirmed", "sms", "customer">>}
  <1>0. Typed /\ Apart /\ Counted /\ slot \in [Slot -> Hand(AnyStep)]
    BY DEF Common, Typed
  <1>1. /\ slot[s].ev # 0 /\ Head(slot[s].todo)[1] = "send"
        /\ m[1] = "confirmed" <=> Ev(s).type \in Confirms
        /\ Ev(s).type \in Updates => m[1] = "updated"
    <2>1. \A t, c, a : <<t, c, a>>[1] = t
      OBVIOUS
    <2>2. m[1] = Saying(Ev(s))
      <3>1. PICK c \in Channels, a \in Audiences : m = <<Saying(Ev(s)), c, a>>
        BY ConfirmsApart
      <3> HIDE DEF m
      <3> QED
        BY <2>1, <3>1, Zenon
    <2> HIDE DEF m
    <2> QED
      BY <2>2, ConfirmsApart
  <1>2. /\ UNCHANGED <<doc, log, rows>>
        /\ slot'[s].ev = slot[s].ev /\ slot'[s].todo = tail
        /\ \/ slot'[s].rows = slot[s].rows /\ told' = told
           \/ /\ slot'[s].rows = slot[s].rows \cup (IF m[2] = "email" THEN {} ELSE {RowOf(m)})
              /\ told' = told (+) SetToBag({m})
    <2>1. /\ After(s, <<>>).ev = slot[s].ev /\ After(s, <<>>).todo = tail
          /\ After(s, <<>>).rows = slot[s].rows
          /\ \A K : /\ [After(s, <<>>) EXCEPT !.rows = @ \cup K].ev = slot[s].ev
                    /\ [After(s, <<>>) EXCEPT !.rows = @ \cup K].todo = tail
                    /\ [After(s, <<>>) EXCEPT !.rows = @ \cup K].rows = slot[s].rows \cup K
      <3>1. After(s, <<>>) \in [ev : {slot[s].ev}, todo : {<<>> \o tail}, got : {slot[s].got},
                                rows : {slot[s].rows}]
        BY <1>0, AfterIs
      <3>2. <<>> \o tail = tail
        <4>1. tail \in Seq(Allowed(Ev(s)))
          BY <1>0, Working
        <4> HIDE DEF tail
        <4> QED
          BY <4>1
      <3>3. After(s, <<>>) = [ev |-> slot[s].ev, todo |-> tail, got |-> slot[s].got,
                              rows |-> slot[s].rows]
        BY <3>1, <3>2
      <3> DEFINE a == [ev |-> slot[s].ev, todo |-> tail, got |-> slot[s].got,
                       rows |-> slot[s].rows]
      <3>4. /\ a.ev = slot[s].ev /\ a.todo = tail /\ a.rows = slot[s].rows
            /\ \A K : /\ [a EXCEPT !.rows = @ \cup K].ev = slot[s].ev
                      /\ [a EXCEPT !.rows = @ \cup K].todo = tail
                      /\ [a EXCEPT !.rows = @ \cup K].rows = slot[s].rows \cup K
        <4>1. \A i, q, g, r, K :
                  LET b == [ev |-> i, todo |-> q, got |-> g, rows |-> r]
                  IN  /\ b.ev = i /\ b.todo = q /\ b.rows = r
                      /\ [b EXCEPT !.rows = @ \cup K].ev = i
                      /\ [b EXCEPT !.rows = @ \cup K].todo = q
                      /\ [b EXCEPT !.rows = @ \cup K].rows = r \cup K
          OBVIOUS
        <4> HIDE DEF tail
        <4> QED
          BY <4>1
      <3>5. After(s, <<>>) = a
        BY <3>3
      <3> HIDE DEF a, tail
      <3> QED
        BY <3>4, <3>5, Zenon
    <2>2. slot' = [slot EXCEPT ![s] = slot'[s]] /\ doc' = doc /\ log' = log /\ rows' = rows
      BY <1>0 DEF Send, Becomes
    <2>3. \/ slot'[s] = After(s, <<>>) /\ told' = told
          \/ /\ slot'[s] = [After(s, <<>>) EXCEPT !.rows = @ \cup (IF m[2] = "email" THEN {}
                                                                  ELSE {RowOf(m)})]
             /\ told' = told (+) SetToBag({m})
      <3>1. faults' # faults + 1
        OBVIOUS
      <3> QED
        BY <1>0, <3>1 DEF Send, Becomes
    <2> DEFINE K == IF m[2] = "email" THEN {} ELSE {RowOf(m)}
               b == [After(s, <<>>) EXCEPT !.rows = @ \cup K]
    <2>4. \/ slot'[s] = After(s, <<>>) /\ told' = told
          \/ slot'[s] = b /\ told' = told (+) SetToBag({m})
      BY <2>3
    <2>5. b.ev = slot[s].ev /\ b.todo = tail /\ b.rows = slot[s].rows \cup K
      BY <2>1
    <2>6. UNCHANGED <<doc, log, rows>>
      BY <2>2
    <2> HIDE DEF m, tail, K, b
    <2>7. /\ slot'[s].ev = slot[s].ev /\ slot'[s].todo = tail
          /\ \/ slot'[s].rows = slot[s].rows /\ told' = told
             \/ slot'[s].rows = slot[s].rows \cup K /\ told' = told (+) SetToBag({m})
      BY <2>1, <2>4, <2>5, Zenon
    <2> QED
      BY <2>6, <2>7 DEF K
  <1>3. (Ev(s).type = Ev(s)'.type) /\ EmailSteps("confirmed")' = EmailSteps("confirmed")
        /\ ConfirmationSteps' = ConfirmationSteps
    BY <1>2 DEF Ev, ConfirmationSteps, PhoneSteps, EmailSteps, GiftVoucher
  <1>4. \/ Confirmations' = Confirmations
        \/ m \in phone /\ Confirmations' = Confirmations + 1
    <2> HIDE DEF m
    <2>1. CASE told' = told
      BY <1>0, <2>1, AnnouncedMore
    <2>2. CASE told' = told (+) SetToBag({m})
      <3>1. Confirmations \in Nat /\ Confirmations' = Confirmations + (IF m \in phone THEN 1 ELSE 0)
        BY <1>0, <2>2, AnnouncedMore, Zenon
      <3> HIDE DEF phone
      <3> QED
        BY <3>1
    <2> QED
      BY <1>2, <2>1, <2>2
  <1>5. \A x \in phone : x[1] = "confirmed" /\ x[2] # "email" /\ RowOf(x) = "confirmed"
    BY DEF RowOf
  <1>6. Confirmations \in Nat
    BY <1>0, AnnouncedMore
  <1>7. slot[s].rows \subseteq slot'[s].rows
    BY <1>2
  <1>8. ASSUME Ev(s).type \notin Confirms PROVE Alone(s)'
    <2>1. m \notin phone
      BY <1>1, <1>5, <1>8
    <2>2. Ev(s).type \in Updates => slot'[s].rows \subseteq slot[s].rows \cup {"updated"}
      BY <1>1, <1>2 DEF RowOf
    <2> HIDE DEF m, phone
    <2> QED
      BY <1>2, <1>3, <1>4, <1>7, <1>8, <2>1, <2>2 DEF Alone
  <1>9. ASSUME Ev(s).type \in Confirms PROVE Alone(s)'
    <2>0. Ev(s).type \notin Updates
      BY <1>9 DEF Confirms, Updates
    <2>1. ~Ends(slot[s].todo)
      <3>1. slot[s].todo \in Seq(Allowed(Ev(s)))
        BY <1>0, Working
      <3> QED
        BY <1>1, <3>1, EndsRest
    <2>2. \/ slot[s].todo = ConfirmationSteps /\ Confirmations = 0
          \/ slot[s].todo = EmailSteps("confirmed")
      BY <1>1, <1>9, <2>1 DEF Alone, Speaking
    <2>3. CASE slot[s].todo = EmailSteps("confirmed")
      <3>1. /\ Head(slot[s].todo) = <<"send", "confirmed", "email", "customer">>
            /\ tail = <<>>
        BY <2>3, ConfirmationHeads
      <3>2. m[2] = "email"
        <4>1. Tail(<<"send", "confirmed", "email", "customer">>)
                  = <<"confirmed", "email", "customer">>
          OBVIOUS
        <4>2. m = <<"confirmed", "email", "customer">>
          BY <3>1, <4>1, Zenon
        <4> HIDE DEF m
        <4> QED
          BY <4>2
      <3>3. m \notin phone
        BY <1>5, <3>2
      <3>4. Speaking(s)'
        BY <1>2, <3>1, EndsOne DEF Speaking
      <3> HIDE DEF m, phone
      <3> QED
        BY <1>2, <1>3, <1>4, <1>7, <2>0, <3>3, <3>4 DEF Alone
    <2>4. CASE slot[s].todo = ConfirmationSteps /\ Confirmations = 0
                  /\ slot[s].todo # EmailSteps("confirmed")
      <3>1. tail = EmailSteps("confirmed")
        BY <2>4, ConfirmationHeads
      <3>2. Speaking(s)'
        BY <1>2, <1>3, <3>1 DEF Speaking
      <3>3. Confirmations' = 0 \/ (Confirmations' = 1 /\ m \in phone)
        BY <1>4, <2>4
      <3>4. Confirmations' = 1 => "confirmed" \in slot'[s].rows
        <4>1. ASSUME Confirmations' = 1 PROVE told' # told
          BY <1>0, <2>4, <4>1, AnnouncedMore
        <4> HIDE DEF m, phone
        <4> QED
          BY <1>2, <1>5, <3>3, <4>1
      <3> HIDE DEF m, phone
      <3> QED
        BY <1>2, <1>3, <2>0, <3>2, <3>3, <3>4 DEF Alone
    <2> QED
      BY <2>2, <2>3, <2>4
  <1> QED
    BY <1>8, <1>9

\* Every step of a slot.
LEMMA OneStepKeeps ==
  ASSUME Common, OneInv, doc.kind = "booking", NEW s \in Slot, Step(s), tidy', faults' = 0,
         doc' = doc
  PROVE  OneInv'
  <1>0. /\ Typed /\ Apart /\ Counted /\ doc.kind \in Kinds /\ slot \in [Slot -> Hand(AnyStep)]
    BY DEF Common, Typed, Shaped
  <1>1. /\ tidy /\ faults = 0 /\ ~Crash(s)
        /\ \A t \in Slot : t # s => slot[t] = Idle /\ slot'[t] = Idle
    BY OthersIdle
  <1>2. Alone(s)
    BY <1>1, AloneBefore
  <1>3. ASSUME End(s) \/ \E n \in queue : Starts(s, n) PROVE Alone(s)'
    BY <1>2, <1>3, OneTurns
  <1>4. ASSUME slot[s].todo # <<>>, Does(s), Op(s) = "send" PROVE Alone(s)'
    <2>1. Send(s)
      BY <1>4 DEF Does
    <2> QED
      BY <1>1, <1>2, <1>4, <2>1, OneSends
  <1>5. ASSUME slot[s].todo # <<>>, Does(s), Op(s) # "send" PROVE Alone(s)'
    <2>1. Moves(s)
      BY <1>0, <1>5, OperationMoves
    <2>2. told' = told /\ log' = log /\ rows' = rows
      BY <1>5, <2>1 DEF Moves, Framed
    <2>3. Confirmations' = Confirmations
      BY <1>0, <2>2, AnnouncedMore
    <2>4. /\ slot[s].ev # 0
          /\ Op(s) = "change_row" => Ev(s).type \in Updates
          /\ ~(Ev(s).type \in Updates /\ Ev(s).type \in Confirms)
      BY <1>5, ConfirmsApart
    <2>5. Idle.rows = {} /\ Idle.ev = 0
      BY DEF Idle
    <2>6. CASE Raises(s)
      <3>1. faults' # faults + 1
        BY <1>1
      <3>2. Ev(s).type \in Updates /\ slot'[s] = Idle
        BY <1>0, <2>4, <2>6, <3>1 DEF Raises, Becomes
      <3> QED
        BY <1>2, <2>2, <2>3, <2>4, <2>5, <3>2 DEF Alone
    <2>7. CASE Stops(s)
      <3>1. Ev(s).type \in Updates
        BY <2>4, <2>7 DEF Stops
      <3>2. slot'[s].ev = slot[s].ev /\ slot'[s].rows = slot[s].rows
        <4>1. slot'[s] = [slot[s] EXCEPT !.todo = <<>>]
          BY <1>0, <2>7 DEF Stops, Becomes
        <4>2. slot[s] \in Hand(AnyStep)
          BY <1>0
        <4> QED
          BY <4>1, <4>2 DEF Hand
      <3>3. (Ev(s).type)' = Ev(s).type
        BY <2>2, <3>2 DEF Ev
      <3> QED
        BY <1>2, <2>2, <2>3, <2>4, <3>1, <3>2, <3>3 DEF Alone
    <2>8. ASSUME NEW then \in Follows(s), Goes(s, then) PROVE Alone(s)'
      <3>1. slot'[s].ev = slot[s].ev /\ slot'[s].rows = slot[s].rows
        BY <1>0, <1>5, <2>8 DEF Goes, Becomes
      <3>2. (Ev(s).type)' = Ev(s).type
        BY <2>2, <3>1 DEF Ev
      <3>3. Ev(s).type \in Confirms => Speaking(s)'
        BY <1>1, <1>2, <1>5, <2>4, <2>8, OneAsks
      <3> QED
        BY <1>2, <2>2, <2>3, <3>1, <3>2, <3>3 DEF Alone
    <2> QED
      BY <2>1, <2>6, <2>7, <2>8 DEF Moves
  <1>6. Alone(s)'
    BY <1>0, <1>1, <1>3, <1>4, <1>5, StepCases
  <1> QED
    BY <1>1, <1>6, AloneAfter

\* Every step.
LEMMA OneNext == Common /\ OneInv /\ [Next]_vars => OneInv'
  <1> SUFFICES ASSUME Common, OneInv, [Next]_vars, doc'.kind = "booking", tidy', faults' = 0
               PROVE  OneInv'
    BY DEF OneInv
  <1>0. /\ Typed /\ Apart /\ Counted /\ doc' = doc /\ doc.kind = "booking"
        /\ slot \in [Slot -> Hand(AnyStep)] /\ log \in Seq(Event) /\ queue \subseteq DOMAIN log
    BY NextLasting DEF Common, Typed, Lasting
  <1>1. ASSUME UNCHANGED <<doc, slot, rows, told, faults, tidy>>,
               \A n \in DOMAIN log : log'[n] = log[n]
        PROVE  OneInv'
    <2>1. Confirmations' = Confirmations
      BY <1>0, <1>1, AnnouncedMore
    <2>2. Marked' <=> Marked
      BY <1>1 DEF Marked
    <2>3. \A s \in Slot : slot[s].ev # 0 => Ev(s)' = Ev(s)
      <3>1. \A s \in Slot : slot[s].ev # 0 => slot[s].ev \in DOMAIN log
        BY <1>0 DEF Apart, Idle
      <3> QED
        BY <1>1, <3>1 DEF Ev
    <2>4. /\ ConfirmationSteps' = ConfirmationSteps
          /\ EmailSteps("confirmed")' = EmailSteps("confirmed")
      BY <1>0 DEF ConfirmationSteps, PhoneSteps, EmailSteps, GiftVoucher
    <2>5. \A s \in Slot : Speaking(s)' <=> Speaking(s)
      BY <1>1, <2>1, <2>4 DEF Speaking
    <2> QED
      BY <1>0, <1>1, <2>1, <2>2, <2>3, <2>5 DEF OneInv
  <1>2. CASE UNCHANGED vars
    BY <1>1, <1>2 DEF vars
  <1>3. CASE Happen
    <2>1. PICK e \in Event : Publish(e)
      BY <1>0, <1>3, HappenPublishes
    <2>2. \A n \in DOMAIN log : log'[n] = log[n]
      BY <1>0, <2>1, PublishApart
    <2> QED
      BY <1>1, <2>1, <2>2 DEF Publish
  <1>4. ASSUME NEW s \in Slot, Step(s) PROVE OneInv'
    BY <1>0, <1>4, OneStepKeeps
  <1> QED
    BY <1>2, <1>3, <1>4 DEF Next

\* No other document has such messages.
LEMMA OthersSilent ==
  Common /\ (doc.kind # "booking" => Confirmations = 0) /\ [Next]_vars
      => (doc.kind # "booking" => Confirmations = 0)'
  <1> SUFFICES ASSUME Common, Confirmations = 0, [Next]_vars, doc.kind # "booking"
               PROVE  Confirmations' = 0
    BY NextLasting DEF Common, Typed, Lasting
  <1>0. Typed /\ Apart /\ Counted /\ doc.kind \in Kinds
    BY DEF Common, Typed, Shaped
  <1>1. CASE told' = told
    BY <1>0, <1>1, AnnouncedMore
  <1>2. CASE Happen
    <2>1. told' = told
      BY <1>0, <1>2, HappenPublishes DEF Publish
    <2> QED
      BY <1>1, <2>1
  <1>3. ASSUME NEW s \in Slot, Step(s), told' # told PROVE Confirmations' = 0
    <2> DEFINE m == Tail(Head(slot[s].todo))
    <2>1. slot[s].todo # <<>> /\ Op(s) = "send" /\ told' = told (+) SetToBag({m})
      BY <1>0, <1>3, StepTells
    <2>2. m[1] = Saying(Ev(s)) /\ Ev(s) \in Event
      <3>1. Head(slot[s].todo) \in Allowed(Ev(s)) /\ Ev(s) \in Event
        BY <1>0, <2>1, Working
      <3> DEFINE q == Head(slot[s].todo)
      <3>2. q[1] = "send"
        BY <2>1 DEF Op
      <3>3. m = <<Saying(Ev(s)), q[3], q[4]>>
        BY <3>1, <3>2, SaidRow
      <3> HIDE DEF m, q
      <3> QED
        BY <3>1, <3>3
    <2>3. Saying(Ev(s)) # "confirmed"
      <3>1. CASE doc.kind = "account"
        <4>1. Ev(s).type \in Notices \cup {"sms_send"}
          BY <2>2, <3>1 DEF Event, SomeNotice
        <4> QED
          BY <4>1 DEF Notices, Saying
      <3>2. CASE doc.kind # "account"
        BY <1>0, <2>2, <3>2
        DEF Event, SaleEvent, VoucherTypes, GiftTypes, Saying, Kinds
      <3> QED
        BY <3>1, <3>2
    <2> DEFINE phone == {<<"confirmed", "whatsapp", "customer">>, <<"confirmed", "sms", "customer">>}
    <2>4. m \notin phone
      <3>1. \A x \in phone : x[1] = "confirmed"
        OBVIOUS
      <3> HIDE DEF m, phone
      <3> QED
        BY <2>2, <2>3, <3>1
    <2> HIDE DEF m
    <2>5. Confirmations \in Nat /\ Confirmations' = Confirmations + (IF m \in phone THEN 1 ELSE 0)
      BY <1>0, <2>1, AnnouncedMore, Zenon
    <2> HIDE DEF phone
    <2> QED
      BY <2>4, <2>5
  <1>4. UNCHANGED vars => told' = told
    BY DEF vars
  <1> QED
    BY <1>1, <1>2, <1>3, <1>4 DEF Next

\* Handled one by one and without faults, the events that confirm a booking send one
\* confirmation to the phone.
THEOREM Confirmation == Spec => []OneConfirmation
  <1> DEFINE Silent == doc.kind # "booking" => Confirmations = 0
  <1>1. Init => OneInv /\ Silent
    <2> SUFFICES ASSUME Init PROVE OneInv /\ Confirmations = 0
      OBVIOUS
    <2>1. told = EmptyBag /\ slot = [s \in Slot |-> Idle]
      BY DEF Init, InitDelivery
    <2>2. \A m : Count(told, m) = 0
      BY <2>1 DEF Count, EmptyBag, SetToBag
    <2>3. Confirmations = 0
      BY <2>2 DEF Confirmations
    <2>4. \A s \in Slot : slot[s] = Idle /\ slot[s].ev = 0
      BY <2>1 DEF Idle
    <2> QED
      BY <2>3, <2>4 DEF OneInv
  <1>2. Common /\ OneInv /\ Silent => OneConfirmation
    <2> SUFFICES ASSUME Common, OneInv, Silent, tidy, faults = 0 PROVE Customer("confirmed") <= 1
      BY DEF OneConfirmation
    <2>1. Customer("confirmed") = Confirmations
      BY CopiesCount DEF Customer, Phoned, Confirmations
    <2> QED
      BY <2>1 DEF OneInv
  <1>3. Common /\ OneInv /\ Silent /\ [Next]_vars => (Common /\ OneInv /\ Silent)'
    BY CommonNext, OneNext, OthersSilent
  <1> HIDE DEF Silent
  <1> QED
    BY <1>1, <1>2, <1>3, CommonInit, PTL DEF Spec

-----------------------------------------------------------------------------
(* Whoever bought or was given something hears of it.                      *)

\* Steps of a set, in a list.
Holds(q, Z) == \E i \in DOMAIN q : q[i] \in Z

LEMMA HoldsOne ==
  ASSUME NEW x, NEW Z
  PROVE  ~Holds(<<>>, Z) /\ (Holds(<<x>>, Z) <=> x \in Z)
  BY DEF Holds

LEMMA HoldsRest ==
  ASSUME NEW S, NEW q \in Seq(S), q # <<>>, NEW Z, Holds(q, Z)
  PROVE  Head(q) \in Z \/ Holds(Tail(q), Z)
  <1>1. /\ Len(q) \in Nat \ {0} /\ DOMAIN q = 1..Len(q) /\ Head(q) = q[1]
        /\ DOMAIN Tail(q) = 1..(Len(q) - 1)
        /\ \A i \in 1..(Len(q) - 1) : Tail(q)[i] = q[i + 1]
    BY LenProperties
  <1>2. PICK i \in DOMAIN q : q[i] \in Z
    BY DEF Holds
  <1>3. i = 1 \/ (i - 1 \in DOMAIN Tail(q) /\ Tail(q)[i - 1] = q[i])
    BY <1>1
  <1> QED
    BY <1>1, <1>2, <1>3 DEF Holds

LEMMA HoldsBoth ==
  ASSUME NEW S, NEW p \in Seq(S), NEW q \in Seq(S), NEW Z, Holds(p, Z) \/ Holds(q, Z)
  PROVE  Holds(p \o q, Z)
  <1>1. /\ DOMAIN p = 1..Len(p) /\ DOMAIN q = 1..Len(q) /\ Len(p) \in Nat /\ Len(q) \in Nat
        /\ DOMAIN (p \o q) = 1..(Len(p) + Len(q))
        /\ \A i \in 1..(Len(p) + Len(q)) :
               (p \o q)[i] = IF i <= Len(p) THEN p[i] ELSE q[i - Len(p)]
    BY LenProperties
  <1>2. /\ \A i \in DOMAIN p : i \in DOMAIN (p \o q) /\ (p \o q)[i] = p[i]
        /\ \A i \in DOMAIN q : i + Len(p) \in DOMAIN (p \o q) /\ (p \o q)[i + Len(p)] = q[i]
    BY <1>1
  <1> QED
    BY <1>2 DEF Holds

\* The sets of messages of which an event owes one.
OnPhone(t, a) == {<<t, "whatsapp", a>>, <<t, "sms", a>>}
Acknowledged == OnPhone("confirmed", "customer") \cup OnPhone("receipt", "customer")
Alerts == {"user_registered", "user_verified", "password_reset", "password_changed"}
Owed(e) ==
    CASE doc.kind = "booking" ->
             {P \in {Acknowledged} : e.type \in Confirms /\ Announces(e) /\ ~GiftVoucher}
      [] doc.kind = "voucher" ->
             {P \in {OnPhone("active", "recipient")} :
                  e.type = "voucher_active" /\ e.status = "active"}
               \cup {P \in {OnPhone("active", "sender")} :
                         e.type = "voucher_active" /\ e.status = "active" /\ ~doc.self}
      [] doc.kind = "order" -> {P \in {OnPhone("order", "customer")} : e.type = "order_created"}
      [] doc.kind = "gift" ->
             {P \in {OnPhone("purchase", "recipient")} :
                  e.type = "gift_purchase_completed" /\ ~doc.desk}
      [] doc.kind = "account" ->
             {P \in {{<<Saying(e), "sms", "customer">>}} : e.type \in Alerts /\ Given("phone")}
               \cup {P \in {{<<Saying(e), "email", "customer">>}} :
                         e.type \in Alerts /\ doc.mailing /\ Given("email")}

\* One of them went out, or is still to be sent: by looking up what was sent, or by a step
\* that is not given up.
Heard(P) == \E m \in P : Count(told, m) > 0
Firm(m) == m[2] # "sms" \/ doc.kind \notin {"voucher", "order"} \/ faults > 0
Voice(P) ==
    {<<"send", m[1], m[2], m[3]>> : m \in {k \in P : Firm(k)}}
        \cup (IF doc.kind = "booking" THEN {<<"check_sent">>} ELSE {})

Undisturbed ==
    faults = 0 \/ (faults = 1 /\ missed = {"send"} /\ doc.kind \in {"voucher", "order"})

Answering(s) ==
    slot[s].ev # 0 => \A P \in Owed(Ev(s)) : Heard(P) \/ Holds(slot[s].todo, Voice(P))
HearInv ==
    /\ \A k \in claims : Count(told, <<k[1], k[2], k[3]>>) > 0
    /\ \A n \in DOMAIN log \ queue : \A P \in Owed(log[n]) : Heard(P)
    /\ \A s \in Slot : Answering(s)
    /\ doc.kind = "booking" /\ Marked => Heard(Acknowledged)

\* Confirmations and receipts are for the customer.
Own == {q \in AnyStep : q[1] = "send" => q[4] = "customer"}
Owning(s) ==
    doc.kind = "booking" /\ slot[s].ev # 0 /\ Ev(s).type \in Confirms \cup {"payment_success"}
        => slot[s].todo \in Seq(Own)

ReachInv ==
    /\ faults = 0 => missed = {}
    /\ \A s \in Slot : Owning(s)
    /\ Undisturbed => HearInv

\* Messages on the phone.
LEMMA OnPhoneIs ==
  ASSUME NEW t \in Templates, NEW a \in Audiences, NEW m \in OnPhone(t, a)
  PROVE  /\ m = <<m[1], m[2], m[3]>> /\ m \in Messages
         /\ m[1] = t /\ m[2] \in {"whatsapp", "sms"} /\ m[3] = a
         /\ <<m[1], "sms", m[3]>> \in OnPhone(t, a)
  BY DEF OnPhone, Messages, Audiences

\* What is owed.
LEMMA OwedIs ==
  ASSUME doc.kind \in Kinds, NEW e, NEW P \in Owed(e)
  PROVE  /\ \A m \in P : m = <<m[1], m[2], m[3]>> /\ m \in Messages
         /\ doc.kind = "booking" =>
                /\ P = Acknowledged /\ e.type \in Confirms /\ Announces(e) /\ ~GiftVoucher
         /\ doc.kind \in {"voucher", "order"} =>
                \A m \in P : /\ m[1] \in {"active", "order"} /\ m[2] \in {"whatsapp", "sms"}
                             /\ <<m[1], "sms", m[3]>> \in P
  <1>0. /\ "confirmed" \in Templates /\ "receipt" \in Templates /\ "active" \in Templates
        /\ "order" \in Templates /\ "purchase" \in Templates
        /\ "customer" \in Audiences /\ "sender" \in Audiences /\ "recipient" \in Audiences
    BY DEF Templates, Trusting, Unguarded, ObjectScoped, Audiences
  <1>1. CASE doc.kind = "booking"
    <2>1. P = Acknowledged /\ e.type \in Confirms /\ Announces(e) /\ ~GiftVoucher
      BY <1>1 DEF Owed
    <2>2. ASSUME NEW m \in P PROVE m = <<m[1], m[2], m[3]>> /\ m \in Messages
      <3>1. PICK t \in {"confirmed", "receipt"}, a \in {"customer"} : m \in OnPhone(t, a)
        BY <2>1 DEF Acknowledged
      <3>2. t \in Templates /\ a \in Audiences
        BY <1>0
      <3>3. /\ m = <<m[1], m[2], m[3]>> /\ m \in Messages
            /\ m[1] = t /\ m[2] \in {"whatsapp", "sms"} /\ m[3] = a
            /\ <<m[1], "sms", m[3]>> \in OnPhone(t, a)
        BY <3>1, <3>2, OnPhoneIs
      <3> QED
        BY <3>3, Zenon
    <2> QED
      BY <1>1, <2>1, <2>2
  <1>2. CASE doc.kind \in {"voucher", "order"}
    <2>1. PICK t \in {"active", "order"}, a \in {"recipient", "sender", "customer"} :
              P = OnPhone(t, a)
      BY <1>2 DEF Owed
    <2>2. ASSUME NEW m \in P
          PROVE  /\ m = <<m[1], m[2], m[3]>> /\ m \in Messages
                 /\ m[1] = t /\ m[2] \in {"whatsapp", "sms"} /\ <<m[1], "sms", m[3]>> \in P
      <3>1. t \in Templates /\ a \in Audiences
        BY <1>0
      <3> QED
        BY <2>1, <3>1, OnPhoneIs
    <2> QED
      BY <1>2, <2>2
  <1>3. CASE doc.kind = "gift"
    <2>1. PICK t \in {"purchase"}, a \in {"recipient"} : P = OnPhone(t, a)
      BY <1>3 DEF Owed
    <2>2. ASSUME NEW m \in P PROVE m = <<m[1], m[2], m[3]>> /\ m \in Messages
      <3>1. t \in Templates /\ a \in Audiences
        BY <1>0
      <3>2. /\ m = <<m[1], m[2], m[3]>> /\ m \in Messages
            /\ m[1] = t /\ m[2] \in {"whatsapp", "sms"} /\ m[3] = a
            /\ <<m[1], "sms", m[3]>> \in OnPhone(t, a)
        BY <2>1, <3>1, OnPhoneIs
      <3> QED
        BY <3>2, Zenon
    <2> QED
      BY <1>3, <2>2
  <1>4. CASE doc.kind = "account"
    <2>1. PICK c \in {"sms", "email"} : P = {<<Saying(e), c, "customer">>} /\ e.type \in Alerts
      BY <1>4 DEF Owed
    <2>2. Saying(e) \in Templates
      BY <2>1 DEF Alerts, Saying, Templates, Unguarded
    <2>3. ASSUME NEW m \in P PROVE m = <<m[1], m[2], m[3]>> /\ m \in Messages
      <3>1. m = <<Saying(e), c, "customer">>
        BY <2>1
      <3>2. \A x, y, z : <<x, y, z>> = << <<x, y, z>>[1], <<x, y, z>>[2], <<x, y, z>>[3] >>
        OBVIOUS
      <3>3. <<Saying(e), c, "customer">> \in Messages
        BY <2>2 DEF Messages
      <3> QED
        BY <3>1, <3>2, <3>3, Zenon
    <2> QED
      BY <1>4, <2>3
  <1> QED
    BY <1>1, <1>2, <1>3, <1>4

\* The steps that answer it.
LEMMA VoiceIs ==
  ASSUME NEW P
  PROVE  /\ \A t, c, a : <<t, c, a>> \in P /\ Firm(<<t, c, a>>) => <<"send", t, c, a>> \in Voice(P)
         /\ doc.kind = "booking" => <<"check_sent">> \in Voice(P)
         /\ \A q \in Voice(P) :
                \/ q = <<"check_sent">> /\ doc.kind = "booking"
                \/ \E m \in P : Firm(m) /\ q = <<"send", m[1], m[2], m[3]>>
  BY DEF Voice

\* Looking up what was sent is a step of every handler that confirms a payment.
LEMMA PaidLooks ==
  ASSUME doc.kind = "booking", NEW e \in BookingEvent, e.type \in Confirms, Announces(e),
         NEW Z, <<"check_sent">> \in Z
  PROVE  Holds(Steps(e), Z)
  <1> DEFINE S == Allowed(e)
             f == [e EXCEPT !.pay = "success"]
  <1>1. ASSUME NEW g \in BookingEvent, Announced(g), IsPaid(g) => Pays(e),
               Invoiceable(g) => Charges(e), LoyaltySucceeded(g) => Credits(e)
        PROVE  ConfirmedSteps(g) \in Seq(S) /\ Holds(ConfirmedSteps(g), Z)
    <2> DEFINE p == CacheSteps(g) \o PaymentSteps(g) \o LoyaltySteps(g)
                       \o PaidInvoiceSteps(g)
               n == NotifySteps(g)
    <2>1. /\ CacheSteps(g) \in Seq(S) /\ PaymentSteps(g) \in Seq(S) /\ LoyaltySteps(g) \in Seq(S)
          /\ PaidInvoiceSteps(g) \in Seq(S) /\ n \in Seq(S)
      BY <1>1, ConfirmedAllowed DEF Confirms
    <2>2. ConfirmedSteps(g) = p \o n
      BY DEF ConfirmedSteps
    <2>3. n = << <<"check_sent">> >>
      BY <1>1 DEF NotifySteps
    <2>4. p \in Seq(S)
      <3> HIDE DEF S
      <3> QED
        BY <2>1, Lists
    <2> HIDE DEF p, n, S
    <2>5. Holds(n, Z)
      BY <2>3, HoldsOne
    <2> QED
      BY <2>1, <2>2, <2>4, <2>5, HoldsBoth, Lists
  <1>2. /\ f \in BookingEvent /\ Announced(f)
        /\ Delegating(e) => Pays(e) /\ Charges(e) /\ Credits(e)
        /\ e.type \in {"link_paid", "status_success"} => Delegating(e)
    BY AsPaid DEF Pays, Charges, Credits, Delegating
  <1> HIDE DEF f
  <1>3. CASE e.type = "confirmed"
    <2>1. Announced(e)
      BY <1>3 DEF Announces, Delegating
    <2>2. /\ (IsPaid(e) => Pays(e)) /\ (Invoiceable(e) => Charges(e))
          /\ (LoyaltySucceeded(e) => Credits(e))
      BY DEF Pays, Charges, Credits
    <2>3. Holds(ConfirmedSteps(e), Z)
      BY <1>1, <2>1, <2>2
    <2> QED
      BY <1>3, <2>3 DEF Steps, BookingSteps
  <1>4. CASE e.type = "link_paid"
    <2> DEFINE a == << <<"set_booking", "confirmed", "success">>, <<"pay_row">>,
                       <<"mark_paid">> >>
               c == ConfirmedSteps(f)
    <2>1. a \in Seq(S)
      <3>1. {"set_booking", "pay_row", "mark_paid"} \subseteq Ops(e)
        BY <1>4 DEF Ops
      <3>2. /\ <<"set_booking", "confirmed", "success">> \in Allowed(e)
            /\ <<"pay_row">> \in Allowed(e) /\ <<"mark_paid">> \in Allowed(e)
        BY <1>4, <3>1, OneStep, PlainOps DEF PayStatuses, WrittenBack
      <3> QED
        BY <3>2
    <2>2. c \in Seq(S) /\ Holds(c, Z)
      BY <1>1, <1>2, <1>4
    <2>3. Steps(e) = a \o c
      BY <1>4 DEF Steps, BookingSteps, LinkPaidSteps, f
    <2> HIDE DEF a, c, S
    <2> QED
      BY <2>1, <2>2, <2>3, HoldsBoth
  <1>5. CASE e.type = "status_success"
    <2> DEFINE a == << <<"pay_row">> >>
               b == IF e.full THEN InvoiceSteps(e) ELSE << <<"fetch">> >>
               ab == a \o b
               c == ConfirmedSteps(f)
    <2>1. a \in Seq(S) /\ b \in Seq(S)
      <3>1. {"pay_row", "fetch"} \subseteq Ops(e)
        BY <1>5 DEF Ops
      <3>2. <<"pay_row">> \in Allowed(e) /\ <<"fetch">> \in Allowed(e)
        BY <3>1, OneStep, PlainOps
      <3>3. InvoiceSteps(e) \in Seq(S)
        <4> HIDE DEF S
        <4> QED
          BY <1>2, <1>5, ConfirmedAllowed DEF Announces, S
      <3> QED
        BY <3>2, <3>3, Lists
    <2>2. c \in Seq(S) /\ Holds(c, Z)
      BY <1>1, <1>2, <1>5
    <2>3. Steps(e) = ab \o c
      BY <1>5 DEF Steps, BookingSteps, StatusSuccessSteps, f
    <2> HIDE DEF a, b, c, S
    <2>4. ab \in Seq(S)
      BY <2>1, Lists
    <2> HIDE DEF ab
    <2> QED
      BY <2>2, <2>3, <2>4, HoldsBoth
  <1> QED
    BY <1>3, <1>4, <1>5 DEF Confirms

\* The handler of an event has a step that answers what it owes.
LEMMA StepsOwed ==
  ASSUME doc.kind \in Kinds, NEW e \in Event, NEW P \in Owed(e)
  PROVE  Holds(Steps(e), Voice(P))
  <1> DEFINE Z == Voice(P)
  <1>0. \A t, a : /\ P = OnPhone(t, a) => <<"send", t, "whatsapp", a>> \in Z
                  /\ <<"send", t, "whatsapp", a>> \in Z => Holds(Phone(t, a), Z)
    <2>1. ASSUME NEW t, NEW a, P = OnPhone(t, a) PROVE <<"send", t, "whatsapp", a>> \in Z
      <3>1. <<t, "whatsapp", a>> \in P /\ Firm(<<t, "whatsapp", a>>)
        BY <2>1 DEF OnPhone, Firm
      <3> QED
        BY <3>1, VoiceIs
    <2> HIDE DEF Z
    <2> QED
      BY <2>1, HoldsOne DEF Phone
  <1>1. CASE doc.kind = "booking"
    <2>1. e \in BookingEvent /\ <<"check_sent">> \in Z
      BY <1>1, VoiceIs DEF Event
    <2>2. e.type \in Confirms /\ Announces(e)
      BY <1>1, OwedIs
    <2> HIDE DEF Z
    <2>3. Holds(Steps(e), Z)
      BY <1>1, <2>1, <2>2, PaidLooks
    <2> QED
      BY <2>3 DEF Z
  <1> HIDE DEF Z
  <1>2. CASE doc.kind = "voucher"
    <2> DEFINE a == Phone("active", "sender")
               b == Mail("active", "sender")
               c == Phone("active", "recipient")
               d == Mail("active", "recipient")
               p == Trigger(<<"partner">>) \o << <<"record">> >>
    <2>1. /\ e.type = "voucher_active" /\ e.status = "active"
          /\ P = OnPhone("active", "recipient") \/ (P = OnPhone("active", "sender") /\ ~doc.self)
      BY <1>2 DEF Owed
    <2>2. Steps(e) = p \o (UnlessSelf(a \o b) \o (c \o MarkNotified \o d))
      BY <1>2, <2>1 DEF Steps, SaleSteps, VoucherActiveSteps, VoucherMessageSteps, TellSender,
         TellRecipient
    <2>3. /\ a \in Seq(Telling) /\ b \in Seq(Telling) /\ c \in Seq(Telling) /\ d \in Seq(Telling)
          /\ MarkNotified \in Seq(Telling)
      BY TellingLists DEF Templates, ObjectScoped, Audiences
    <2>4. p \in Seq(AnyStep)
      <3>1. <<"partner">> \in AnyStep /\ <<"record">> \in AnyStep
        BY PlainOps DEF AnyStep
      <3> QED
        BY <3>1, Lists, Triggered
    <2>5. (Holds(a, Z) /\ ~doc.self) \/ Holds(c, Z)
      BY <1>0, <2>1
    <2> HIDE DEF a, b, c, d, p
    <2> DEFINE ab == a \o b
               cn == c \o MarkNotified
               cnd == cn \o d
    <2>6. /\ ab \in Seq(Telling) /\ (Holds(a, Z) => Holds(ab, Z))
          /\ cn \in Seq(Telling) /\ (Holds(c, Z) => Holds(cn, Z))
      BY <2>3, TellingLists, HoldsBoth
    <2> HIDE DEF ab, cn
    <2>7. cnd \in Seq(Telling) /\ (Holds(cn, Z) => Holds(cnd, Z))
      BY <2>3, <2>6, TellingLists, HoldsBoth
    <2> HIDE DEF cnd
    <2>8. UnlessSelf(ab) \in Seq(Telling) /\ (~doc.self => UnlessSelf(ab) = ab)
      BY <2>6, TellingLists DEF UnlessSelf
    <2> DEFINE u == UnlessSelf(ab)
               t == u \o cnd
    <2>9. u \in Seq(Telling) /\ (Holds(u, Z) \/ Holds(cnd, Z))
      BY <2>5, <2>6, <2>7, <2>8
    <2>10. Steps(e) = p \o t
      BY <2>2 DEF ab, cn, cnd
    <2> HIDE DEF u
    <2>11. t \in Seq(Telling) /\ Holds(t, Z)
      BY <2>7, <2>9, TellingLists, HoldsBoth
    <2> HIDE DEF t
    <2>12. t \in Seq(AnyStep)
      BY <2>11, TellingLists
    <2>13. Holds(p \o t, Z)
      BY <2>4, <2>11, <2>12, HoldsBoth
    <2> QED
      BY <2>10, <2>13 DEF Z
  <1>3. CASE doc.kind = "order"
    <2> DEFINE a == << <<"record">> >>
               b == Phone("order", "customer")
               c == IF e.pay = "success" THEN Trigger(<<"partner">>) ELSE <<>>
               ab == a \o b
    <2>1. Steps(e) = ab \o c /\ Holds(b, Z)
      BY <1>0, <1>3 DEF Owed, Steps, SaleSteps, OrderCreatedSteps
    <2>2. a \in Seq(AnyStep) /\ b \in Seq(AnyStep) /\ c \in Seq(AnyStep)
      <3>1. <<"partner">> \in AnyStep /\ <<"record">> \in AnyStep
        BY PlainOps DEF AnyStep
      <3>2. <<"send", "order", "whatsapp", "customer">> \in AnyStep
        BY DEF AnyStep, Templates, Channels, Audiences
      <3>3. Trigger(<<"partner">>) \in Seq(AnyStep)
        BY <3>1, Triggered
      <3> QED
        BY <3>1, <3>2, <3>3, Lists DEF Phone
    <2> HIDE DEF a, b, c
    <2>3. ab \in Seq(AnyStep) /\ Holds(ab, Z)
      BY <2>1, <2>2, Lists, HoldsBoth
    <2> HIDE DEF ab
    <2> QED
      BY <2>1, <2>2, <2>3, HoldsBoth DEF Z
  <1>4. CASE doc.kind = "gift"
    <2> DEFINE a == UnlessSelf(Phone("purchase", "sender"))
               b == Phone("purchase", "recipient")
               bn == b \o MarkNotified
               ab == a \o bn
               c == Trigger(<<"partner">>)
    <2>1. Steps(e) = ab \o c /\ Holds(b, Z)
      BY <1>0, <1>4 DEF Owed, Steps, SaleSteps, GiftPurchaseSteps
    <2>2. a \in Seq(Telling) /\ b \in Seq(Telling) /\ MarkNotified \in Seq(Telling)
      <3>1. Phone("purchase", "sender") \in Seq(Telling) /\ b \in Seq(Telling)
        BY TellingLists DEF Templates, ObjectScoped, Audiences
      <3> QED
        BY <3>1, TellingLists
    <2>3. c \in Seq(AnyStep)
      <3>1. <<"partner">> \in AnyStep
        BY PlainOps DEF AnyStep
      <3> QED
        BY <3>1, Triggered
    <2> HIDE DEF a, b, c
    <2>4. bn \in Seq(Telling) /\ Holds(bn, Z)
      BY <2>1, <2>2, TellingLists, HoldsBoth
    <2> HIDE DEF bn
    <2>5. ab \in Seq(Telling) /\ Holds(ab, Z)
      BY <2>2, <2>4, TellingLists, HoldsBoth
    <2> HIDE DEF ab
    <2>6. ab \in Seq(AnyStep)
      BY <2>5, TellingLists
    <2> QED
      BY <2>1, <2>3, <2>5, <2>6, HoldsBoth DEF Z
  <1>5. CASE doc.kind = "account"
    <2> DEFINE a == ResolveSms(Saying(e))
               b == ResolveEmail(Saying(e))
    <2>1. /\ e.type \in Alerts
          /\ \/ P = {<<Saying(e), "sms", "customer">>} /\ Given("phone")
             \/ P = {<<Saying(e), "email", "customer">>} /\ doc.mailing /\ Given("email")
      BY <1>5 DEF Owed
    <2>2. Steps(e) = a \o b
      BY <1>5, <2>1 DEF Steps, NoticeSteps, Alerts, Saying, UserRegisteredSteps,
         UserVerifiedSteps, PasswordResetSteps, PasswordChangedSteps, SmsThenEmail
    <2>3. Saying(e) \in Templates
      BY <2>1 DEF Alerts, Saying, Templates, Unguarded
    <2>4. a \in Seq(Allowed(e)) /\ b \in Seq(Allowed(e))
      <3>1. "send" \in Ops(e)
        BY <2>1 DEF Alerts, Ops
      <3> QED
        BY <2>3, <3>1, MessagesAllowed
    <2>5. Holds(a, Z) \/ Holds(b, Z)
      <3>1. \A c \in {"sms", "email"} : P = {<<Saying(e), c, "customer">>} =>
                <<"send", Saying(e), c, "customer">> \in Z
        BY <1>5, VoiceIs DEF Firm, Z
      <3> QED
        BY <2>1, <3>1, HoldsOne DEF ResolveSms, ResolveEmail
    <2> HIDE DEF a, b
    <2> QED
      BY <2>2, <2>4, <2>5, HoldsBoth DEF Z
  <1> QED
    BY <1>1, <1>2, <1>3, <1>4, <1>5 DEF Z

\* What went out stays so.
LEMMA HeardMore ==
  ASSUME Counted, NEW P
  PROVE  /\ told' = told => (Heard(P)' <=> Heard(P))
         /\ \A m : told' = told (+) SetToBag({m}) =>
                (Heard(P) => Heard(P)') /\ (m \in P => Heard(P)') /\ Count(told', m) > 0
                /\ \A k : Count(told, k) > 0 => Count(told', k) > 0
  <1>1. told' = told => (Heard(P)' <=> Heard(P))
    BY DEF Heard
  <1>2. ASSUME NEW m, told' = told (+) SetToBag({m})
        PROVE  /\ (Heard(P) => Heard(P)') /\ (m \in P => Heard(P)') /\ Count(told', m) > 0
               /\ \A k : Count(told, k) > 0 => Count(told', k) > 0
    <2>1. \A k \in DOMAIN told : told[k] \in Nat
      BY DEF Counted
    <2>2. \A k : /\ Count(told, k) \in Nat
                 /\ Count(told (+) SetToBag({m}), k) = Count(told, k) + (IF k = m THEN 1 ELSE 0)
      BY <2>1, CountMore, ZenonT(40)
    <2>3. \A k : /\ Count(told, k) \in Nat
                 /\ Count(told', k) = Count(told, k) + (IF k = m THEN 1 ELSE 0)
      BY <1>2, <2>2, Zenon
    <2>4. /\ \A k : Count(told, k) > 0 => Count(told', k) > 0
          /\ Count(told', m) > 0
      BY <2>3
    <2> QED
      BY <2>4 DEF Heard
  <1> QED
    BY <1>1, <1>2

\* A step after which all is as it should be: before it too, and it fails only if a message
\* about a voucher or an order does not go out.
LEMMA Calmly ==
  ASSUME Common, faults = 0 => missed = {}, NEW s \in Slot, Step(s), Undisturbed'
  PROVE  /\ Undisturbed /\ ~Crash(s) /\ doc' = doc
         /\ \/ faults' = faults
            \/ /\ faults = 0 /\ faults' = 1 /\ missed' = {"send"}
               /\ doc.kind \in {"voucher", "order"} /\ slot[s].todo # <<>> /\ Op(s) = "send"
  <1>0. Typed /\ Apart /\ doc.kind \in Kinds /\ faults \in Nat /\ doc' = doc
    BY FaultsAssumption, NextLasting DEF Common, Typed, Shaped, Next, Lasting
  <1>1. CASE faults' = faults /\ missed' = missed
    <2>1. ~Crash(s)
      BY <1>0, <1>1 DEF Crash
    <2> QED
      BY <1>0, <1>1, <2>1 DEF Undisturbed
  <1>2. CASE faults' = faults + 1
    <2>1. faults = 0 /\ faults' = 1 /\ missed' = {"send"} /\ doc.kind \in {"voucher", "order"}
          /\ missed = {}
      BY <1>0, <1>2 DEF Undisturbed
    <2>2. ~Crash(s)
      BY <2>1 DEF Crash
    <2>3. ~End(s) /\ ~\E n \in queue : Starts(s, n)
      BY <2>1 DEF End, Starts
    <2>4. slot[s].todo # <<>> /\ Does(s)
      BY <1>0, <2>2, <2>3, StepCases
    <2>5. Op(s) = "send"
      BY <1>0, <2>1, <2>4, OperationMoves DEF Moves, Framed
    <2> QED
      BY <1>0, <2>1, <2>2, <2>4, <2>5 DEF Undisturbed
  <1>3. (faults' = faults /\ missed' = missed) \/ faults' = faults + 1
    <2>1. CASE End(s) \/ \E n \in queue : Starts(s, n)
      BY <2>1 DEF End, Starts
    <2>2. CASE Crash(s)
      BY <2>2 DEF Crash
    <2>3. CASE slot[s].todo # <<>> /\ Does(s)
      BY <1>0, <2>3, OperationMoves DEF Moves, Framed
    <2> QED
      BY <1>0, <2>1, <2>2, <2>3, StepCases
  <1> QED
    BY <1>1, <1>2, <1>3

\* The messages of a step that sends.
LEMMA SendingIs ==
  ASSUME Common, NEW s \in Slot, slot[s].todo # <<>>, Op(s) = "send"
  PROVE  /\ slot[s].ev # 0 /\ Ev(s) \in Event /\ "send" \in Ops(Ev(s))
         /\ Head(slot[s].todo) \in Allowed(Ev(s))
         /\ Tail(Head(slot[s].todo)) \in Messages
         /\ \E c \in Channels, a \in Audiences :
                /\ Head(slot[s].todo) = <<"send", Saying(Ev(s)), c, a>>
                /\ Tail(Head(slot[s].todo)) = <<Saying(Ev(s)), c, a>>
  <1>0. Typed /\ Apart
    BY DEF Common
  <1> DEFINE q == Head(slot[s].todo)
  <1>1. slot[s].ev # 0 /\ Ev(s) \in Event /\ q \in Allowed(Ev(s)) /\ q[1] = "send"
    BY <1>0, Working DEF Op
  <1> HIDE DEF q
  <1>2. /\ q = <<"send", Saying(Ev(s)), q[3], q[4]>> /\ q[3] \in Channels /\ q[4] \in Audiences
        /\ "send" \in Ops(Ev(s)) /\ Tail(q) = <<Saying(Ev(s)), q[3], q[4]>> /\ Tail(q) \in Messages
    BY <1>1, StepIs, SaidRow
  <1> QED
    BY <1>1, <1>2 DEF q

\* The steps that answer what is owed do not become fewer with a fault.
LEMMA VoiceMore ==
  ASSUME doc' = doc, faults \in Nat, faults' \in {faults, faults + 1}, NEW P, NEW q,
         Holds(q, Voice(P))
  PROVE  Holds(q, Voice(P)')
  <1>1. \A m : Firm(m) => Firm(m)'
    BY DEF Firm
  <1>2. Voice(P) \subseteq Voice(P)'
    BY <1>1 DEF Voice
  <1> QED
    BY <1>2 DEF Holds

\* Sending what is owed: it goes out, went out before, or falls back on another channel.
LEMMA AnsweringSend ==
  ASSUME Common, HearInv, faults = 0 => missed = {}, NEW s \in Slot, slot[s].todo # <<>>,
         Op(s) = "send", Does(s), Step(s), Undisturbed', NEW P \in Owed(Ev(s)), slot'[s].ev # 0
  PROVE  Heard(P)' \/ Holds(slot'[s].todo, Voice(P)')
  <1> DEFINE q == Head(slot[s].todo)
             m == Tail(q)
             tail == Tail(slot[s].todo)
             key == DedupKey(slot[s].ev, m)
             S == Allowed(Ev(s))
  <1>0. /\ Typed /\ Apart /\ Counted /\ doc.kind \in Kinds /\ faults \in Nat
        /\ slot \in [Slot -> Hand(AnyStep)]
    BY FaultsAssumption DEF Common, Typed, Shaped
  <1>1. /\ Undisturbed /\ doc' = doc
        /\ \/ faults' = faults
           \/ /\ faults = 0 /\ faults' = 1 /\ missed' = {"send"}
              /\ doc.kind \in {"voucher", "order"}
    BY Calmly
  <1>2. Send(s)
    BY DEF Does
  <1>3. slot[s].ev # 0 /\ Ev(s) \in Event
    BY SendingIs
  <1>4. PICK c \in Channels, a \in Audiences :
            q = <<"send", Saying(Ev(s)), c, a>> /\ m = <<Saying(Ev(s)), c, a>>
    BY SendingIs
  <1>5. slot[s].todo \in Seq(S) /\ tail \in Seq(S)
    BY <1>0, Working
  <1>6. told' = told \/ told' = told (+) SetToBag({m})
    BY <1>2 DEF Send
  <1>7. \A R : Heard(R) => Heard(R)'
    <2> HIDE DEF m
    <2> QED
      BY <1>0, <1>6, HeardMore
  <1>8. Heard(P) \/ q \in Voice(P) \/ Holds(tail, Voice(P))
    <2>1. Heard(P) \/ Holds(slot[s].todo, Voice(P))
      BY <1>3 DEF HearInv, Answering
    <2> HIDE DEF q, tail, S
    <2> QED
      BY <1>5, <2>1, HoldsRest DEF q, tail
  <1>9. ASSUME Holds(tail, Voice(P)) PROVE Holds(slot'[s].todo, Voice(P)')
    <2>1. PICK then \in Follows(s) : Goes(s, then)
      <3>1. slot'[s] # Idle
        BY DEF Idle
      <3> QED
        BY <1>0, <3>1, OperationMoves DEF Moves, Raises, Stops, Becomes
    <2>2. slot'[s].todo = then \o tail
      BY <1>0, <2>1 DEF Goes, Becomes
    <2>3. then \in Seq(S)
      BY <1>0, GoesAllowed
    <2> HIDE DEF tail, S
    <2>4. Holds(slot'[s].todo, Voice(P))
      BY <1>5, <1>9, <2>2, <2>3, HoldsBoth
    <2> QED
      BY <1>0, <1>1, <2>4, VoiceMore
  <1>10. ASSUME q \in Voice(P) PROVE Heard(P)' \/ Holds(slot'[s].todo, Voice(P)')
    <2>1. m \in P /\ Firm(m)
      <3>1. q[1] = "send"
        BY <1>4
      <3>2. PICK k \in P : Firm(k) /\ q = <<"send", k[1], k[2], k[3]>>
        BY <1>10, <3>1, VoiceIs
      <3>3. k = <<k[1], k[2], k[3]>>
        BY <1>0, OwedIs
      <3>4. k[1] = Saying(Ev(s)) /\ k[2] = c /\ k[3] = a
        BY <1>4, <3>2
      <3>5. k = m
        BY <1>4, <3>3, <3>4
      <3> QED
        BY <3>2, <3>5
    <2>2. ASSUME key \in claims PROVE Heard(P)'
      <3>1. Count(told, <<key[1], key[2], key[3]>>) > 0
        BY <2>2 DEF HearInv
      <3>2. key[1] = m[1] /\ key[2] = m[2] /\ key[3] = m[3]
        BY DEF DedupKey
      <3>3. m = <<m[1], m[2], m[3]>>
        BY <1>0, <2>1, OwedIs
      <3>4. Count(told, m) > 0
        BY <3>1, <3>2, <3>3, Zenon
      <3>5. Heard(P)
        BY <2>1, <3>4 DEF Heard
      <3> QED
        BY <1>7, <3>5
    <2>3. ASSUME told' = told (+) SetToBag({m}) PROVE Heard(P)'
      <3> HIDE DEF m
      <3> QED
        BY <1>0, <2>1, <2>3, HeardMore
    <2>4. ASSUME key \notin claims, told' # told (+) SetToBag({m})
          PROVE  Holds(slot'[s].todo, Voice(P)')
      <3>1. faults' # faults
        BY <1>0, <1>2, <2>4 DEF Send
      <3>2. faults = 0 /\ faults' = 1 /\ missed' = {"send"} /\ doc.kind \in {"voucher", "order"}
        BY <1>1, <3>1
      <3>3. m[1] \in {"active", "order"} /\ <<m[1], "sms", m[3]>> \in P /\ m[2] = "whatsapp"
        <4>1. m[1] \in {"active", "order"} /\ <<m[1], "sms", m[3]>> \in P
              /\ m[2] \in {"whatsapp", "sms"}
          BY <1>0, <2>1, <3>2, OwedIs
        <4>2. m[2] # "sms"
          <5> HIDE DEF m
          <5> QED
            BY <2>1, <3>2 DEF Firm
        <4> QED
          BY <4>1, <4>2
      <3>4. m[1] \notin Trusting /\ m[1] \notin Unguarded
        BY <3>3 DEF Trusting, Unguarded
      <3>5. Fallback(m) = << <<"send", m[1], "sms", m[3]>> >>
        BY <3>3 DEF Fallback, FallsBack
      <3>6. slot'[s] = After(s, Fallback(m))
        <4>1. slot'[s] # Idle
          BY DEF Idle
        <4>2. Becomes(s, After(s, Fallback(m)))
          <5>1. \/ Becomes(s, After(s, Fallback(m)))
                \/ Becomes(s, Idle)
            <6>1. told' = told /\ faults' # faults /\ key \notin claims
              BY <1>6, <2>4, <3>1
            <6>2. \/ Becomes(s, After(s, IF m[1] \in Trusting THEN <<>> ELSE Fallback(m)))
                  \/ Becomes(s, IF m[1] \in Unguarded THEN Idle ELSE After(s, Fallback(m)))
                  \/ Becomes(s, Idle)
              <7> HIDE DEF m, key
              <7>1. /\ m = Tail(Head(slot[s].todo)) /\ key = DedupKey(slot[s].ev, m)
                    /\ told' # told (+) SetToBag({m})
                BY <2>4 DEF m, key
              <7> QED
                BY <1>2, <6>1, <7>1 DEF Send
            <6> QED
              BY <3>4, <6>2
          <5> QED
            BY <1>0, <4>1, <5>1 DEF Becomes
        <4> QED
          BY <1>0, <4>2 DEF Becomes
      <3>7. slot'[s].todo = Fallback(m) \o tail
        <4> DEFINE f == Fallback(m)
        <4> HIDE DEF f
        <4>1. After(s, f).todo = f \o Tail(slot[s].todo)
          BY <1>0, AfterIs
        <4> QED
          BY <3>6, <4>1 DEF f
      <3>8. <<"send", m[1], "sms", m[3]>> \in Voice(P)'
        <4>1. \A k : Firm(k)'
          BY <3>2 DEF Firm
        <4>2. \A x, y : <<x, "sms", y>> \in P => <<"send", x, "sms", y>> \in Voice(P)'
          BY <4>1 DEF Voice
        <4> HIDE DEF m
        <4> QED
          BY <3>3, <4>2
      <3>9. Fallback(m) \in Seq(S)
        BY <1>3, SendingIs, SaidRow, StepIs
      <3> HIDE DEF m, tail, S, q
      <3>10. Holds(Fallback(m), Voice(P)')
        BY <3>5, <3>8, HoldsOne
      <3> QED
        BY <1>5, <3>7, <3>9, <3>10, HoldsBoth
    <2> QED
      BY <2>2, <2>3, <2>4
  <1> QED
    BY <1>7, <1>8, <1>9, <1>10

\* The events to which something is owed.
LEMMA OwedTypes ==
  ASSUME doc.kind \in Kinds, NEW e, NEW P \in Owed(e)
  PROVE  /\ e.type \in Confirms \cup Alerts
                \cup {"voucher_active", "order_created", "gift_purchase_completed"}
         /\ "change_row" \notin Ops(e)
  <1>1. e.type \in Confirms \cup Alerts
            \cup {"voucher_active", "order_created", "gift_purchase_completed"}
    BY DEF Owed
  <1>2. "change_row" \notin Ops(e)
    BY <1>1 DEF Confirms, Alerts, Ops
  <1> QED
    BY <1>1, <1>2

\* The confirmation is a message that is owed.
LEMMA ConfirmationOwed ==
  ASSUME doc.kind = "booking", ~GiftVoucher
  PROVE  Holds(ConfirmationSteps, Voice(Acknowledged))
  <1> DEFINE p == PhoneSteps("confirmed")
             m == EmailSteps("confirmed")
             S == {"send"} \X {"confirmed"} \X Channels \X {"customer"}
             Z == Voice(Acknowledged)
  <1>1. \A c \in {"whatsapp", "sms"} : <<"send", "confirmed", c, "customer">> \in Z
    <2>1. \A c \in {"whatsapp", "sms"} : /\ <<"confirmed", c, "customer">> \in Acknowledged
                                         /\ Firm(<<"confirmed", c, "customer">>)
      BY DEF Acknowledged, OnPhone, Firm
    <2> QED
      BY <2>1, VoiceIs
  <1>2. \E c \in {"whatsapp", "sms"} : p = << <<"send", "confirmed", c, "customer">> >>
    BY DEF PhoneSteps
  <1>3. m \in Seq(S)
    BY ConfirmationIs
  <1>4. p \in Seq(S)
    <2>1. \A c \in {"whatsapp", "sms"} : <<"send", "confirmed", c, "customer">> \in S
      BY DEF Channels
    <2> HIDE DEF p, S
    <2> QED
      BY <1>2, <2>1, Lists
  <1>5. ConfirmationSteps = p \o m
    BY DEF ConfirmationSteps
  <1> HIDE DEF p, m, S, Z
  <1>6. Holds(p, Z)
    BY <1>1, <1>2, HoldsOne
  <1> QED
    BY <1>3, <1>4, <1>5, <1>6, HoldsBoth DEF Z

\* Any other step than sending: what is owed is still to be sent, or was found sent.
LEMMA AnsweringOther ==
  ASSUME Common, HearInv, faults = 0 => missed = {}, NEW s \in Slot, slot[s].todo # <<>>,
         Op(s) # "send", Does(s), Step(s), Undisturbed', NEW P \in Owed(Ev(s)), slot'[s].ev # 0
  PROVE  Heard(P)' \/ Holds(slot'[s].todo, Voice(P)')
  <1> DEFINE q == Head(slot[s].todo)
             tail == Tail(slot[s].todo)
             S == Allowed(Ev(s))
  <1>0. /\ Typed /\ Apart /\ Counted /\ doc.kind \in Kinds /\ faults \in Nat
        /\ slot \in [Slot -> Hand(AnyStep)]
    BY FaultsAssumption DEF Common, Typed, Shaped
  <1>1. doc' = doc /\ faults' = faults
    BY Calmly
  <1>2. Moves(s) /\ told' = told
    BY <1>0, OperationMoves DEF Moves, Framed
  <1>3. /\ slot[s].ev # 0 /\ Ev(s) \in Event /\ slot[s].todo \in Seq(S) /\ tail \in Seq(S)
        /\ q \in S /\ q[1] = Op(s)
    BY <1>0, Working DEF Op
  <1>4. PICK then \in Follows(s) : slot'[s].todo = then \o tail /\ then \in Seq(S)
    <2>1. slot'[s] # Idle
      BY DEF Idle
    <2>2. ~Stops(s)
      <3>1. Op(s) \in Ops(Ev(s))
        BY <1>3, StepIs
      <3> QED
        BY <1>0, <3>1, OwedTypes DEF Stops
    <2>3. PICK then \in Follows(s) : Goes(s, then)
      BY <1>0, <1>2, <2>1, <2>2 DEF Moves, Raises, Becomes
    <2>4. slot'[s].todo = then \o tail
      BY <1>0, <2>3 DEF Goes, Becomes
    <2> QED
      BY <1>0, <2>4, GoesAllowed
  <1>5. \A R : Heard(R) => Heard(R)'
    BY <1>0, <1>2, HeardMore
  <1>6. \A z : Holds(z, Voice(P)) => Holds(z, Voice(P)')
    BY <1>0, <1>1, VoiceMore
  <1>7. Heard(P) \/ q \in Voice(P) \/ Holds(tail, Voice(P))
    <2>1. Heard(P) \/ Holds(slot[s].todo, Voice(P))
      BY <1>3 DEF HearInv, Answering
    <2> HIDE DEF q, tail, S
    <2> QED
      BY <1>3, <2>1, HoldsRest DEF q, tail
  <1>8. ASSUME Holds(tail, Voice(P)) PROVE Holds(slot'[s].todo, Voice(P)')
    <2> HIDE DEF tail, S
    <2>1. Holds(slot'[s].todo, Voice(P))
      BY <1>3, <1>4, <1>8, HoldsBoth
    <2> QED
      BY <1>6, <2>1
  <1>9. ASSUME q \in Voice(P) PROVE Heard(P)' \/ Holds(slot'[s].todo, Voice(P)')
    <2>1. q = <<"check_sent">> /\ doc.kind = "booking" /\ Op(s) = "check_sent"
      <3>1. ASSUME NEW m, q = <<"send", m[1], m[2], m[3]>> PROVE FALSE
        BY <1>3, <3>1
      <3>2. q = <<"check_sent">> /\ doc.kind = "booking"
        BY <1>9, <3>1, VoiceIs
      <3> QED
        BY <1>3, <3>2
    <2>2. P = Acknowledged /\ ~GiftVoucher
      BY <1>0, <2>1, OwedIs
    <2>3. CheckAlreadySent(s)
      BY <2>1 DEF Does
    <2>4. slot'[s] = After(s, IF "confirmed" \in rows \cup slot[s].rows
                              THEN <<>> ELSE ConfirmationSteps)
      BY <1>0, <1>1, <2>3 DEF CheckAlreadySent, Call, Becomes
    <2>5. CASE "confirmed" \in rows \cup slot[s].rows
      <3>1. Heard(P)
        BY <2>1, <2>2, <2>5 DEF HearInv, Marked
      <3> QED
        BY <1>5, <3>1
    <2>6. CASE "confirmed" \notin rows \cup slot[s].rows
      <3>1. slot'[s].todo = ConfirmationSteps \o tail
        <4>1. After(s, ConfirmationSteps).todo = ConfirmationSteps \o tail
          BY <1>0, AfterIs
        <4> QED
          BY <2>4, <2>6, <4>1
      <3>2. ConfirmationSteps \in Seq(S)
        <4>1. ConfirmationSteps \in Follows(s)
          BY <2>1 DEF Follows
        <4> QED
          BY <1>0, <4>1, GoesAllowed
      <3>3. Holds(ConfirmationSteps, Voice(P))
        BY <2>1, <2>2, ConfirmationOwed
      <3> HIDE DEF tail, S
      <3>4. Holds(slot'[s].todo, Voice(P))
        BY <1>3, <3>1, <3>2, <3>3, HoldsBoth
      <3> QED
        BY <1>6, <3>4
    <2> QED
      BY <2>5, <2>6
  <1> QED
    BY <1>5, <1>7, <1>8, <1>9

\* Messages that leave a row of the confirmation's name.
LEMMA ConfirmedRow ==
  ASSUME Common, doc.kind = "booking", NEW s \in Slot, Owning(s), slot[s].todo # <<>>,
         Op(s) = "send", Tail(Head(slot[s].todo))[2] # "email",
         RowOf(Tail(Head(slot[s].todo))) = "confirmed"
  PROVE  Tail(Head(slot[s].todo)) \in Acknowledged
  <1> DEFINE q == Head(slot[s].todo)
             m == Tail(q)
  <1>0. Typed /\ Apart
    BY DEF Common
  <1>1. slot[s].ev # 0 /\ Ev(s) \in BookingEvent
    BY SendingIs DEF Event
  <1>2. PICK c \in Channels, a \in Audiences :
            q = <<"send", Saying(Ev(s)), c, a>> /\ m = <<Saying(Ev(s)), c, a>>
    BY SendingIs
  <1>3. m[1] = Saying(Ev(s)) /\ m[2] = c /\ q[1] = "send" /\ q[4] = a
    <2> HIDE DEF q, m
    <2> QED
      BY <1>2
  <1>4. m[1] \in {"confirmed", "receipt"}
    <2> HIDE DEF m
    <2> QED
      BY DEF RowOf, m
  <1>5. Ev(s).type \in Confirms \cup {"payment_success"}
    BY <1>1, <1>3, <1>4 DEF Saying, Confirms, BookingEvent, BookingTypes
  <1>6. a = "customer"
    <2>1. q \in Own
      <3>1. slot[s].todo \in Seq(Own)
        BY <1>1, <1>5 DEF Owning
      <3> QED
        BY <3>1
    <2> QED
      BY <1>3, <2>1 DEF Own
  <1>7. c \in {"whatsapp", "sms"}
    BY <1>3 DEF Channels
  <1>8. \A t \in {"confirmed", "receipt"}, d \in {"whatsapp", "sms"} :
            <<t, d, "customer">> \in Acknowledged
    BY DEF Acknowledged, OnPhone
  <1> QED
    BY <1>2, <1>3, <1>4, <1>6, <1>7, <1>8

\* No step of these handlers sends to anybody else.
LEMMA OwnSteps ==
  ASSUME doc.kind = "booking", NEW e \in BookingEvent, e.type \in Confirms \cup {"payment_success"}
  PROVE  Steps(e) \in Seq(Own)
  <1>1. CASE e.type \in Confirms
    <2>1. Steps(e) \in Seq(Allowed(e))
      BY StepsAllowed DEF Event
    <2>2. ~Has(Steps(e), {"send"})
      BY <1>1, ConfirmingEnds DEF Ends
    <2> DEFINE q == Steps(e)
    <2>3. \A i \in DOMAIN q : q[i] \in AnyStep /\ q[i][1] # "send"
      BY <2>1, <2>2 DEF Has, Allowed
    <2>4. \A i \in DOMAIN q : q[i] \in Own
      BY <2>3 DEF Own
    <2> HIDE DEF q
    <2>5. q \in Seq(Own)
      <3>1. q \in Seq(Allowed(e))
        BY <2>1 DEF q
      <3> QED
        BY <2>4, <3>1, SeqDef
    <2> QED
      BY <2>5 DEF q
  <1>2. CASE e.type = "payment_success"
    <2>1. \A c \in Channels : <<"send", "receipt", c, "customer">> \in Own
      <3>1. \A c \in Channels : <<"send", "receipt", c, "customer">>[4] = "customer"
        OBVIOUS
      <3>2. \A c \in Channels : <<"send", "receipt", c, "customer">> \in AnyStep
        BY DEF AnyStep, Templates, Unguarded, Audiences
      <3> QED
        BY <3>1, <3>2 DEF Own
    <2>2. \A c \in {"sms", "email"} : << <<"send", "receipt", c, "customer">> >> \in Seq(Own)
      BY <2>1, Lists DEF Channels
    <2>3. EmailSteps("receipt") \in Seq(Own)
      BY <2>2, Lists DEF EmailSteps
    <2>4. Steps(e) = << <<"send", "receipt", "sms", "customer">> >> \o EmailSteps("receipt")
      BY <1>2 DEF Steps, BookingSteps, PaymentSuccessSteps
    <2> QED
      BY <2>2, <2>3, <2>4, Lists
  <1> QED
    BY <1>1, <1>2

LEMMA OwnFollows ==
  ASSUME Common, doc.kind = "booking", NEW s \in Slot, slot[s].todo # <<>>, Owning(s),
         Ev(s).type \in Confirms \cup {"payment_success"}, NEW then \in Follows(s)
  PROVE  then \o Tail(slot[s].todo) \in Seq(Own)
  <1> DEFINE q == Head(slot[s].todo)
             tail == Tail(slot[s].todo)
  <1>0. Typed /\ Apart
    BY DEF Common
  <1>1. slot[s].todo \in Seq(Own) /\ q \in Own /\ tail \in Seq(Own) /\ q[1] = Op(s)
    <2>1. slot[s].todo \in Seq(Own)
      BY <1>0, Working DEF Owning
    <2> QED
      BY <2>1 DEF Op
  <1>2. then \in Seq(Own)
    <2>1. \A op \in Plain : op # "send" => << <<op>> >> \in Seq(Own)
      <3>1. \A op \in Plain : op # "send" => <<op>> \in Own
        BY DEF Own, AnyStep
      <3> QED
        BY <3>1, Lists
    <2>2. CASE then = <<>>
      BY <2>2, Lists
    <2>3. CASE Op(s) = "check_sent"
      <3>1. ConfirmationSteps \in Seq({"send"} \X {"confirmed"} \X Channels \X {"customer"})
        BY ConfirmationIs
      <3>2. {"send"} \X {"confirmed"} \X Channels \X {"customer"} \subseteq Own
        <4>1. "confirmed" \in Templates /\ "customer" \in Audiences
          BY DEF Templates, Trusting, Audiences
        <4> QED
          BY <4>1 DEF Own, AnyStep
      <3>3. ConfirmationSteps \in Seq(Own)
        BY <3>1, <3>2, SeqMonotonic
      <3> QED
        BY <2>2, <2>3, <3>3 DEF Follows
    <2>4. CASE Op(s) = "send"
      <3>1. PICK c \in Channels, a \in Audiences :
                q = <<"send", Saying(Ev(s)), c, a>> /\ Tail(q) = <<Saying(Ev(s)), c, a>>
        BY <2>4, SendingIs
      <3>2. a = "customer" /\ Saying(Ev(s)) \in Templates
        <4>1. q[1] = "send" /\ q[4] = a /\ q \in Own
          <5> HIDE DEF q
          <5> QED
            BY <1>1, <3>1
        <4>2. Saying(Ev(s)) \in Templates
          BY <1>0, <4>1, Working, StepIs
        <4> QED
          BY <4>1, <4>2 DEF Own
      <3>3. <<"send", Saying(Ev(s)), "sms", a>> \in Own
        <4>1. <<"send", Saying(Ev(s)), "sms", a>>[4] = "customer"
          BY <3>2
        <4>2. <<"send", Saying(Ev(s)), "sms", a>> \in AnyStep
          BY <3>2 DEF AnyStep, Channels
        <4> QED
          BY <4>1, <4>2 DEF Own
      <3>4. Tail(q)[1] = Saying(Ev(s)) /\ Tail(q)[3] = a
        <4> HIDE DEF q
        <4> QED
          BY <3>1
      <3>5. \/ Fallback(Tail(q)) = <<>>
            \/ Fallback(Tail(q)) = << <<"send", Saying(Ev(s)), "sms", a>> >>
        BY <3>4 DEF Fallback
      <3>6. Fallback(Tail(q)) \in Seq(Own)
        <4> HIDE DEF q
        <4> QED
          BY <3>3, <3>5, Lists
      <3> QED
        BY <2>2, <2>4, <3>6 DEF Follows
    <2>5. CASE Op(s) \notin {"check_sent", "send"} /\ then # <<>>
      <3>1. \E op \in {"invoice", "link_payments", "link_booking", "mark_row", "partner",
                       "link_note"} : then = << <<op>> >>
        BY <2>5 DEF Follows
      <3> QED
        BY <2>1, <3>1, PlainOps
    <2> QED
      BY <2>2, <2>3, <2>4, <2>5
  <1> HIDE DEF tail
  <1>3. then \o tail \in Seq(Own)
    BY <1>1, <1>2, Lists
  <1> QED
    BY <1>3 DEF tail

\* So it stays.
LEMMA OwningStep ==
  ASSUME Common, \A t \in Slot : Owning(t), NEW s \in Slot, Step(s)
  PROVE  \A t \in Slot : Owning(t)'
  <1>0. /\ Typed /\ Apart /\ doc.kind \in Kinds /\ doc' = doc
        /\ slot \in [Slot -> Hand(AnyStep)] /\ log \in Seq(Event) /\ queue \subseteq DOMAIN log
    BY NextLasting DEF Common, Typed, Shaped, Next, Lasting
  <1>1. PICK l : SlotForm(s, l)
    BY <1>0, SlotForms
  <1>2. log' = log /\ slot' = [slot EXCEPT ![s] = l]
    BY <1>1 DEF SlotForm
  <1>3. \A t \in Slot : t # s => Owning(t)'
    BY <1>0, <1>2 DEF Owning, Ev
  <1>4. ASSUME doc.kind = "booking", slot'[s].ev # 0,
               (Ev(s).type)' \in Confirms \cup {"payment_success"}
        PROVE  slot'[s].todo \in Seq(Own)
    <2>1. slot'[s] # Idle
      BY <1>4 DEF Idle
    <2>2. ASSUME NEW n \in queue, Starts(s, n) PROVE slot'[s].todo \in Seq(Own)
      <3>1. slot'[s].ev = n /\ slot'[s].todo = Steps(log[n])
        BY <1>0, <2>2 DEF Starts, Becomes, Idle
      <3>2. log[n] \in BookingEvent /\ log[n].type \in Confirms \cup {"payment_success"}
        BY <1>0, <1>2, <1>4, <3>1 DEF Ev, Event
      <3> QED
        BY <1>4, <3>1, <3>2, OwnSteps
    <2>3. ASSUME slot[s].todo # <<>>, Does(s) PROVE slot'[s].todo \in Seq(Own)
      <3>1. CASE Stops(s)
        BY <1>0, <3>1, Lists DEF Stops, Becomes
      <3>2. ASSUME NEW then \in Follows(s), Goes(s, then) PROVE slot'[s].todo \in Seq(Own)
        <4>1. slot'[s].ev = slot[s].ev /\ slot'[s].todo = then \o Tail(slot[s].todo)
          BY <1>0, <3>2 DEF Goes, Becomes
        <4>2. Ev(s).type \in Confirms \cup {"payment_success"}
          BY <1>2, <1>4, <4>1 DEF Ev
        <4> QED
          BY <1>4, <2>3, <4>1, <4>2, OwnFollows
      <3>3. ~Raises(s)
        BY <1>0, <2>1 DEF Raises, Becomes
      <3> QED
        BY <1>0, <2>3, <3>1, <3>2, <3>3, OperationMoves DEF Moves
    <2>4. ~End(s) /\ ~Crash(s)
      BY <1>0, <2>1 DEF End, Crash, Becomes
    <2> QED
      BY <1>0, <2>2, <2>3, <2>4, StepCases
  <1>5. Owning(s)'
    BY <1>0, <1>4 DEF Owning
  <1> QED
    BY <1>3, <1>5

\* What is owed depends on the document and the event only.
LEMMA OwedSame ==
  ASSUME doc' = doc
  PROVE  \A e : Owed(e)' = Owed(e)
  BY DEF Owed, Given, GiftVoucher

\* An operation: what was heard stays so, and a key is claimed for a message that went out.
LEMMA HearTells ==
  ASSUME Common, HearInv, faults = 0 => missed = {}, NEW s \in Slot, slot[s].todo # <<>>,
         Does(s), Step(s), Undisturbed'
  PROVE  /\ \A P : Heard(P) => Heard(P)'
         /\ \A k \in claims' : Count(told', <<k[1], k[2], k[3]>>) > 0
  <1>0. /\ Typed /\ Apart /\ Counted /\ doc.kind \in Kinds /\ faults \in Nat
        /\ slot \in [Slot -> Hand(AnyStep)]
        /\ \A k \in claims : Count(told, <<k[1], k[2], k[3]>>) > 0
    BY FaultsAssumption DEF Common, Typed, Shaped, HearInv
  <1>1. ASSUME told' = told, claims' = claims
        PROVE  /\ \A P : Heard(P) => Heard(P)'
               /\ \A k \in claims' : Count(told', <<k[1], k[2], k[3]>>) > 0
    BY <1>0, <1>1, HeardMore
  <1>2. CASE Op(s) # "send"
    BY <1>0, <1>1, <1>2, OperationMoves DEF Moves, Framed
  <1>3. CASE Op(s) = "send"
    <2> DEFINE m == Tail(Head(slot[s].todo))
               key == DedupKey(slot[s].ev, m)
    <2>1. Send(s)
      BY <1>3 DEF Does
    <2>2. \/ told' = told /\ claims' = claims
          \/ told' = told (+) SetToBag({m}) /\ claims' \in {claims, claims \cup {key}}
      <3>1. \/ faults' = faults
            \/ faults = 0 /\ faults' = 1 /\ missed' = {"send"} /\ missed = {}
        BY Calmly
      <3> HIDE DEF m, key
      <3>2. m = Tail(Head(slot[s].todo)) /\ key = DedupKey(slot[s].ev, m)
        BY DEF m, key
      <3> QED
        BY <1>0, <2>1, <3>1, <3>2 DEF Send
    <2>3. /\ m = <<m[1], m[2], m[3]>>
          /\ key[1] = m[1] /\ key[2] = m[2] /\ key[3] = m[3]
      <3>1. PICK c \in Channels, a \in Audiences : m = <<Saying(Ev(s)), c, a>>
        BY <1>3, SendingIs
      <3>2. \A x, y, z : <<x, y, z>> = << <<x, y, z>>[1], <<x, y, z>>[2], <<x, y, z>>[3] >>
        OBVIOUS
      <3> HIDE DEF m
      <3>3. m = <<m[1], m[2], m[3]>>
        BY <3>1, <3>2, Zenon
      <3> QED
        BY <3>3 DEF DedupKey
    <2>4. CASE told' = told (+) SetToBag({m}) /\ claims' \in {claims, claims \cup {key}}
      <3> HIDE DEF m, key
      <3>1. /\ \A P : Heard(P) => Heard(P)'
            /\ Count(told', m) > 0
            /\ \A k : Count(told, k) > 0 => Count(told', k) > 0
        BY <1>0, <2>4, HeardMore
      <3>2. Count(told', <<key[1], key[2], key[3]>>) > 0
        BY <2>3, <3>1, Zenon
      <3> QED
        BY <1>0, <2>4, <3>1, <3>2
    <2> QED
      BY <1>1, <2>2, <2>4
  <1> QED
    BY <1>2, <1>3

\* A row of the confirmation's name stands for a message that went out.
LEMMA MarkedHeard ==
  ASSUME Common, HearInv, faults = 0 => missed = {}, NEW s \in Slot, slot[s].todo # <<>>,
         Does(s), Step(s), Undisturbed', doc.kind = "booking", Owning(s), Marked'
  PROVE  Heard(Acknowledged)'
  <1> DEFINE m == Tail(Head(slot[s].todo))
  <1>0. /\ Typed /\ Apart /\ Counted /\ slot \in [Slot -> Hand(AnyStep)]
    BY DEF Common, Typed
  <1>1. \A P : Heard(P) => Heard(P)'
    BY HearTells
  <1>2. rows' = rows /\ Moves(s)
    BY <1>0, OperationMoves DEF Moves, Framed
  <1>3. \A t \in Slot : t # s => slot'[t] = slot[t]
    BY <1>0, <1>2 DEF Moves, Raises, Stops, Goes, Becomes
  <1>4. CASE Marked
    BY <1>1, <1>4 DEF HearInv
  <1>5. CASE ~Marked
    <2>1. "confirmed" \in slot'[s].rows /\ "confirmed" \notin slot[s].rows
      BY <1>2, <1>3, <1>5 DEF Marked
    <2>2. Op(s) = "send"
      <3>1. ~Raises(s)
        BY <1>0, <2>1 DEF Raises, Becomes, Idle
      <3>2. ~Stops(s)
        <4>1. slot[s] = [ev |-> slot[s].ev, todo |-> slot[s].todo, got |-> slot[s].got,
                         rows |-> slot[s].rows]
          BY <1>0, Working
        <4>2. [slot[s] EXCEPT !.todo = <<>>].rows = slot[s].rows
          BY <4>1
        <4> QED
          BY <1>0, <2>1, <4>2 DEF Stops, Becomes
      <3>3. PICK then \in Follows(s) : Goes(s, then)
        BY <1>2, <3>1, <3>2 DEF Moves
      <3> QED
        BY <1>0, <2>1, <3>3 DEF Goes, Becomes
    <2>3. Send(s)
      BY <2>2 DEF Does
    <2>4. /\ m[2] # "email" /\ RowOf(m) = "confirmed" /\ told' = told (+) SetToBag({m})
      <3> DEFINE kept == IF m[2] = "email" THEN {} ELSE {RowOf(m)}
                 noted == [After(s, <<>>) EXCEPT !.rows = @ \cup kept]
      <3>1. /\ \A then : After(s, then).rows = slot[s].rows
            /\ noted.rows = slot[s].rows \cup kept
        <4>1. \A then : After(s, then) \in [ev : {slot[s].ev}, todo : {then \o Tail(slot[s].todo)},
                                            got : {slot[s].got}, rows : {slot[s].rows}]
          BY <1>0, AfterIs
        <4> HIDE DEF kept
        <4> QED
          BY <4>1
      <3>2. ~Becomes(s, Idle) /\ \A then : ~Becomes(s, After(s, then))
        BY <1>0, <2>1, <3>1 DEF Becomes, Idle
      <3>3. Becomes(s, noted) /\ told' = told (+) SetToBag({m})
        <4> HIDE DEF m, noted
        <4>1. m = Tail(Head(slot[s].todo))
              /\ noted = [After(s, <<>>) EXCEPT !.rows =
                              @ \cup (IF m[2] = "email" THEN {} ELSE {RowOf(m)})]
          BY DEF m, noted
        <4> QED
          BY <2>3, <3>2, <4>1 DEF Send
      <3>4. "confirmed" \in kept
        <4> HIDE DEF kept, noted
        <4> QED
          BY <1>0, <2>1, <3>1, <3>3 DEF Becomes
      <3> QED
        BY <3>3, <3>4
    <2>5. m \in Acknowledged
      BY <2>2, <2>4, ConfirmedRow
    <2> HIDE DEF m
    <2> QED
      BY <1>0, <2>4, <2>5, HeardMore
  <1> QED
    BY <1>4, <1>5

\* An operation keeps all of it.
LEMMA HearDoes ==
  ASSUME Common, HearInv, faults = 0 => missed = {}, \A t \in Slot : Owning(t),
         NEW s \in Slot, slot[s].todo # <<>>, Does(s), Step(s), Undisturbed'
  PROVE  HearInv'
  <1>0. /\ Typed /\ Apart /\ Counted /\ doc.kind \in Kinds /\ faults \in Nat
        /\ slot \in [Slot -> Hand(AnyStep)]
    BY FaultsAssumption DEF Common, Typed, Shaped
  <1>1. doc' = doc /\ faults' \in {faults, faults + 1}
    BY <1>0, Calmly
  <1>2. \A e : Owed(e)' = Owed(e)
    BY <1>1, OwedSame
  <1>3. /\ \A P : Heard(P) => Heard(P)'
        /\ \A k \in claims' : Count(told', <<k[1], k[2], k[3]>>) > 0
    BY HearTells
  <1>4. log' = log /\ queue' = queue /\ Moves(s)
    BY <1>0, OperationMoves DEF Moves, Framed
  <1>5. /\ \A t \in Slot : t # s => slot'[t] = slot[t]
        /\ slot'[s].ev \in {0, slot[s].ev}
    <2>1. \A t \in Slot : t # s => slot'[t] = slot[t]
      BY <1>0, <1>4 DEF Moves, Raises, Stops, Goes, Becomes
    <2>2. Raises(s) => slot'[s].ev = 0
      BY <1>0 DEF Raises, Becomes, Idle
    <2>3. Stops(s) => slot'[s].ev = slot[s].ev
      <3>1. slot[s] = [ev |-> slot[s].ev, todo |-> slot[s].todo, got |-> slot[s].got,
                       rows |-> slot[s].rows]
        BY <1>0, Working
      <3>2. [slot[s] EXCEPT !.todo = <<>>].ev = slot[s].ev
        BY <3>1
      <3> QED
        BY <1>0, <3>2 DEF Stops, Becomes
    <2>4. \A then : Goes(s, then) => slot'[s].ev = slot[s].ev
      BY <1>0 DEF Goes, Becomes
    <2> QED
      BY <1>4, <2>1, <2>2, <2>3, <2>4 DEF Moves
  <1>6. \A n \in DOMAIN log' \ queue' : \A P \in Owed(log[n])' : Heard(P)'
    BY <1>2, <1>3, <1>4 DEF HearInv
  <1>7. ASSUME NEW t \in Slot, slot'[t].ev # 0, NEW P \in Owed(Ev(t))'
        PROVE  Heard(P)' \/ Holds(slot'[t].todo, Voice(P)')
    <2>1. slot'[t].ev = slot[t].ev /\ Ev(t)' = Ev(t)
      BY <1>4, <1>5, <1>7 DEF Ev
    <2>2. P \in Owed(Ev(t))
      BY <1>2, <1>7, <2>1
    <2>3. CASE t = s
      BY <1>7, <2>2, <2>3, AnsweringSend, AnsweringOther
    <2>4. CASE t # s
      <3>1. Heard(P) \/ Holds(slot[t].todo, Voice(P))
        BY <1>7, <2>1, <2>2 DEF HearInv, Answering
      <3>2. \A z : Holds(z, Voice(P)) => Holds(z, Voice(P)')
        BY <1>0, <1>1, VoiceMore
      <3> QED
        BY <1>3, <1>5, <2>4, <3>1, <3>2
    <2> QED
      BY <2>3, <2>4
  <1>8. \A t \in Slot : Answering(t)'
    BY <1>7 DEF Answering
  <1>9. doc'.kind = "booking" /\ Marked' => Heard(Acknowledged)'
    BY <1>1, MarkedHeard
  <1> QED
    BY <1>3, <1>6, <1>8, <1>9 DEF HearInv

\* A handler that starts has a step that answers, one that is done has answered.
LEMMA HearTurns ==
  ASSUME Common, HearInv, NEW s \in Slot, doc' = doc, End(s) \/ \E n \in queue : Starts(s, n)
  PROVE  HearInv'
  <1>0. /\ Typed /\ Apart /\ Counted /\ doc.kind \in Kinds /\ faults \in Nat
        /\ slot \in [Slot -> Hand(AnyStep)] /\ log \in Seq(Event) /\ queue \subseteq DOMAIN log
        /\ 0 \notin DOMAIN log
    BY FaultsAssumption, LenProperties DEF Common, Typed, Shaped
  <1>1. /\ log' = log /\ claims' = claims /\ told' = told /\ faults' = faults /\ queue' \subseteq queue
        /\ \A t \in Slot : t # s => slot'[t] = slot[t]
    BY <1>0 DEF End, Starts, Becomes
  <1>2. \A e : Owed(e)' = Owed(e)
    BY OwedSame
  <1>3. \A P : Heard(P)' <=> Heard(P)
    BY <1>0, <1>1, HeardMore
  <1>4. \A k \in claims' : Count(told', <<k[1], k[2], k[3]>>) > 0
    BY <1>1 DEF HearInv
  <1>5. ASSUME NEW n \in DOMAIN log' \ queue', NEW P \in Owed(log[n])' PROVE Heard(P)'
    <2>1. P \in Owed(log[n])
      BY <1>1, <1>2, <1>5
    <2>2. CASE n \notin queue
      BY <1>1, <1>3, <1>5, <2>1, <2>2 DEF HearInv
    <2>3. CASE n \in queue
      <3>1. End(s) /\ n = slot[s].ev
        BY <1>5, <2>3 DEF End, Starts
      <3>2. slot[s].todo = <<>> /\ slot[s].ev # 0 /\ Ev(s) = log[n]
        BY <3>1 DEF End, Ev
      <3>3. Heard(P) \/ Holds(<<>>, Voice(P))
        BY <2>1, <3>2 DEF HearInv, Answering
      <3> QED
        BY <1>3, <3>3, HoldsOne
    <2> QED
      BY <2>2, <2>3
  <1>6. ASSUME NEW t \in Slot, slot'[t].ev # 0, NEW P \in Owed(Ev(t))'
        PROVE  Heard(P)' \/ Holds(slot'[t].todo, Voice(P)')
    <2>0. \A z : Holds(z, Voice(P)) => Holds(z, Voice(P)')
      BY <1>0, <1>1, VoiceMore
    <2>1. CASE t # s
      <3>1. slot'[t] = slot[t] /\ Ev(t)' = Ev(t)
        BY <1>1, <2>1 DEF Ev
      <3>2. P \in Owed(Ev(t))
        BY <1>2, <1>6, <3>1
      <3> QED
        BY <1>3, <1>6, <2>0, <3>1, <3>2 DEF HearInv, Answering
    <2>2. CASE t = s
      <3>1. ~End(s)
        BY <1>0, <1>6, <2>2 DEF End, Becomes, Idle
      <3>2. PICK n \in queue : Starts(s, n)
        BY <3>1
      <3>3. slot'[s].ev = n /\ slot'[s].todo = Steps(log[n])
        BY <1>0, <3>2 DEF Starts, Becomes, Idle
      <3>4. P \in Owed(log[n]) /\ log[n] \in Event
        BY <1>0, <1>1, <1>2, <1>6, <2>2, <3>3 DEF Ev
      <3> QED
        BY <1>0, <2>0, <2>2, <3>3, <3>4, StepsOwed
    <2> QED
      BY <2>1, <2>2
  <1>7. \A t \in Slot : Answering(t)'
    BY <1>6 DEF Answering
  <1>8. Marked' => Marked
    <2>1. rows' \subseteq rows \cup slot[s].rows
      BY DEF End, Starts
    <2>2. slot'[s].rows = {}
      <3>1. End(s) => slot'[s] = Idle
        BY <1>0 DEF End, Becomes
      <3>2. \A n \in queue : Starts(s, n) => slot'[s] = [Idle EXCEPT !.ev = n, !.todo = Steps(log[n])]
        BY <1>0 DEF Starts, Becomes
      <3>3. Idle.rows = {} /\ \A n, q : [Idle EXCEPT !.ev = n, !.todo = q].rows = {}
        BY DEF Idle
      <3> QED
        BY <3>1, <3>2, <3>3
    <2> QED
      BY <1>1, <2>1, <2>2 DEF Marked
  <1>9. doc'.kind = "booking" /\ Marked' => Heard(Acknowledged)'
    BY <1>3, <1>8 DEF HearInv
  <1> QED
    BY <1>4, <1>5, <1>7, <1>9 DEF HearInv

\* An event that is published, or nothing.
LEMMA HearStill ==
  ASSUME Common, HearInv, UNCHANGED <<doc, slot, rows, claims, told, faults>>,
         \A n \in DOMAIN log : n \in DOMAIN log' /\ log'[n] = log[n],
         DOMAIN log' \ queue' = DOMAIN log \ queue
  PROVE  HearInv'
  <1>0. Typed /\ Apart /\ Counted /\ faults \in Nat /\ queue \subseteq DOMAIN log
    BY FaultsAssumption DEF Common, Typed
  <1>1. \A e : Owed(e)' = Owed(e)
    BY OwedSame
  <1>2. \A P : Heard(P)' <=> Heard(P)
    BY <1>0, HeardMore
  <1>3. \A t \in Slot : slot[t].ev # 0 => Ev(t)' = Ev(t)
    <2>1. \A t \in Slot : slot[t].ev # 0 => slot[t].ev \in DOMAIN log
      BY <1>0 DEF Apart, Idle
    <2> QED
      BY <2>1 DEF Ev
  <1>4. \A P, z : Holds(z, Voice(P)) => Holds(z, Voice(P)')
    BY <1>0, VoiceMore
  <1>5. \A t \in Slot : Answering(t)'
    <2>1. ASSUME NEW t \in Slot, slot'[t].ev # 0, NEW P \in Owed(Ev(t))'
          PROVE  Heard(P)' \/ Holds(slot'[t].todo, Voice(P)')
      <3>1. P \in Owed(Ev(t)) /\ slot'[t] = slot[t] /\ slot[t].ev # 0
        BY <1>1, <1>3, <2>1
      <3> QED
        BY <1>2, <1>4, <3>1 DEF HearInv, Answering
    <2> QED
      BY <2>1 DEF Answering
  <1>6. \A k \in claims' : Count(told', <<k[1], k[2], k[3]>>) > 0
    BY DEF HearInv
  <1>7. \A n \in DOMAIN log' \ queue' : \A P \in Owed(log[n])' : Heard(P)'
    BY <1>1, <1>2 DEF HearInv
  <1>8. doc'.kind = "booking" /\ Marked' => Heard(Acknowledged)'
    BY <1>2 DEF HearInv, Marked
  <1> QED
    BY <1>5, <1>6, <1>7, <1>8 DEF HearInv

\* The invariant is inductive.
LEMMA ReachNext == Common /\ ReachInv /\ [Next]_vars => ReachInv'
  <1> SUFFICES ASSUME Common, ReachInv, [Next]_vars PROVE ReachInv'
    OBVIOUS
  <1>0. /\ Typed /\ Apart /\ doc' = doc /\ doc.kind \in Kinds /\ faults \in Nat
        /\ slot \in [Slot -> Hand(AnyStep)]
        /\ faults = 0 => missed = {}
        /\ \A t \in Slot : Owning(t)
    BY FaultsAssumption, NextLasting DEF Common, Typed, Shaped, Lasting, ReachInv
  <1>1. ASSUME UNCHANGED <<doc, slot, rows, claims, told, faults, missed>>,
               \A n \in DOMAIN log : n \in DOMAIN log' /\ log'[n] = log[n],
               DOMAIN log' \ queue' = DOMAIN log \ queue
        PROVE  ReachInv'
    <2>1. Undisturbed' => HearInv'
      <3>1. Undisturbed' <=> Undisturbed
        BY <1>1 DEF Undisturbed
      <3> QED
        BY <1>1, <3>1, HearStill DEF ReachInv
    <2>2. \A t \in Slot : Owning(t)'
      <3>1. \A t \in Slot : slot[t].ev # 0 => slot[t].ev \in DOMAIN log
        BY <1>0 DEF Apart, Idle, Typed
      <3>2. \A t \in Slot : slot[t].ev # 0 => Ev(t)' = Ev(t)
        BY <1>1, <3>1 DEF Ev
      <3> QED
        BY <1>0, <1>1, <3>2 DEF Owning
    <2> QED
      BY <1>0, <1>1, <2>1, <2>2 DEF ReachInv
  <1>2. CASE UNCHANGED vars
    BY <1>1, <1>2 DEF vars
  <1>3. CASE Happen
    <2>1. PICK e \in Event : Publish(e)
      BY <1>0, <1>3, HappenPublishes
    <2>2. /\ \A n \in DOMAIN log : n \in DOMAIN log' /\ log'[n] = log[n]
          /\ DOMAIN log' \ queue' = DOMAIN log \ queue
      <3>1. /\ \A n \in DOMAIN log : n \in DOMAIN log' /\ log'[n] = log[n]
            /\ DOMAIN log' = DOMAIN log \cup {Len(log) + 1} /\ Len(log) + 1 \notin DOMAIN log
            /\ queue' = queue \cup {Len(log) + 1}
        BY <1>0, <2>1, PublishApart
      <3> DEFINE n == Len(log) + 1
      <3> HIDE DEF n
      <3>2. /\ DOMAIN log' = DOMAIN log \cup {n} /\ n \notin DOMAIN log /\ queue' = queue \cup {n}
        BY <3>1 DEF n
      <3>3. DOMAIN log' \ queue' = DOMAIN log \ queue
        BY <3>2
      <3> QED
        BY <3>1, <3>3
    <2> QED
      BY <1>1, <2>1, <2>2 DEF Publish
  <1>4. ASSUME NEW s \in Slot, Step(s) PROVE ReachInv'
    <2>1. \A t \in Slot : Owning(t)'
      BY <1>0, <1>4, OwningStep
    <2>2. faults' = 0 => missed' = {}
      <3>1. (faults' = faults /\ missed' = missed) \/ faults' = faults + 1
        <4>1. CASE End(s) \/ Crash(s) \/ \E n \in queue : Starts(s, n)
          BY <4>1 DEF End, Crash, Starts
        <4>2. CASE slot[s].todo # <<>> /\ Does(s)
          BY <1>0, <4>2, OperationMoves DEF Moves, Framed
        <4> QED
          BY <1>0, <1>4, <4>1, <4>2, StepCases
      <3> QED
        BY <1>0, <3>1
    <2>3. ASSUME Undisturbed' PROVE HearInv'
      <3>1. Undisturbed /\ ~Crash(s)
        BY <1>0, <1>4, <2>3, Calmly
      <3>2. HearInv
        BY <3>1 DEF ReachInv
      <3>3. CASE End(s) \/ \E n \in queue : Starts(s, n)
        BY <1>0, <3>2, <3>3, HearTurns
      <3>4. CASE slot[s].todo # <<>> /\ Does(s)
        BY <1>0, <1>4, <2>3, <3>2, <3>4, HearDoes
      <3> QED
        BY <1>0, <1>4, <3>1, <3>3, <3>4, StepCases
    <2> QED
      BY <2>1, <2>2, <2>3 DEF ReachInv
  <1> QED
    BY <1>2, <1>3, <1>4 DEF Next

\* What is heard, in numbers.
LEMMA HeardCounts ==
  ASSUME Counted, NEW t, NEW a
  PROVE  /\ Heard(OnPhone(t, a)) => Phoned(t, a) > 0
         /\ Phoned(t, a) \in Nat
         /\ \A c : Heard({<<t, c, a>>}) => Copies(<<t, c, a>>) > 0
         /\ Copies(<<t, "sms", a>>) > 0 => Phoned(t, a) > 0
  <1>1. \A m : Copies(m) = Count(told, m) /\ Copies(m) \in Nat
    <2>1. \A m : Count(told, m) \in Nat
      BY DEF Counted, Count
    <2> QED
      BY <2>1, CopiesCount
  <1>2. \A P : Heard(P) <=> \E m \in P : Copies(m) > 0
    BY <1>1 DEF Heard
  <1> DEFINE w == Copies(<<t, "whatsapp", a>>)
             z == Copies(<<t, "sms", a>>)
  <1>3. Phoned(t, a) = w + z /\ w \in Nat /\ z \in Nat
    BY <1>1 DEF Phoned
  <1>4. Heard(OnPhone(t, a)) => w > 0 \/ z > 0
    BY <1>2 DEF OnPhone
  <1>5. \A c : Heard({<<t, c, a>>}) => Copies(<<t, c, a>>) > 0
    BY <1>2
  <1> HIDE DEF w, z
  <1>6. Phoned(t, a) \in Nat /\ (w > 0 \/ z > 0 => Phoned(t, a) > 0)
    BY <1>3
  <1> QED
    BY <1>4, <1>5, <1>6 DEF z

\* What an event owes was heard once it is handled.
LEMMA ReachMeans == Common /\ ReachInv => Reached
  <1> SUFFICES ASSUME Common, ReachInv, Undisturbed PROVE Reached
    BY DEF Reached, Undisturbed
  <1>0. /\ Typed /\ Apart /\ Counted /\ doc.kind \in Kinds /\ HearInv
        /\ log \in Seq(Event) /\ DOMAIN log = 1..Len(log)
        /\ \A n \in DOMAIN log : log[n] \in Event
    BY LenProperties DEF Common, Typed, Shaped, ReachInv
  <1>1. ASSUME NEW n \in DOMAIN log \ queue, NEW P \in Owed(log[n]) PROVE Heard(P)
    BY <1>0, <1>1 DEF HearInv
  <1>2. ASSUME doc.kind = "booking", ~GiftVoucher, Announcing \ queue # {}
        PROVE  Customer("confirmed") + Customer("receipt") > 0
    <2>1. PICK n \in DOMAIN log \ queue : log[n].type \in Confirms /\ Announces(log[n])
      BY <1>2 DEF Announcing, Delegated, Delegating, Logged, Confirms, Announces
    <2>2. Acknowledged \in Owed(log[n])
      BY <1>2, <2>1 DEF Owed
    <2>3. Heard(Acknowledged)
      BY <1>1, <2>2
    <2>4. Heard(OnPhone("confirmed", "customer")) \/ Heard(OnPhone("receipt", "customer"))
      BY <2>3 DEF Heard, Acknowledged
    <2>5. /\ Phoned("confirmed", "customer") \in Nat /\ Phoned("receipt", "customer") \in Nat
          /\ Phoned("confirmed", "customer") > 0 \/ Phoned("receipt", "customer") > 0
      BY <1>0, <2>4, HeardCounts
    <2> QED
      BY <2>5 DEF Customer
  <1>3. ASSUME NEW n \in Handled({"voucher_active"}), log[n].status = "active"
        PROVE  /\ Phoned("active", "recipient") > 0
               /\ ~doc.self => Phoned("active", "sender") > 0
    <2>1. n \in DOMAIN log \ queue /\ log[n].type = "voucher_active"
      BY DEF Handled, Logged
    <2>2. doc.kind = "voucher"
      BY <1>0, <2>1 DEF Event, BookingEvent, BookingTypes, SaleEvent, GiftTypes, SomeNotice, Notices, Kinds
    <2>3. /\ OnPhone("active", "recipient") \in Owed(log[n])
          /\ ~doc.self => OnPhone("active", "sender") \in Owed(log[n])
      BY <1>3, <2>1, <2>2 DEF Owed
    <2> QED
      BY <1>0, <1>1, <2>1, <2>3, HeardCounts
  <1>4. ASSUME NEW n \in Handled({"order_created"}) PROVE Customer("order") > 0
    <2>1. n \in DOMAIN log \ queue /\ log[n].type = "order_created"
      BY DEF Handled, Logged
    <2>2. doc.kind = "order"
      BY <1>0, <2>1 DEF Event, BookingEvent, BookingTypes, SaleEvent, VoucherTypes, GiftTypes,
         SomeNotice, Notices, Kinds
    <2>3. OnPhone("order", "customer") \in Owed(log[n])
      BY <2>1, <2>2 DEF Owed
    <2> QED
      BY <1>0, <1>1, <2>1, <2>3, HeardCounts DEF Customer
  <1>5. ASSUME NEW n \in Handled({"gift_purchase_completed"}), ~doc.desk
        PROVE  Phoned("purchase", "recipient") > 0
    <2>1. n \in DOMAIN log \ queue /\ log[n].type = "gift_purchase_completed"
      BY DEF Handled, Logged
    <2>2. doc.kind = "gift"
      BY <1>0, <2>1 DEF Event, BookingEvent, BookingTypes, SaleEvent, VoucherTypes, SomeNotice, Notices, Kinds
    <2>3. OnPhone("purchase", "recipient") \in Owed(log[n])
      BY <1>5, <2>1, <2>2 DEF Owed
    <2> QED
      BY <1>0, <1>1, <2>1, <2>3, HeardCounts
  <1>6. ASSUME doc.kind = "account",
               NEW t \in {"otp", "verified", "password_reset", "password_changed"},
               NEW n \in Handled({Asks(<<t>>)})
        PROVE  /\ (\E g \in doc.given : g[2] = "phone") => Customer(t) > 0
               /\ (doc.mailing /\ \E g \in doc.given : g[2] = "email")
                      => Copies(<<t, "email", "customer">>) > 0
    <2>1. n \in DOMAIN log \ queue /\ log[n].type = Asks(<<t>>)
      BY DEF Handled, Logged
    <2>2. log[n].type \in Alerts /\ Saying(log[n]) = t
      BY <2>1 DEF Asks, Alerts, Saying
    <2>3. \A field \in {"phone", "email"} : (\E g \in doc.given : g[2] = field) => Given(field)
      <3>1. doc.given \subseteq Places \X {"phone", "email"}
        BY <1>0, <1>6, GivenAssumption DEF Typed
      <3>2. \A g \in Places \X {"phone", "email"} : g[1] \in Places /\ g = <<g[1], g[2]>>
        OBVIOUS
      <3> QED
        BY <3>1, <3>2 DEF Given
    <2>4. /\ Given("phone") => {<<t, "sms", "customer">>} \in Owed(log[n])
          /\ doc.mailing /\ Given("email") => {<<t, "email", "customer">>} \in Owed(log[n])
      BY <1>6, <2>2 DEF Owed
    <2>5. /\ Given("phone") => Heard({<<t, "sms", "customer">>})
          /\ doc.mailing /\ Given("email") => Heard({<<t, "email", "customer">>})
      BY <1>1, <2>1, <2>4
    <2>6. /\ Given("phone") => Phoned(t, "customer") > 0
          /\ doc.mailing /\ Given("email") => Copies(<<t, "email", "customer">>) > 0
      BY <1>0, <2>5, HeardCounts
    <2> QED
      BY <2>3, <2>6 DEF Customer
  <1> QED
    BY <1>2, <1>3, <1>4, <1>5, <1>6 DEF Reached

\* Whoever bought or was given something hears of it once its event is handled, whatever the
\* order of the deliveries: without faults, and for vouchers and orders also when one message
\* did not go out.
THEOREM Hearing == Spec => []Reached
  <1>1. Init => ReachInv
    <2> SUFFICES ASSUME Init PROVE ReachInv
      OBVIOUS
    <2>1. /\ told = EmptyBag /\ slot = [s \in Slot |-> Idle] /\ log = <<>> /\ faults = 0
          /\ claims = {} /\ rows = {} /\ missed = {}
      BY DEF Init, InitDelivery
    <2>2. \A s \in Slot : slot[s].ev = 0 /\ slot[s].rows = {}
      BY <2>1 DEF Idle
    <2>3. DOMAIN log = {}
      BY <2>1
    <2>4. ~Marked
      BY <2>1, <2>2 DEF Marked
    <2>5. HearInv
      BY <2>1, <2>2, <2>3, <2>4 DEF HearInv, Answering
    <2>6. \A s \in Slot : Owning(s)
      BY <2>2 DEF Owning
    <2> QED
      BY <2>1, <2>5, <2>6 DEF ReachInv
  <1> QED
    BY <1>1, ReachNext, ReachMeans, CommonInit, CommonNext, PTL DEF Spec

-----------------------------------------------------------------------------
(* The calendar.                                                           *)

Ending == {"cancelled", "no_show"}
Clean == missed \cap {"put_row", "drop_row", "set_booking"} = {}
Straight == Logged({"link_paid", "reschedule_requested"}) = {}

\* What the events published so far say about the booking.
PaidNow == remote.pay = "success" => remote.paid
History ==
    /\ DOMAIN remote.row = {"status", "pay"}
    /\ PaidNow
    /\ \A n \in DOMAIN log :
           /\ log[n].type = "link_paid" \/ log[n].pay = "success" => remote.paid
           /\ log[n].type = "payment_pending" => log[n].status = "pending"
           /\ log[n].type \in Ending => log[n].status = log[n].type
    /\ Logged({"cancelled"}) # {} =>
           /\ remote.status \notin Unconfirmed
           /\ remote.status = "confirmed" => remote.paid
    /\ \A n, m \in DOMAIN log :
           n < m /\ log[n].type = "cancelled" =>
               log[m].type \notin {"payment_pending", "status_success"}

\* One event at a time, in the order of publication.
InOrder ==
    /\ \A s, t \in Slot : slot[s].ev # 0 /\ slot[t].ev # 0 => s = t
    /\ \A s \in Slot : slot[s].ev # 0 => \A m \in queue : slot[s].ev <= m
    /\ \A n \in DOMAIN log \ queue : \A m \in queue : n < m

\* A payment by link is written to the booking before anything else.
WritesFirst(s) ==
    /\ slot[s].ev # 0
    /\ Ev(s).type = "link_paid"
    /\ Has(slot[s].todo, {"set_booking"})
    => Op(s) = "set_booking" /\ ~Has(Tail(slot[s].todo), {"set_booking"})

\* Events that will end the booking, events that will put a row for it, and slots that are
\* past the row's removal.
Ended == {n \in queue : log[n].type \in Ending}
Wrote(m) == \E s \in Slot : slot[s].ev = m /\ ~Has(slot[s].todo, {"set_booking"})
Puts ==
    {m \in queue : \/ log[m].type \in {"payment_pending", "confirmed", "status_success"}
                   \/ log[m].type = "link_paid" /\ Wrote(m)}
Dropped(s) ==
    slot[s].ev # 0 /\ Ev(s).type \in Ending /\ ~Has(slot[s].todo, {"drop_row"})

\* A booking that is over has no row, or an event that ends it is still to come, after all
\* those that put a row.
Vacated ==
    /\ remote.status \in Ending =>
           /\ remote.row # NoRow => Ended # {}
           /\ \A m \in Puts : \E n \in Ended : m < n
    /\ \A s \in Slot : Dropped(s) => remote.row = NoRow

\* A confirmed booking has a row that says so, or the event that confirmed it is still to come.
Since(c) == \A n \in DOMAIN log : n >= c => log[n].status = "confirmed"
Coming(c) == c \in queue /\ \A s \in Slot : slot[s].ev = c => Has(slot[s].todo, {"put_row"})
Entered ==
    remote.status = "confirmed" =>
        \E c \in Logged({"confirmed"}) : Since(c) /\ (remote.row.status = "confirmed" \/ Coming(c))

CalendarInv ==
    doc.kind = "booking" =>
        /\ History
        /\ \A s \in Slot : WritesFirst(s)
        /\ tidy => InOrder
        /\ tidy /\ Clean /\ ~Reopened => Vacated
        /\ tidy /\ Clean /\ Straight => Entered

\* What a booking's event says: of the booking as it is after it.
Tells(type, r) ==
    /\ r.row = remote.row
    /\ remote.paid => r.paid
    /\ r.pay = "success" => r.paid \/ remote.pay = "success"
    /\ type = "link_paid" => r.paid
    /\ type = "payment_pending" => r.status = "pending" /\ remote.status \in Unconfirmed
    /\ type = "confirmed" => r.status = "confirmed"
    /\ type \in Ending => r.status = type
    /\ type = "status_success" => remote.status = "confirmed" /\ ~remote.paid
    /\ r.status \in Unconfirmed => remote.status \in Unconfirmed
    /\ r.status = "confirmed" =>
           \/ type = "confirmed" /\ (remote.status \in Unconfirmed \/ remote.pay = "success")
           \/ remote.status = "confirmed"
    /\ r.status \in Ending =>
           \/ type = r.status
           \/ /\ remote.status = r.status
              /\ type \notin {"payment_pending", "confirmed", "status_success"}

\* Each of the booking's changes is told by its event.
LEMMA BookingTells ==
  ASSUME Typed, BookingHappens
  PROVE  \/ \E type \in BookingTypes, full \in BOOLEAN, method \in {"none", "points", "money"} :
                Happens(type, remote', full, method) /\ Tells(type, remote')
         \/ \E type \in BookingTypes, pay \in PayStatuses, proof \in {"flag", "word", "none"},
               full \in BOOLEAN :
                /\ Emits(type, remote', pay, proof, full, "none") /\ Tells(type, remote')
                /\ remote'.paid \/ remote'.pay = "success"
  <1>0. /\ doc.kind = "booking" /\ DOMAIN remote = BookingFields
        /\ remote.status \in Statuses /\ remote.pay \in PayStatuses
        /\ doc.word \in PayStatuses /\ doc.proof \in {"flag", "word", "none"}
    BY PayloadAssumption DEF BookingHappens, Typed, Shaped, PayStatuses
  <1> USE DEF Tells, Unconfirmed, Ending, BookingTypes
  <1>1. CASE HoldForPayment
    <2> DEFINE r == [remote EXCEPT !.status = "pending", !.pay = "pending", !.link = "open"]
    <2>1. Happens("payment_pending", r, FALSE, "none") /\ remote' = r
      BY <1>1 DEF HoldForPayment, Plainly, Happens, Emits
    <2>2. Tells("payment_pending", r)
      BY <1>0, <1>1 DEF HoldForPayment
    <2> QED
      BY <2>1, <2>2
  <1>2. CASE ConfirmUnpaid
    <2> DEFINE r == [remote EXCEPT !.status = "confirmed", !.pay = "pending", !.link = "open"]
    <2>1. Happens("confirmed", r, FALSE, "none") /\ remote' = r
      BY <1>2 DEF ConfirmUnpaid, Plainly, Happens, Emits
    <2>2. Tells("confirmed", r)
      BY <1>0, <1>2 DEF ConfirmUnpaid
    <2> QED
      BY <2>1, <2>2
  <1>3. CASE ConfirmPaid
    <2> DEFINE r == [CloseLinks(remote) EXCEPT !.status = "confirmed", !.paid = TRUE,
                                          !.pay = IF Redemption THEN "rewarded" ELSE "success"]
    <2>1. PICK pay \in PayStatuses :
              Emits("confirmed", r, pay, doc.proof, FALSE, "none") /\ remote' = r
      <3>1. \E pay \in {"rewarded", doc.word} :
                Emits("confirmed", r, pay, doc.proof, FALSE, "none") /\ remote' = r
        BY <1>3 DEF ConfirmPaid, Emits
      <3> QED
        BY <1>0, <3>1 DEF PayStatuses
    <2>2. Tells("confirmed", r) /\ r.paid
      BY <1>0, <1>3 DEF ConfirmPaid, CloseLinks
    <2> HIDE DEF r
    <2> QED
      BY <1>0, <2>1, <2>2
  <1>4. CASE PayLink
    <2> DEFINE r == [remote EXCEPT !.link = "used", !.paid = TRUE]
    <2>1. Happens("link_paid", r, FALSE, "none") /\ remote' = r
      BY <1>4 DEF PayLink, Plainly, Happens, Emits
    <2>2. Tells("link_paid", r)
      BY <1>0, <1>4 DEF PayLink
    <2> QED
      BY <2>1, <2>2
  <1>5. CASE MarkPaid
    <2> DEFINE r == [CloseLinks(remote) EXCEPT !.pay = "success", !.paid = TRUE]
    <2>1. PICK full \in BOOLEAN, pay \in {"none", "success"} :
              Emits("status_success", r, pay, doc.proof, full, "none") /\ remote' = r
      BY <1>5 DEF MarkPaid, Emits
    <2>2. Tells("status_success", r) /\ r.paid
      BY <1>0, <1>5 DEF MarkPaid, CloseLinks
    <2>3. pay \in PayStatuses
      BY DEF PayStatuses
    <2> HIDE DEF r
    <2> QED
      BY <1>0, <2>1, <2>2, <2>3
  <1>6. CASE ConfirmAgain
    <2> DEFINE r == [remote EXCEPT !.status = "confirmed"]
    <2>1. Emits("confirmed", r, doc.word, doc.proof, FALSE, "none") /\ remote' = r
      BY <1>6 DEF ConfirmAgain, Emits
    <2>2. Tells("confirmed", r) /\ r.pay = "success"
      BY <1>0, <1>6 DEF ConfirmAgain
    <2> HIDE DEF r
    <2> QED
      BY <1>0, <2>1, <2>2
  <1>7. CASE Receipt
    <2>1. Happens("payment_success", remote, FALSE, "none") /\ remote' = remote
      BY <1>7 DEF Receipt, Plainly, Happens, Emits
    <2>2. Tells("payment_success", remote)
      BY <1>0
    <2> QED
      BY <2>1, <2>2
  <1>8. CASE CheckIn
    <2> DEFINE r == [remote EXCEPT !.status = "checked_in"]
    <2>1. Happens("updated", r, FALSE, "none") /\ remote' = r
      BY <1>8 DEF CheckIn, Plainly, Happens, Emits
    <2>2. Tells("updated", r)
      BY <1>0, <1>8
    <2> QED
      BY <2>1, <2>2
  <1>9. CASE Edit
    <2>1. PICK type \in {"updated", "rescheduled"} :
              Happens(type, remote, FALSE, "none") /\ remote' = remote
      BY <1>9 DEF Edit, Plainly, Happens, Emits
    <2>2. Tells(type, remote)
      BY <1>0
    <2> QED
      BY <2>1, <2>2
  <1>10. CASE Complete
    <2> DEFINE r == [remote EXCEPT !.status = "completed"]
    <2>1. Happens("completed", r, FALSE, "none") /\ remote' = r
      BY <1>10 DEF Complete, Plainly, Happens, Emits
    <2>2. Tells("completed", r)
      BY <1>0, <1>10
    <2> QED
      BY <2>1, <2>2
  <1>11. CASE NoShow
    <2> DEFINE r == [remote EXCEPT !.status = "no_show"]
    <2>1. Happens("no_show", r, FALSE, "none") /\ remote' = r
      BY <1>11 DEF NoShow, Plainly, Happens, Emits
    <2>2. Tells("no_show", r)
      BY <1>0, <1>11
    <2> QED
      BY <2>1, <2>2
  <1>12. CASE AskReschedule
    <2>1. Happens("reschedule_requested", remote, FALSE, "none") /\ remote' = remote
      BY <1>12 DEF AskReschedule, Plainly, Happens, Emits
    <2>2. Tells("reschedule_requested", remote)
      BY <1>0
    <2> QED
      BY <2>1, <2>2
  <1>13. CASE Cancel
    <2>1. PICK pay \in {remote.pay} \cup (IF remote.pay = "success" THEN {"refund_requested"} ELSE {}),
               full \in BOOLEAN :
              LET r == [remote EXCEPT !.status = "cancelled", !.pay = pay]
              IN  Happens("cancelled", r, full, "none") /\ remote' = r
      BY <1>13 DEF Cancel, Happens, Emits
    <2> DEFINE r == [remote EXCEPT !.status = "cancelled", !.pay = pay]
    <2>2. Tells("cancelled", r)
      BY <1>0, <1>13
    <2> QED
      BY <2>1, <2>2
  <1>14. CASE ApproveRefund
    <2>1. PICK method \in {"points", "money"} :
              Happens("refund_approved", remote, FALSE, method) /\ remote' = remote
      BY <1>14 DEF ApproveRefund, Happens, Emits
    <2>2. Tells("refund_approved", remote)
      BY <1>0
    <2> QED
      BY <2>1, <2>2
  <1>15. CASE CompleteRefund
    <2>1. PICK type \in {"refund_completed", "payment_refunded"} :
              Happens(type, remote, FALSE, "none") /\ remote' = remote
      BY <1>15 DEF CompleteRefund, Plainly, Happens, Emits
    <2>2. Tells(type, remote)
      BY <1>0
    <2> QED
      BY <2>1, <2>2
  <1> QED
    BY <1>1, <1>2, <1>3, <1>4, <1>5, <1>6, <1>7, <1>8, <1>9, <1>10, <1>11, <1>12, <1>13, <1>14,
       <1>15 DEF BookingHappens

\* What is published about a booking.
LEMMA Published ==
  ASSUME Common, doc.kind = "booking", Happen
  PROVE  \E e \in BookingEvent :
             /\ Publish(e) /\ Tells(e.type, remote')
             /\ e.status = remote'.status
             /\ e.pay = "success" => remote'.paid \/ remote'.pay = "success"
             /\ DOMAIN remote' = BookingFields
             /\ doc' = doc
  <1>0. Typed /\ doc' = doc /\ DOMAIN remote' = BookingFields
    BY NextLasting DEF Common, Typed, Next, Lasting, Shaped
  <1>1. BookingHappens
    BY DEF Happen, SaleHappens, NoticeHappens, AskForNotice, AskForSMS, Says
  <1>2. remote'.status \in Statuses /\ remote'.pay \in PayStatuses
    <2>1. PICK e \in Event : BookingNews(e)
      BY <1>0, <1>1, BookingPublishes
    <2> QED
      BY <2>1 DEF BookingNews
  <1>3. PICK type \in BookingTypes, pay \in PayStatuses, proof \in {"flag", "word", "none"},
             full \in BOOLEAN, method \in {"none", "points", "money"} :
            /\ Emits(type, remote', pay, proof, full, method) /\ Tells(type, remote')
            /\ pay = "success" => remote'.paid \/ remote'.pay = "success"
    <2>1. ASSUME NEW type \in BookingTypes, NEW full \in BOOLEAN,
                 NEW method \in {"none", "points", "money"}, Happens(type, remote', full, method)
          PROVE  Emits(type, remote', remote'.pay, "none", full, method)
      BY <2>1 DEF Happens
    <2> QED
      BY <1>0, <1>1, <1>2, <2>1, BookingTells
  <1> DEFINE e == [type |-> type, status |-> remote'.status, pay |-> pay, proof |-> proof,
                   full |-> full, method |-> method]
  <1>4. e \in BookingEvent /\ e.type = type /\ e.status = remote'.status /\ e.pay = pay
    BY <1>2 DEF BookingEvent
  <1>5. Publish(e)
    BY <1>3 DEF Emits
  <1> HIDE DEF e
  <1> QED
    BY <1>0, <1>3, <1>4, <1>5

\* What an operation does to the row, in the terms of the calendar.
RowMoves(s) ==
    LET q == Head(slot[s].todo)
    IN  /\ DOMAIN remote'.row = {"status", "pay"}
        /\ Op(s) # "put_row" /\ remote.row = NoRow => remote'.row = NoRow
        /\ \/ remote'.row.status = remote.row.status
           \/ Op(s) \in {"drop_row", "mark_row"}
           \/ Op(s) \in {"put_row", "change_row"} /\ remote'.row.status = q[2]
        /\ Op(s) = "put_row" => remote'.row.status = q[2] \/ "put_row" \in missed'
        /\ Op(s) = "drop_row" => \/ remote'.row = NoRow
                                 \/ "drop_row" \in missed'
                                 \/ slot'[s] = Idle

\* What it does to the booking.
BookingMoves(s) ==
    LET q == Head(slot[s].todo)
    IN  /\ remote'.paid = remote.paid
        /\ Op(s) # "set_booking" => remote'.status = remote.status /\ remote'.pay = remote.pay
        /\ Op(s) = "set_booking" =>
               /\ remote'.status \in {remote.status, q[2]}
               /\ remote'.pay \in {remote.pay, q[3]}
               /\ remote'.status = q[2] \/ "set_booking" \in missed'

\* The calls to the appointment cache and the others do no more to the row.
LEMMA RowMoved ==
  ASSUME Common, doc.kind = "booking", NEW s \in Slot, slot[s].todo # <<>>, Does(s),
         DOMAIN remote.row = {"status", "pay"}
  PROVE  RowMoves(s)
  <1> DEFINE q == Head(slot[s].todo)
  <1>0. /\ Typed /\ Apart /\ slot \in [Slot -> Hand(AnyStep)] /\ DOMAIN remote = BookingFields
        /\ "row" \in DOMAIN remote /\ slot[s].ev # 0 /\ q[1] = Op(s)
        /\ DOMAIN NoRow = {"status", "pay"} /\ NoRow.status = "none"
    BY Working DEF Common, Typed, Shaped, Op, NoRow
  <1>1. After(s, <<>>) # Idle /\ \A then : After(s, then) # Idle
    <2>1. \A then : After(s, then).ev = slot[s].ev
      BY <1>0, AfterIs
    <2> QED
      BY <1>0, <2>1 DEF Idle
  <1>2. \A a, b : /\ PutRow(a, b, remote).row = [status |-> a, pay |-> b]
                 /\ PutRow(a, b, PutRow(a, b, remote)).row = [status |-> a, pay |-> b]
    BY <1>0 DEF PutRow
  <1>3. CASE Op(s) = "put_row"
    <2>1. \/ remote'.row = [status |-> q[2], pay |-> q[3]]
          \/ remote'.row = remote.row /\ "put_row" \in missed'
      <3>1. CreateAppointmentCache(s)
        BY <1>3 DEF Does
      <3>2. \/ remote' \in {PutRow(q[2], q[3], remote),
                            PutRow(q[2], q[3], PutRow(q[2], q[3], remote))}
            \/ remote' = remote /\ missed' = missed \cup {"put_row"}
        BY <1>0, <1>1, <1>3, <3>1
           DEF CreateAppointmentCache, Attempt, Call, PassOver, Onward, Arg
      <3> QED
        BY <1>2, <3>2
    <2> QED
      BY <1>0, <1>3, <2>1 DEF RowMoves
  <1>4. CASE Op(s) = "drop_row"
    <2>1. DeleteAppointmentCache(s)
      BY <1>4 DEF Does
    <2>2. DropRow(remote).row = NoRow /\ DropRow(DropRow(remote)).row = NoRow
      BY <1>0 DEF DropRow
    <2>3. \/ remote'.row = NoRow
          \/ /\ remote'.row = remote.row
             /\ "drop_row" \in missed' \/ slot'[s] = Idle
      <3>1. \/ remote' \in {DropRow(remote), DropRow(DropRow(remote))}
            \/ /\ remote' = remote
               /\ missed' = missed \cup {"drop_row"} \/ slot'[s] = Idle
        BY <1>0, <1>1, <1>4, <2>1
           DEF DeleteAppointmentCache, Call, PassOver, Becomes
      <3> QED
        BY <2>2, <3>1
    <2> QED
      BY <1>0, <1>4, <2>3 DEF RowMoves
  <1>5. CASE Op(s) = "pay_row"
    <2>1. UpdateCachePayment(s)
      BY <1>5 DEF Does
    <2>2. remote' \in {remote, PayRow("success", remote), PayRow("success", PayRow("success", remote))}
      BY <2>1 DEF UpdateCachePayment, Call
    <2>3. /\ remote.row = NoRow => remote'.row = NoRow
          /\ DOMAIN remote'.row = {"status", "pay"}
          /\ remote'.row.status = remote.row.status
      <3>1. CASE remote.row = NoRow
        BY <1>0, <2>2, <3>1 DEF PayRow
      <3>2. CASE remote.row # NoRow
        <4> DEFINE p == PayRow("success", remote)
        <4>1. /\ p.row.status = remote.row.status /\ DOMAIN p.row = {"status", "pay"}
              /\ DOMAIN p = BookingFields
          BY <1>0, <3>2 DEF PayRow
        <4>2. PayRow("success", p).row.status = p.row.status
              /\ DOMAIN PayRow("success", p).row = {"status", "pay"}
          <5> HIDE DEF p
          <5> QED
            BY <4>1 DEF PayRow
        <4> QED
          BY <1>0, <2>2, <3>2, <4>1, <4>2
      <3> QED
        BY <3>1, <3>2
    <2> QED
      BY <1>5, <2>3 DEF RowMoves
  <1>6. ASSUME NEW a, NEW b, Op(s) # "put_row",
               remote' \in {remote, ChangeRow(a, b, remote), ChangeRow(a, b, ChangeRow(a, b, remote))}
        PROVE  /\ remote.row = NoRow => remote'.row = NoRow
               /\ DOMAIN remote'.row = {"status", "pay"}
               /\ remote'.row.status \in {remote.row.status, a}
    <2>1. CASE remote.row = NoRow
      BY <1>0, <1>6, <2>1 DEF ChangeRow
    <2>2. CASE remote.row # NoRow
      <3> DEFINE p == ChangeRow(a, b, remote)
      <3>1. p.row = [status |-> a, pay |-> b] /\ "row" \in DOMAIN p
        BY <1>0, <2>2 DEF ChangeRow, PutRow
      <3>2. ChangeRow(a, b, p).row = [status |-> a, pay |-> b]
        <4> HIDE DEF p
        <4> QED
          BY <3>1 DEF ChangeRow, PutRow
      <3> QED
        BY <1>0, <1>6, <2>2, <3>1, <3>2
    <2> QED
      BY <2>1, <2>2
  <1>7. CASE Op(s) = "change_row"
    <2>1. UpdateAppointmentCache(s)
      BY <1>7 DEF Does
    <2>2. remote' \in {remote, ChangeRow(q[2], q[3], remote),
                       ChangeRow(q[2], q[3], ChangeRow(q[2], q[3], remote))}
      BY <2>1 DEF UpdateAppointmentCache, Call, Refuse, Arg
    <2> QED
      BY <1>6, <1>7, <2>2 DEF RowMoves
  <1>8. CASE Op(s) = "mark_row"
    <2>1. MarkCacheCancelled(s)
      BY <1>8 DEF Does
    <2>2. PICK b : remote' \in {remote, ChangeRow("cancelled", b, remote),
                       ChangeRow("cancelled", b, ChangeRow("cancelled", b, remote))}
      BY <2>1 DEF MarkCacheCancelled, Attempt, Call
    <2> QED
      BY <1>6, <1>8, <2>2 DEF RowMoves
  <1>9. CASE Op(s) \notin {"put_row", "drop_row", "pay_row", "change_row", "mark_row"}
    <2>1. "row" \in DOMAIN remote \ Touches(Op(s))
      BY <1>0, <1>9 DEF Touches
    <2>2. remote'.row = remote.row
      BY <1>0, <2>1, OperationMoves DEF Moves, Framed, Agree
    <2> QED
      BY <1>0, <1>9, <2>2 DEF RowMoves
  <1> QED
    BY <1>3, <1>4, <1>5, <1>7, <1>8, <1>9

\* What an operation does to the status and the payment of the booking.
LEMMA BookingMoved ==
  ASSUME Common, doc.kind = "booking", NEW s \in Slot, slot[s].todo # <<>>, Does(s)
  PROVE  BookingMoves(s)
  <1> DEFINE q == Head(slot[s].todo)
  <1>0. /\ Typed /\ Apart /\ DOMAIN remote = BookingFields /\ slot[s].ev # 0 /\ q[1] = Op(s)
        /\ Op(s) \in Ops(Ev(s)) /\ Ev(s) \in BookingEvent
    BY Working, StepIs DEF Common, Typed, Shaped, Op, Event
  <1>1. remote'.paid = remote.paid
    <2>1. "paid" \in DOMAIN remote \ Touches(Op(s))
      BY <1>0 DEF Touches
    <2> QED
      BY <1>0, <2>1, OperationMoves DEF Moves, Framed, Agree
  <1>2. CASE Op(s) # "set_booking"
    <2>1. Op(s) # "activate"
      BY <1>0 DEF Ops, BookingEvent, BookingTypes
    <2>2. {"status", "pay"} \subseteq DOMAIN remote \ Touches(Op(s))
      BY <1>0, <1>2, <2>1 DEF Touches
    <2>3. remote'.status = remote.status /\ remote'.pay = remote.pay
      BY <1>0, <2>2, OperationMoves DEF Moves, Framed, Agree
    <2> QED
      BY <1>1, <1>2, <2>3 DEF BookingMoves
  <1>3. CASE Op(s) = "set_booking"
    <2> DEFINE E(r) == IF q[3] = "none" THEN SetStatus(q[2], r) ELSE SetStatusAndPay(q[2], q[3], r)
    <2>1. UpdateBookingStatus(s)
      BY <1>3 DEF Does
    <2>2. /\ remote' \in {remote, E(remote), E(E(remote))}
          /\ \/ missed' = missed \cup {"set_booking"}
             \/ remote' \in {E(remote), E(E(remote))}
      <3>1. Onward(s) # Idle
        <4>1. After(s, <<>>).ev = slot[s].ev
          BY <1>0, AfterIs
        <4> QED
          BY <1>0, <4>1 DEF Onward, Idle
      <3> QED
        BY <1>0, <1>3, <2>1, <3>1 DEF UpdateBookingStatus, Attempt, Call, PassOver, Arg
    <2>3. /\ E(remote).status = q[2] /\ E(remote).pay \in {remote.pay, q[3]}
          /\ E(E(remote)).status = q[2] /\ E(E(remote)).pay \in {remote.pay, q[3]}
      BY <1>0 DEF SetStatus, SetStatusAndPay
    <2> HIDE DEF E
    <2>4. /\ remote'.status \in {remote.status, q[2]} /\ remote'.pay \in {remote.pay, q[3]}
          /\ remote'.status = q[2] \/ "set_booking" \in missed'
      BY <2>2, <2>3
    <2> QED
      BY <1>1, <1>3, <2>4 DEF BookingMoves
  <1> QED
    BY <1>2, <1>3

\* The handlers of a cancellation and of a missed appointment remove the row.
LEMMA CancelledDrops ==
  ASSUME doc.kind = "booking", NEW e \in BookingEvent, e.type \in Ending
  PROVE  Has(Steps(e), {"drop_row"})
  <1> DEFINE S == Allowed(e)
             X == {"drop_row"}
             a == ReversalSteps(e)
             b == FindLinkSteps(e)
             c == << <<"drop_row">> >>
             d == CloseLinkSteps(e)
             g == << <<"set_booking", "cancelled", SyncPay(e)>> >>
             h == IF e.pay = "refund_requested" THEN << <<"request_refund">> >> ELSE <<>>
  <1>1. Has(c, X)
    <2>1. <<"drop_row">>[1] = "drop_row"
      OBVIOUS
    <2> QED
      BY <2>1, HasOne
  <1>2. CASE e.type = "no_show"
    BY <1>1, <1>2 DEF Steps, BookingSteps, NoShowSteps
  <1>3. CASE e.type = "cancelled"
    <2>1. /\ a \in Seq(S) /\ b \in Seq(S) /\ c \in Seq(S) /\ d \in Seq(S) /\ g \in Seq(S)
          /\ h \in Seq(S)
      BY <1>3, CancelledParts
    <2>2. Steps(e) = a \o b \o c \o d \o g \o h
      BY <1>3 DEF Steps, BookingSteps, CancelledSteps
    <2> HIDE DEF S, X, a, b, c, d, g, h
    <2>3. a \o b \in Seq(S)
      BY <2>1, HasBoth
    <2> DEFINE abc == (a \o b) \o c
    <2>4. abc \in Seq(S) /\ Has(abc, X)
      BY <1>1, <2>1, <2>3, HasBoth
    <2> HIDE DEF abc
    <2> DEFINE abcd == abc \o d
    <2>5. abcd \in Seq(S) /\ Has(abcd, X)
      BY <2>1, <2>4, HasBoth
    <2> HIDE DEF abcd
    <2> DEFINE abcdg == abcd \o g
    <2>6. abcdg \in Seq(S) /\ Has(abcdg, X)
      BY <2>1, <2>5, HasBoth
    <2> HIDE DEF abcdg
    <2>7. Has(abcdg \o h, X)
      BY <2>1, <2>6, HasBoth
    <2> QED
      BY <2>2, <2>7 DEF abc, abcd, abcdg, X
  <1> QED
    BY <1>2, <1>3 DEF Ending

\* A confirmation puts the row.
LEMMA ConfirmedPuts ==
  ASSUME doc.kind = "booking", NEW e \in BookingEvent, e.type = "confirmed"
  PROVE  Has(Steps(e), {"put_row"})
  <1> DEFINE S == Allowed(e)
             X == {"put_row"}
             a == CacheSteps(e)
             b == PaymentSteps(e)
             c == LoyaltySteps(e)
             d == PaidInvoiceSteps(e)
             g == NotifySteps(e)
  <1>1. a \in Seq(S) /\ b \in Seq(S) /\ c \in Seq(S) /\ d \in Seq(S) /\ g \in Seq(S)
    <2>1. /\ (IsPaid(e) => Pays(e)) /\ (Invoiceable(e) => Charges(e))
          /\ (LoyaltySucceeded(e) => Credits(e)) /\ (Announced(e) => Announces(e))
      BY DEF Pays, Charges, Credits, Announces
    <2> QED
      BY <2>1, ConfirmedAllowed
  <1>2. Has(a, X)
    <2>1. <<"put_row", "confirmed", CachePay(e)>>[1] = "put_row"
      OBVIOUS
    <2> QED
      BY <2>1, HasOne DEF CacheSteps
  <1>3. Steps(e) = a \o b \o c \o d \o g
    BY DEF Steps, BookingSteps, ConfirmedSteps
  <1> HIDE DEF S, X, a, b, c, d, g
  <1> DEFINE ab == a \o b
  <1>4. ab \in Seq(S) /\ Has(ab, X)
    BY <1>1, <1>2, HasBoth
  <1> HIDE DEF ab
  <1> DEFINE abc == ab \o c
  <1>5. abc \in Seq(S) /\ Has(abc, X)
    BY <1>1, <1>4, HasBoth
  <1> HIDE DEF abc
  <1> DEFINE abcd == abc \o d
  <1>6. abcd \in Seq(S) /\ Has(abcd, X)
    BY <1>1, <1>5, HasBoth
  <1> HIDE DEF abcd
  <1>7. Has(abcd \o g, X)
    BY <1>1, <1>6, HasBoth
  <1> QED
    BY <1>3, <1>7 DEF ab, abc, abcd, X

\* A payment by link is first written to the booking, and once.
LEMMA LinkWrites ==
  ASSUME doc.kind = "booking", NEW e \in BookingEvent, e.type = "link_paid"
  PROVE  /\ Steps(e) # <<>> /\ Head(Steps(e))[1] = "set_booking"
         /\ Has(Steps(e), {"set_booking"}) /\ ~Has(Tail(Steps(e)), {"set_booking"})
  <1> DEFINE S == Allowed(e)
             X == {"set_booking"}
             f == [e EXCEPT !.pay = "success"]
             a == << <<"set_booking", "confirmed", "success">>, <<"pay_row">>, <<"mark_paid">> >>
             c == ConfirmedSteps(f)
             q == Steps(e)
  <1>1. f \in BookingEvent /\ Pays(e) /\ Charges(e) /\ Credits(e) /\ Announces(e)
    BY AsPaid DEF Pays, Charges, Credits, Announces, Delegating
  <1>2. c \in Seq(S) /\ ~Has(c, X)
    <2>2. \A x \in ConfirmedOps : x \notin X
      BY DEF ConfirmedOps
    <2>3. \A x, y \in ConfirmedOps \cap X : x = y
      BY <2>2
    <2> HIDE DEF f, S, X
    <2>4. Has(c, X) => \E x \in ConfirmedOps : x \in X
      BY <1>1, <2>3, ConfirmedOnce
    <2> QED
      BY <1>1, <2>2, <2>4, ConfirmedAllowed DEF S
  <1>3. /\ a # <<>> /\ Head(a)[1] = "set_booking" /\ Once(a, X) /\ a[1][1] = "set_booking"
        /\ Len(a) = 3
    BY DEF Once
  <1>4. a \in Seq(S)
    <2>1. {"set_booking", "pay_row", "mark_paid"} \subseteq Ops(e)
      BY DEF Ops
    <2>2. /\ <<"set_booking", "confirmed", "success">> \in Allowed(e)
          /\ <<"pay_row">> \in Allowed(e) /\ <<"mark_paid">> \in Allowed(e)
      BY <2>1, OneStep, PlainOps DEF PayStatuses, WrittenBack
    <2> QED
      BY <2>2
  <1>5. q = a \o c
    BY DEF Steps, BookingSteps, LinkPaidSteps
  <1> HIDE DEF a, c, q, S, X, f
  <1>6. a \o c \in Seq(S) /\ Once(a \o c, X) /\ (a \o c)[1] = a[1] /\ Len(a \o c) # 0
    <2>1. a \o c \in Seq(S) /\ Once(a \o c, X)
      <3>1. Once(c, X)
        BY <1>2 DEF Has, Once
      <3> QED
        BY <1>2, <1>3, <1>4, <3>1, HasBoth
    <2>2. Len(a \o c) = Len(a) + Len(c) /\ (a \o c)[1] = a[1] /\ Len(c) \in Nat
      <3>1. Len(a \o c) = Len(a) + Len(c) /\ Len(c) \in Nat
            /\ \A i \in 1..(Len(a) + Len(c)) :
                   (a \o c)[i] = IF i <= Len(a) THEN a[i] ELSE c[i - Len(a)]
        BY <1>2, <1>4, ConcatProperties, LenProperties
      <3> QED
        BY <1>3, <3>1
    <2> QED
      BY <1>3, <2>1, <2>2
  <1>7. q # <<>> /\ q \in Seq(S) /\ Head(q) = q[1] /\ q[1][1] = "set_booking"
    BY <1>3, <1>5, <1>6, EmptySeq, HeadTailProperties
  <1>8. "set_booking" \in X
    BY DEF X
  <1>9. Has(q, X) /\ ~Has(Tail(q), X)
    BY <1>5, <1>6, <1>7, <1>8, HasRest
  <1> QED
    BY <1>7, <1>9 DEF q, X

\* What an operation puts before the other steps is not one of these.
LEMMA NewSteps ==
  ASSUME Common, NEW s \in Slot, slot[s].todo # <<>>, NEW then \in Follows(s),
         doc.kind = "booking"
  PROVE  \A X \in SUBSET {"put_row", "drop_row", "set_booking"} :
             Has(then \o Tail(slot[s].todo), X) <=> Has(Tail(slot[s].todo), X)
  <1> DEFINE S == Allowed(Ev(s))
             Y == {"put_row", "drop_row", "set_booking"}
  <1>0. Typed /\ Apart
    BY DEF Common
  <1>1. ~Has(then, Y)
    <2>1. \A op : op \notin Y => ~Has(<< <<op>> >>, Y)
      BY HasOne
    <2>2. CASE then = <<>>
      BY <2>2, HasOne
    <2>3. CASE Op(s) = "check_sent" /\ then = ConfirmationSteps
      <3>1. ConfirmationSteps \in Seq({"send"} \X {"confirmed"} \X Channels \X {"customer"})
        BY ConfirmationIs
      <3>2. \A i \in DOMAIN ConfirmationSteps : ConfirmationSteps[i][1] = "send"
        BY <3>1
      <3> QED
        BY <2>3, <3>2 DEF Has
    <2>4. CASE Op(s) = "send"
      <3>1. Fallback(Tail(Head(slot[s].todo))) = <<>> \/
            \E x, y : Fallback(Tail(Head(slot[s].todo))) = << <<"send", x, "sms", y>> >>
        BY DEF Fallback
      <3>2. \A x, y : ~Has(<< <<"send", x, "sms", y>> >>, Y)
        BY HasOne
      <3> QED
        BY <2>2, <2>4, <3>1, <3>2 DEF Follows
    <2>5. CASE Op(s) \notin {"check_sent", "send"} /\ then # <<>>
      <3>1. \E op \in {"invoice", "link_payments", "link_booking", "mark_row", "partner",
                       "link_note"} : then = << <<op>> >>
        BY <2>5 DEF Follows
      <3> QED
        BY <2>1, <3>1
    <2> QED
      BY <2>2, <2>3, <2>4, <2>5 DEF Follows
  <1>2. then \in Seq(S) /\ Tail(slot[s].todo) \in Seq(S)
    BY <1>0, GoesAllowed
  <1> DEFINE t == Tail(slot[s].todo)
  <1>3. ASSUME NEW X \in SUBSET Y PROVE Has(then \o t, X) <=> Has(t, X)
    <2>1. ~Has(then, X)
      BY <1>1 DEF Has
    <2> HIDE DEF S, t, Y
    <2>2. t \in Seq(S)
      BY <1>2 DEF t
    <2> QED
      BY <1>2, <2>1, <2>2, HasBoth
  <1> QED
    BY <1>3

\* Whose step is at hand, and what it writes.
LEMMA InHandIs ==
  ASSUME Common, doc.kind = "booking", NEW s \in Slot, slot[s].todo # <<>>
  PROVE  LET e == Ev(s)
             q == Head(slot[s].todo)
         IN  /\ slot[s].ev # 0 /\ slot[s].ev \in queue /\ slot[s].ev \in DOMAIN log
             /\ e \in BookingEvent
             /\ Op(s) = "put_row" =>
                    /\ e.type \in {"payment_pending", "confirmed", "link_paid", "status_success"}
                    /\ q[2] = "confirmed" \/ e.type = "payment_pending"
             /\ Op(s) = "change_row" => e.type \in Updates /\ q[2] = CacheStatus(e)
             /\ Op(s) \in {"drop_row", "mark_row"} => e.type \in Ending
             /\ Op(s) = "set_booking" =>
                    /\ e.type \in {"link_paid", "cancelled", "reschedule_requested"}
                    /\ q[2] = WrittenBack(e)
                    /\ q[3] = "success" => e.type = "link_paid" \/ e.pay = "success"
  <1> DEFINE e == Ev(s)
             q == Head(slot[s].todo)
  <1>1. /\ slot[s].ev # 0 /\ slot[s].ev \in queue /\ slot[s].ev \in DOMAIN log
        /\ e \in BookingEvent /\ q \in Allowed(e) /\ q[1] = Op(s)
    BY Working DEF Common, Op, Event
  <1>2. Op(s) \in Ops(e) /\ Fits(e, q)
    BY <1>1, StepIs
  <1>3. e.type \in BookingTypes
    BY <1>1 DEF BookingEvent
  <1>4. /\ Op(s) = "put_row" =>
               e.type \in {"payment_pending", "confirmed", "link_paid", "status_success"}
        /\ Op(s) = "change_row" => e.type \in Updates
        /\ Op(s) \in {"drop_row", "mark_row"} => e.type \in Ending
        /\ Op(s) = "set_booking" => e.type \in {"link_paid", "cancelled", "reschedule_requested"}
    <2> HIDE DEF e
    <2> QED
      BY <1>2, <1>3 DEF Ops, BookingTypes, Updates, Ending
  <1> QED
    BY <1>1, <1>2, <1>4 DEF Fits

\* How a slot goes on.
TurnsTo(s) ==
    /\ UNCHANGED <<doc, log, queue, tidy>> /\ missed \subseteq missed'
    /\ \A t \in Slot : t # s => slot'[t] = slot[t]
    /\ \/ slot'[s] = Idle
       \/ /\ slot'[s].ev = slot[s].ev
          /\ \/ Op(s) = "change_row" /\ slot'[s].todo = <<>>
             \/ \A X \in SUBSET {"put_row", "drop_row", "set_booking"} :
                    Has(slot'[s].todo, X) <=> Has(Tail(slot[s].todo), X)

\* An operation turns its own slot only.
LEMMA Turning ==
  ASSUME Common, doc.kind = "booking", NEW s \in Slot, slot[s].todo # <<>>, Does(s)
  PROVE  TurnsTo(s)
  <1>0. Typed /\ Apart /\ slot \in [Slot -> Hand(AnyStep)] /\ slot[s] \in Hand(AnyStep)
    BY DEF Common, Typed
  <1>1. Moves(s)
    BY <1>0, OperationMoves
  <1>2. UNCHANGED <<doc, log, queue, tidy>> /\ missed \subseteq missed'
    BY <1>1 DEF Moves, Framed
  <1>3. \A t \in Slot : t # s => slot'[t] = slot[t]
    BY <1>0, <1>1 DEF Moves, Raises, Stops, Goes, Becomes
  <1>4. CASE Raises(s)
    BY <1>0, <1>2, <1>3, <1>4 DEF Raises, Becomes, TurnsTo
  <1>5. CASE Stops(s)
    <2>1. slot'[s].ev = slot[s].ev /\ slot'[s].todo = <<>>
      BY <1>0, <1>5 DEF Stops, Becomes, Hand
    <2> QED
      BY <1>2, <1>3, <1>5, <2>1 DEF Stops, TurnsTo
  <1>6. ASSUME NEW then \in Follows(s), Goes(s, then) PROVE TurnsTo(s)
    <2>1. slot'[s].ev = slot[s].ev /\ slot'[s].todo = then \o Tail(slot[s].todo)
      BY <1>0, <1>6 DEF Goes, Becomes
    <2>2. \A X \in SUBSET {"put_row", "drop_row", "set_booking"} :
              Has(then \o Tail(slot[s].todo), X) <=> Has(Tail(slot[s].todo), X)
      BY <1>6, NewSteps
    <2> QED
      BY <1>2, <1>3, <2>1, <2>2 DEF TurnsTo
  <1> QED
    BY <1>1, <1>4, <1>5, <1>6 DEF Moves

\* The steps of a slot, as the calendar sees them.
Released(s) == slot'[s] = Idle /\ \A t \in Slot : t # s => slot'[t] = slot[t]
Taken(s, n) ==
    /\ n \in queue \ InHand /\ slot[s] = Idle
    /\ slot'[s].ev = n /\ slot'[s].todo = Steps(log[n])
    /\ \A t \in Slot : t # s => slot'[t] = slot[t]
    /\ tidy' = (tidy /\ InHand = {} /\ \A m \in queue : n <= m)
    /\ UNCHANGED <<doc, remote, log, queue, missed>>

\* A step of a slot takes an event, puts it away, or works on it.
LEMMA CalendarCases ==
  ASSUME Common, doc.kind = "booking", NEW s \in Slot, Step(s)
  PROVE  \/ \E n \in queue : Taken(s, n)
         \/ /\ Released(s) /\ slot[s].ev # 0 /\ slot[s].todo = <<>> /\ queue' = queue \ {slot[s].ev}
            /\ UNCHANGED <<doc, remote, log, missed, tidy>>
         \/ Released(s) /\ UNCHANGED <<doc, remote, log, queue, missed, tidy>>
         \/ slot[s].todo # <<>> /\ Does(s) /\ TurnsTo(s)
  <1>0. Typed /\ Apart /\ slot \in [Slot -> Hand(AnyStep)] /\ doc.kind \in Kinds
    BY DEF Common, Typed, Shaped
  <1>1. ASSUME NEW n \in queue, Starts(s, n) PROVE Taken(s, n)
    BY <1>0, <1>1 DEF Starts, Becomes, Idle, Taken
  <1>2. CASE End(s)
    BY <1>0, <1>2 DEF End, Becomes, Released
  <1>3. CASE Crash(s)
    BY <1>0, <1>3 DEF Crash, Becomes, Released
  <1> QED
    BY <1>0, <1>1, <1>2, <1>3, StepCases, Turning

\* Slots keep to the order of publication while they are tidy.
LEMMA InOrderStep ==
  ASSUME Common, doc.kind = "booking", NEW s \in Slot, Step(s), tidy => InOrder, tidy'
  PROVE  InOrder'
  <1>0. /\ Apart /\ queue \subseteq DOMAIN log /\ log \in Seq(Event) /\ DOMAIN log \subseteq Nat
        /\ \A t \in Slot : slot[t].ev = 0 \/ slot[t].ev \in queue
        /\ 0 \notin queue
    <2>1. DOMAIN log = 1..Len(log) /\ Len(log) \in Nat
      BY LenProperties DEF Common, Typed
    <2> QED
      BY <2>1 DEF Common, Typed, Apart, Idle
  <1>1. ASSUME NEW n \in queue, Taken(s, n) PROVE InOrder'
    <2>1. /\ tidy /\ \A m \in queue : n <= m
          /\ \A t \in Slot : slot[t].ev = 0
      BY <1>1 DEF Taken, InHand
    <2>2. slot'[s].ev = n /\ \A t \in Slot : t # s => slot'[t].ev = 0
      BY <1>1, <2>1 DEF Taken
    <2> QED
      BY <1>1, <2>1, <2>2 DEF InOrder, Taken
  <1>2. CASE Released(s) /\ slot[s].ev # 0 /\ queue' = queue \ {slot[s].ev} /\ log' = log /\ tidy' = tidy
    <2>1. InOrder /\ slot'[s].ev = 0 /\ \A t \in Slot : t # s => slot'[t].ev = slot[t].ev
      BY <1>2 DEF Released, Idle
    <2>2. \A m \in queue : m # slot[s].ev => slot[s].ev < m
      BY <1>0, <1>2, <2>1 DEF InOrder
    <2>3. \A n \in DOMAIN log \ queue' : n \in DOMAIN log \ queue \/ n = slot[s].ev
      BY <1>2
    <2> QED
      BY <1>2, <2>1, <2>2, <2>3 DEF InOrder
  <1>3. ASSUME UNCHANGED <<log, queue, tidy>>,
               \A t \in Slot : slot'[t].ev \in {0, slot[t].ev}
        PROVE  InOrder'
    BY <1>3 DEF InOrder
  <1>4. CASE Released(s) /\ UNCHANGED <<log, queue, tidy>>
    <2>1. \A t \in Slot : slot'[t].ev \in {0, slot[t].ev}
      BY <1>4 DEF Released, Idle
    <2> QED
      BY <1>3, <1>4, <2>1
  <1>5. CASE TurnsTo(s)
    <2>1. \A t \in Slot : slot'[t].ev \in {0, slot[t].ev}
      <3>1. slot'[s].ev \in {0, slot[s].ev}
        BY <1>5 DEF TurnsTo, Idle
      <3> QED
        BY <1>5, <3>1 DEF TurnsTo
    <2>2. UNCHANGED <<log, queue, tidy>>
      BY <1>5 DEF TurnsTo
    <2> QED
      BY <1>3, <2>1, <2>2
  <1> QED
    BY <1>1, <1>2, <1>4, <1>5, CalendarCases

\* The write of a payment by link stays the first and the only one.
LEMMA WritesStep ==
  ASSUME Common, doc.kind = "booking", NEW s \in Slot, Step(s), \A t \in Slot : WritesFirst(t)
  PROVE  \A t \in Slot : WritesFirst(t)'
  <1>0. log \in Seq(Event) /\ queue \subseteq DOMAIN log
    BY DEF Common, Typed
  <1>1. ASSUME log' = log PROVE \A t \in Slot : slot'[t] = slot[t] => WritesFirst(t)'
    BY <1>1 DEF WritesFirst, Ev, Op
  <1>2. ASSUME NEW n \in queue, Taken(s, n) PROVE WritesFirst(s)'
    <2>1. log[n].type = "link_paid" =>
              /\ Head(Steps(log[n]))[1] = "set_booking"
              /\ ~Has(Tail(Steps(log[n])), {"set_booking"})
      BY <1>0, LinkWrites DEF Event
    <2> QED
      BY <1>2, <2>1 DEF Taken, WritesFirst, Ev, Op
  <1>3. ASSUME slot'[s] = Idle PROVE WritesFirst(s)'
    BY <1>3 DEF WritesFirst, Idle
  <1>4. ASSUME slot[s].todo # <<>>, TurnsTo(s) PROVE WritesFirst(s)'
    <2>1. CASE slot'[s] = Idle
      BY <1>3, <2>1
    <2>2. CASE slot'[s].ev = slot[s].ev /\ slot'[s].todo = <<>>
      <3>1. ~Has(slot'[s].todo, {"set_booking"})
        BY <2>2, HasOne
      <3> QED
        BY <3>1 DEF WritesFirst
    <2>3. CASE slot'[s].ev = slot[s].ev
               /\ (Has(slot'[s].todo, {"set_booking"}) <=> Has(Tail(slot[s].todo), {"set_booking"}))
      <3> SUFFICES ASSUME slot[s].ev # 0, Ev(s).type = "link_paid",
                          Has(Tail(slot[s].todo), {"set_booking"})
                   PROVE  FALSE
        BY <1>4, <2>3 DEF WritesFirst, Ev, TurnsTo
      <3>1. slot[s].todo \in Seq(Allowed(Ev(s)))
        BY <1>4, Working DEF Common
      <3>2. Has(slot[s].todo, {"set_booking"})
        BY <1>4, <3>1, HasRest
      <3> QED
        BY <3>2 DEF WritesFirst
    <2> QED
      BY <1>4, <2>1, <2>2, <2>3 DEF TurnsTo
  <1> QED
    BY <1>1, <1>2, <1>3, <1>4, CalendarCases DEF Taken, Released, TurnsTo

\* Handlers write back what the events they handle say.
LEMMA HistoryStep ==
  ASSUME Common, doc.kind = "booking", NEW s \in Slot, Step(s), History
  PROVE  History'
  <1>1. CASE UNCHANGED <<remote, log>>
    BY <1>1 DEF History, PaidNow, Logged
  <1>2. CASE slot[s].todo # <<>> /\ Does(s) /\ TurnsTo(s)
    <2>1. RowMoves(s) /\ BookingMoves(s) /\ log' = log
      BY <1>2, RowMoved, BookingMoved DEF History, TurnsTo
    <2>2. DOMAIN remote'.row = {"status", "pay"} /\ remote'.paid = remote.paid
      BY <2>1 DEF RowMoves, BookingMoves
    <2>3. CASE Op(s) # "set_booking"
      BY <2>1, <2>2, <2>3 DEF History, PaidNow, Logged, BookingMoves
    <2>4. CASE Op(s) = "set_booking"
      <3> DEFINE q == Head(slot[s].todo)
      <3>1. /\ slot[s].ev \in DOMAIN log
            /\ Ev(s).type \in {"link_paid", "cancelled", "reschedule_requested"}
            /\ q[2] = WrittenBack(Ev(s))
            /\ q[3] = "success" => Ev(s).type = "link_paid" \/ Ev(s).pay = "success"
        BY <1>2, <2>4, InHandIs
      <3>2. remote'.status \in {remote.status, q[2]} /\ remote'.pay \in {remote.pay, q[3]}
        BY <2>1, <2>4 DEF BookingMoves
      <3> HIDE DEF q
      <3>3. PaidNow'
        BY <2>2, <3>1, <3>2 DEF PaidNow, History, Ev
      <3>4. Logged({"cancelled"}) # {} =>
                /\ remote'.status \notin Unconfirmed
                /\ remote'.status = "confirmed" => remote'.paid
        BY <2>2, <3>1, <3>2 DEF WrittenBack, History, Ev, Unconfirmed
      <3>5. Logged({"cancelled"})' = Logged({"cancelled"})
        BY <2>1 DEF Logged
      <3> QED
        BY <2>1, <2>2, <3>3, <3>4, <3>5 DEF History
    <2> QED
      BY <2>3, <2>4
  <1> QED
    BY <1>1, <1>2, CalendarCases DEF Taken

\* Only the slot at work has an event.
LEMMA OnlyOne ==
  ASSUME Common, InOrder, NEW s \in Slot, slot[s].ev # 0
  PROVE  /\ \A t \in Slot : slot[t].ev # 0 => t = s
         /\ \A m \in queue : slot[s].ev <= m
         /\ slot[s].ev \in queue /\ slot[s].ev \in Nat /\ queue \subseteq Nat
  <1>1. queue \subseteq DOMAIN log /\ DOMAIN log = 1..Len(log) /\ Len(log) \in Nat
    BY LenProperties DEF Common, Typed
  <1>2. slot[s].ev \in queue
    BY DEF Common, Apart, Idle
  <1> QED
    BY <1>1, <1>2 DEF InOrder

\* An operation: the row of a booking that is over.
LEMMA VacatedDoes ==
  ASSUME Common, doc.kind = "booking", NEW s \in Slot, slot[s].todo # <<>>, Does(s), TurnsTo(s),
         History, InOrder, \A t \in Slot : WritesFirst(t), ~Reopened, Vacated, Clean'
  PROVE  Vacated'
  <1> DEFINE e == Ev(s)
             q == Head(slot[s].todo)
             n == slot[s].ev
  <1>1. /\ n # 0 /\ n \in queue /\ n \in DOMAIN log /\ e \in BookingEvent /\ e = log[n]
        /\ \A t \in Slot : slot[t].ev # 0 => t = s
        /\ \A m \in queue : n <= m
        /\ queue \subseteq DOMAIN log /\ queue \subseteq Nat
    BY InHandIs, OnlyOne DEF Ev, Common, Typed
  <1>2. RowMoves(s) /\ BookingMoves(s)
    BY RowMoved, BookingMoved DEF History
  <1>3. log' = log /\ queue' = queue /\ Ended' = Ended
    BY DEF TurnsTo, Ended
  <1>4. /\ \A t \in Slot : slot'[t].ev # 0 => t = s /\ slot'[t].ev = n
        /\ slot'[s].ev = 0 \/ slot'[s].ev = n
    <2>1. \A t \in Slot : t # s => slot'[t].ev = 0
      BY <1>1 DEF TurnsTo
    <2>2. slot'[s].ev \in {0, n}
      BY DEF TurnsTo, Idle
    <2> QED
      BY <2>1, <2>2
  <1>5. /\ remote'.status \in Ending /\ remote'.row # NoRow => Ended # {}
        /\ remote'.status \in Ending => \A m \in Puts' : \E k \in Ended : m < k
    <2>1. CASE Op(s) = "set_booking"
      <3> SUFFICES ASSUME remote'.status \in Ending
                   PROVE  n \in Ended /\ Puts' = {}
        OBVIOUS
      <3>1. e.type = "cancelled"
        <4>1. remote'.status = q[2] /\ q[2] = WrittenBack(e)
          BY <1>2, <2>1, InHandIs DEF BookingMoves, Clean
        <4>2. e.type \in {"link_paid", "cancelled", "reschedule_requested"}
          BY <2>1, InHandIs
        <4> HIDE DEF e, q
        <4> QED
          BY <4>1, <4>2 DEF WrittenBack, Ending
      <3>2. n \in Ended
        BY <1>1, <3>1 DEF Ended, Ending
      <3>3. ASSUME NEW m \in Puts' PROVE FALSE
        <4>1. /\ m \in queue
              /\ \/ log[m].type \in {"payment_pending", "confirmed", "status_success"}
                 \/ log[m].type = "link_paid" /\ m = n
          BY <1>1, <1>3, <1>4 DEF Puts, Wrote
        <4>2. m # n /\ n < m
          BY <1>1, <3>1, <4>1
        <4>3. log[m].type \notin {"payment_pending", "status_success"}
          BY <1>1, <3>1, <4>1, <4>2 DEF History
        <4>4. log[m].type # "confirmed"
          BY <1>1, <3>1, <4>1, <4>2 DEF Reopened
        <4> QED
          BY <4>1, <4>2, <4>3, <4>4
      <3> QED
        BY <3>2, <3>3
    <2>2. CASE Op(s) # "set_booking"
      <3> SUFFICES ASSUME remote'.status \in Ending
                   PROVE  /\ remote'.row # NoRow => Ended # {}
                          /\ \A m \in Puts' : \E k \in Ended : m < k
        OBVIOUS
      <3>1. remote.status \in Ending
        BY <1>2, <2>2 DEF BookingMoves
      <3>2. e.type = "link_paid" => ~Has(slot[s].todo, {"set_booking"})
        BY <1>1, <2>2 DEF WritesFirst
      <3>3. Puts' \subseteq Puts
        BY <1>1, <1>3, <1>4, <3>2 DEF Puts, Wrote
      <3>4. remote'.row # NoRow => Ended # {}
        <4>1. CASE Op(s) = "put_row"
          <5>1. e.type \in {"payment_pending", "confirmed", "link_paid", "status_success"}
            BY <4>1, InHandIs
          <5>2. n \in Puts
            BY <1>1, <3>2, <5>1 DEF Puts, Wrote
          <5> QED
            BY <3>1, <5>2 DEF Vacated
        <4>2. CASE Op(s) # "put_row"
          BY <1>2, <3>1, <4>2 DEF RowMoves, Vacated
        <4> QED
          BY <4>1, <4>2
      <3> QED
        BY <3>1, <3>3, <3>4 DEF Vacated
    <2> QED
      BY <2>1, <2>2
  <1>6. ASSUME NEW t \in Slot, Dropped(t)' PROVE remote'.row = NoRow
    <2>1. t = s /\ slot'[s].ev = n /\ slot'[s] # Idle
      BY <1>4, <1>6 DEF Dropped, Idle
    <2>2. e.type \in Ending /\ ~Has(slot'[s].todo, {"drop_row"})
      BY <1>3, <1>6, <2>1 DEF Dropped, Ev
    <2>3. Op(s) \notin {"put_row", "change_row"}
      <3>1. /\ Op(s) = "put_row" =>
                   e.type \in {"payment_pending", "confirmed", "link_paid", "status_success"}
            /\ Op(s) = "change_row" => e.type \in Updates
        BY InHandIs
      <3> HIDE DEF e
      <3> QED
        BY <2>2, <3>1 DEF Updates, Ending
    <2>4. CASE Op(s) = "drop_row"
      BY <1>2, <2>1, <2>4 DEF RowMoves, Clean
    <2>5. CASE Op(s) # "drop_row"
      <3>1. ~Has(Tail(slot[s].todo), {"drop_row"})
        BY <2>1, <2>2, <2>3 DEF TurnsTo
      <3>2. slot[s].todo \in Seq(Allowed(e)) /\ Head(slot[s].todo)[1] # "drop_row"
        BY <2>5, Working DEF Common, Op
      <3>3. ~Has(slot[s].todo, {"drop_row"})
        BY <3>1, <3>2, HasRest
      <3>4. remote.row = NoRow
        BY <1>1, <2>2, <3>3 DEF Vacated, Dropped
      <3> QED
        BY <1>2, <2>3, <3>4 DEF RowMoves
    <2> QED
      BY <2>4, <2>5
  <1> QED
    BY <1>3, <1>5, <1>6 DEF Vacated

\* Any step of a slot.
LEMMA VacatedStep ==
  ASSUME Common, doc.kind = "booking", NEW s \in Slot, Step(s), CalendarInv, tidy', Clean',
         ~Reopened'
  PROVE  Vacated'
  <1>0. /\ log \in Seq(Event) /\ queue \subseteq DOMAIN log
        /\ \A t \in Slot : slot[t].ev = 0 \/ slot[t].ev \in queue
    BY DEF Common, Typed, Apart, Idle
  <1>1. tidy /\ Clean /\ ~Reopened
    <2>1. (tidy' => tidy) /\ (Clean' => Clean) /\ log' = log
      BY CalendarCases DEF Taken, TurnsTo, Clean
    <2> QED
      BY <2>1 DEF Reopened
  <1>2. History /\ InOrder /\ Vacated /\ \A t \in Slot : WritesFirst(t)
    BY <1>1 DEF CalendarInv
  <1>5. 0 \notin queue
    BY <1>0, LenProperties
  <1>3. ASSUME NEW n \in queue, Taken(s, n) PROVE Vacated'
    <2>1. log[n] \in BookingEvent
      BY <1>0 DEF Event
    <2>2. Ended' = Ended
      BY <1>3 DEF Taken, Ended
    <2>3. ASSUME NEW m \in Puts' PROVE m \in Puts
      <3>1. log[m].type = "link_paid" => Wrote(m)
        <4>1. CASE m = n /\ log[m].type = "link_paid"
          <5>1. Has(Steps(log[n]), {"set_booking"})
            BY <2>1, <4>1, LinkWrites
          <5>2. \A t \in Slot : slot[t].ev # n
            BY <1>3, <1>5 DEF Taken, InHand
          <5>3. \A t \in Slot : slot'[t].ev = n => Has(slot'[t].todo, {"set_booking"})
            BY <1>3, <5>1, <5>2 DEF Taken
          <5>4. ~Wrote(n)'
            BY <5>3 DEF Wrote
          <5> QED
            BY <1>3, <2>3, <4>1, <5>4 DEF Puts, Taken
        <4>2. CASE m # n
          <5>1. Wrote(m)' => Wrote(m)
            BY <1>3, <4>2 DEF Wrote, Taken
          <5> QED
            BY <1>3, <2>3, <5>1 DEF Puts, Taken
        <4> QED
          BY <4>1, <4>2
      <3> QED
        BY <1>3, <2>3, <3>1 DEF Puts, Taken
    <2>4. ASSUME NEW t \in Slot, Dropped(t)' PROVE remote.row = NoRow
      <3>1. CASE t = s
        <4>1. log[n].type \in Ending /\ ~Has(Steps(log[n]), {"drop_row"})
          BY <1>3, <2>4, <3>1 DEF Taken, Dropped, Ev
        <4> QED
          BY <2>1, <4>1, CancelledDrops
      <3>2. CASE t # s
        BY <1>2, <1>3, <2>4, <3>2 DEF Taken, Dropped, Ev, Vacated
      <3> QED
        BY <3>1, <3>2
    <2> QED
      BY <1>2, <1>3, <2>2, <2>3, <2>4 DEF Vacated, Taken
  <1>4. ASSUME Released(s), UNCHANGED <<remote, log>>
        PROVE  /\ \A m : Wrote(m)' /\ m \in queue' => Wrote(m) \/ m = 0
               /\ \A t \in Slot : Dropped(t)' => Dropped(t)
    BY <1>4 DEF Released, Wrote, Dropped, Ev, Idle
  <1>6. CASE Released(s) /\ slot[s].ev # 0 /\ slot[s].todo = <<>> /\ queue' = queue \ {slot[s].ev}
             /\ UNCHANGED <<remote, log>>
    <2>1. \A m \in queue : slot[s].ev <= m
      BY <1>2, <1>6 DEF InOrder
    <2>2. Puts' \subseteq Puts /\ \A m \in Puts' : m # slot[s].ev /\ m \in queue
      BY <1>4, <1>5, <1>6 DEF Puts
    <2>3. slot[s].ev \in Ended => remote.row = NoRow
      <3>1. ~Has(slot[s].todo, {"drop_row"})
        BY <1>6, HasOne
      <3> QED
        BY <1>2, <1>6, <3>1 DEF Ended, Vacated, Dropped, Ev
    <2>4. \A k \in Ended : k # slot[s].ev => k \in Ended'
      BY <1>6 DEF Ended
    <2>5. remote.status \in Ending /\ remote.row # NoRow => Ended' # {}
      BY <1>2, <2>3, <2>4 DEF Vacated
    <2>6. ASSUME remote.status \in Ending, NEW m \in Puts' PROVE \E k \in Ended' : m < k
      <3>1. PICK k \in Ended : m < k
        BY <1>2, <2>2, <2>6 DEF Vacated
      <3>2. slot[s].ev <= m /\ m \in Nat /\ k \in Nat /\ slot[s].ev \in Nat
        <4>1. queue \subseteq Nat
          BY <1>0, LenProperties
        <4> QED
          BY <1>0, <1>6, <2>1, <2>2, <4>1 DEF Ended
      <3>3. k # slot[s].ev
        BY <3>1, <3>2
      <3> QED
        BY <2>4, <3>1, <3>3
    <2> QED
      BY <1>2, <1>4, <1>6, <2>5, <2>6 DEF Vacated
  <1>7. CASE Released(s) /\ UNCHANGED <<remote, log, queue>>
    <2>1. Ended' = Ended /\ Puts' \subseteq Puts
      BY <1>4, <1>5, <1>7 DEF Ended, Puts
    <2> QED
      BY <1>2, <1>4, <1>7, <2>1 DEF Vacated
  <1> QED
    BY <1>1, <1>2, <1>3, <1>6, <1>7, CalendarCases, VacatedDoes

\* An operation: the row of a booking that is confirmed.
LEMMA EnteredDoes ==
  ASSUME Common, doc.kind = "booking", NEW s \in Slot, slot[s].todo # <<>>, Does(s), TurnsTo(s),
         History, InOrder, Straight, Entered, Clean'
  PROVE  Entered'
  <1> DEFINE e == Ev(s)
             q == Head(slot[s].todo)
             n == slot[s].ev
  <1>1. /\ n # 0 /\ n \in queue /\ n \in DOMAIN log /\ e \in BookingEvent /\ e = log[n]
        /\ \A t \in Slot : slot[t].ev # 0 => t = s
        /\ \A m \in queue : n <= m
        /\ queue \subseteq Nat /\ DOMAIN log \subseteq Nat
    <2>1. DOMAIN log \subseteq Nat
      BY LenProperties DEF Common, Typed
    <2> QED
      BY <2>1, InHandIs, OnlyOne DEF Ev
  <1>2. RowMoves(s) /\ BookingMoves(s)
    BY RowMoved, BookingMoved DEF History
  <1>3. log' = log /\ queue' = queue
    BY DEF TurnsTo
  <1>4. \A t \in Slot : slot'[t].ev # 0 => t = s /\ slot'[t].ev = n
    <2>1. \A t \in Slot : t # s => slot'[t].ev = 0
      BY <1>1 DEF TurnsTo
    <2>2. slot'[s].ev \in {0, n}
      BY DEF TurnsTo, Idle
    <2> QED
      BY <2>1, <2>2
  <1> SUFFICES ASSUME remote'.status = "confirmed"
               PROVE  \E c \in Logged({"confirmed"}) :
                          Since(c) /\ (remote'.row.status = "confirmed" \/ Coming(c)')
    BY <1>3 DEF Entered, Logged, Since
  <1>5. Op(s) # "set_booking"
    <2> SUFFICES ASSUME Op(s) = "set_booking" PROVE FALSE
      OBVIOUS
    <2>1. remote'.status = q[2] /\ q[2] = WrittenBack(e)
      BY <1>2, InHandIs DEF BookingMoves, Clean
    <2>2. e.type \in {"link_paid", "cancelled", "reschedule_requested"}
      BY InHandIs
    <2>3. e.type \notin {"link_paid", "reschedule_requested"}
      BY <1>1 DEF Straight, Logged
    <2> HIDE DEF e, q
    <2> QED
      BY <2>1, <2>2, <2>3 DEF WrittenBack
  <1>6. remote.status = "confirmed"
    BY <1>2, <1>5 DEF BookingMoves
  <1>7. PICK c \in Logged({"confirmed"}) :
            Since(c) /\ (remote.row.status = "confirmed" \/ Coming(c))
    BY <1>6 DEF Entered
  <1>8. c \in DOMAIN log /\ log[c].type = "confirmed" /\ c \in Nat /\ n \in Nat
    BY <1>1, <1>7 DEF Logged
  <1>9. CASE n < c
    <2>1. c \in queue
      BY <1>1, <1>8, <1>9 DEF InOrder
    <2>2. \A t \in Slot : slot'[t].ev # c
      BY <1>4, <1>8, <1>9
    <2>3. Coming(c)'
      BY <1>3, <2>1, <2>2 DEF Coming
    <2> QED
      BY <1>7, <2>3
  <1>10. CASE n >= c
    <2>1. e.status = "confirmed"
      BY <1>1, <1>7, <1>10 DEF Since
    <2>2. e.type # "payment_pending" /\ e.type \notin Ending
      BY <1>1, <2>1 DEF History, Ending
    <2>3. Op(s) \notin {"drop_row", "mark_row"}
      BY <2>2, InHandIs
    <2>4. CASE Op(s) = "put_row"
      BY <1>2, <1>7, <2>2, <2>4, InHandIs DEF RowMoves, Clean
    <2>5. CASE Op(s) # "put_row"
      <3>1. CacheStatus(e) = "confirmed"
        BY <2>1 DEF CacheStatus
      <3>2. remote'.row.status \in {remote.row.status, "confirmed"}
        BY <1>2, <2>3, <2>5, <3>1, InHandIs DEF RowMoves
      <3>3. CASE remote.row.status = "confirmed"
        BY <1>7, <3>2, <3>3
      <3>4. CASE Coming(c)
        <4>1. n = c /\ Has(slot[s].todo, {"put_row"})
          BY <1>1, <1>8, <1>10, <3>4 DEF Coming
        <4>2. Op(s) # "change_row"
          BY <1>1, <1>8, <4>1, InHandIs DEF Updates
        <4>3. Has(Tail(slot[s].todo), {"put_row"})
          <5>1. slot[s].todo \in Seq(Allowed(e)) /\ Head(slot[s].todo)[1] # "put_row"
            BY <2>5, Working DEF Common, Op
          <5> QED
            BY <4>1, <5>1, HasRest
        <4>4. \A t \in Slot : slot'[t].ev = c => Has(slot'[t].todo, {"put_row"})
          <5>1. slot'[s] = Idle \/ Has(slot'[s].todo, {"put_row"})
            BY <4>2, <4>3 DEF TurnsTo
          <5> QED
            BY <1>1, <1>4, <4>1, <5>1 DEF Idle
        <4>5. Coming(c)'
          BY <1>1, <1>3, <4>1, <4>4 DEF Coming
        <4> QED
          BY <1>7, <4>5
      <3> QED
        BY <1>7, <3>3, <3>4
    <2> QED
      BY <2>4, <2>5
  <1> QED
    BY <1>8, <1>9, <1>10

\* Any step of a slot.
LEMMA EnteredStep ==
  ASSUME Common, doc.kind = "booking", NEW s \in Slot, Step(s), CalendarInv, tidy', Clean',
         Straight'
  PROVE  Entered'
  <1>0. /\ log \in Seq(Event) /\ queue \subseteq DOMAIN log /\ 0 \notin queue
    BY LenProperties DEF Common, Typed
  <1>1. tidy /\ Clean /\ Straight
    <2>1. (tidy' => tidy) /\ (Clean' => Clean) /\ log' = log
      BY CalendarCases DEF Taken, TurnsTo, Clean
    <2> QED
      BY <2>1 DEF Straight, Logged
  <1>2. History /\ InOrder /\ Entered
    BY <1>1 DEF CalendarInv
  <1>3. ASSUME UNCHANGED <<remote, log>>, \A c : Coming(c) => Coming(c)' PROVE Entered'
    BY <1>2, <1>3 DEF Entered, Logged, Since
  <1>4. ASSUME NEW n \in queue, Taken(s, n) PROVE Entered'
    <2>1. log[n].type = "confirmed" => Has(Steps(log[n]), {"put_row"})
      BY <1>0, ConfirmedPuts DEF Event
    <2>2. ASSUME remote.status = "confirmed"
          PROVE  \E c \in Logged({"confirmed"}) :
                     Since(c) /\ (remote.row.status = "confirmed" \/ Coming(c)')
      <3>1. PICK c \in Logged({"confirmed"}) :
                Since(c) /\ (remote.row.status = "confirmed" \/ Coming(c))
        BY <1>2, <2>2 DEF Entered
      <3>2. Coming(c) => Coming(c)'
        BY <1>4, <2>1 DEF Coming, Taken, Logged
      <3> QED
        BY <3>1, <3>2
    <2> QED
      BY <1>4, <2>2 DEF Entered, Taken, Logged, Since
  <1>5. CASE Released(s) /\ slot[s].ev # 0 /\ slot[s].todo = <<>> /\ queue' = queue \ {slot[s].ev}
             /\ UNCHANGED <<remote, log>>
    <2>1. ~Has(slot[s].todo, {"put_row"})
      BY <1>5, HasOne
    <2>2. \A c : Coming(c) => Coming(c)'
      BY <1>0, <1>5, <2>1 DEF Coming, Released, Idle
    <2> QED
      BY <1>3, <1>5, <2>2
  <1>6. CASE Released(s) /\ UNCHANGED <<remote, log, queue>>
    <2>1. \A c : Coming(c) => Coming(c)'
      BY <1>0, <1>6 DEF Coming, Released, Idle
    <2> QED
      BY <1>3, <1>6, <2>1
  <1> QED
    BY <1>1, <1>2, <1>4, <1>5, <1>6, CalendarCases, EnteredDoes

\* A new event about the booking, with the next number.
Adds(e, n) ==
    /\ Tells(e.type, remote')
    /\ e.status = remote'.status
    /\ e.pay = "success" => remote'.paid \/ remote'.pay = "success"
    /\ n \notin DOMAIN log /\ log'[n] = e /\ DOMAIN log' = DOMAIN log \cup {n}
    /\ \A m \in DOMAIN log : m \in Nat /\ m < n /\ log'[m] = log[m]
    /\ n \notin queue /\ queue' = queue \cup {n} /\ queue \subseteq DOMAIN log
    /\ \A s \in Slot : slot[s].ev \in DOMAIN log \cup {0} /\ slot[s].ev # n
    /\ UNCHANGED <<doc, slot, missed, tidy>>

\* Whatever happens to the booking adds one event.
LEMMA Added ==
  ASSUME Common, doc.kind = "booking", Happen
  PROVE  \E e \in BookingEvent, n \in Nat \ {0} : Adds(e, n)
  <1>1. PICK e \in BookingEvent :
            /\ Publish(e) /\ Tells(e.type, remote')
            /\ e.status = remote'.status
            /\ e.pay = "success" => remote'.paid \/ remote'.pay = "success"
            /\ doc' = doc
    BY Published
  <1> DEFINE n == Len(log) + 1
  <1>2. /\ Len(log) \in Nat /\ log'[n] = e /\ DOMAIN log' = DOMAIN log \cup {n}
        /\ n \notin DOMAIN log /\ queue' = queue \cup {n}
        /\ \A m \in DOMAIN log : log'[m] = log[m] /\ m <= Len(log)
    BY <1>1, PublishApart DEF Common, Event
  <1>3. /\ DOMAIN log = 1..Len(log) /\ queue \subseteq DOMAIN log
        /\ \A s \in Slot : slot[s].ev = 0 \/ slot[s].ev \in queue
    BY LenProperties DEF Common, Typed, Apart, Idle
  <1>4. \A m \in DOMAIN log : m \in Nat /\ m < n
    BY <1>2, <1>3
  <1>5. n \notin queue /\ \A s \in Slot : slot[s].ev \in DOMAIN log \cup {0} /\ slot[s].ev # n
    BY <1>2, <1>3
  <1>6. n \in Nat \ {0} /\ UNCHANGED <<doc, slot, missed, tidy>>
    BY <1>1, <1>2 DEF Publish
  <1> HIDE DEF n
  <1>7. Adds(e, n)
    BY <1>1, <1>2, <1>3, <1>4, <1>5, <1>6 DEF Adds
  <1> QED
    BY <1>6, <1>7

\* The history stays consistent with a new event.
LEMMA HistoryAdded ==
  ASSUME NEW e \in BookingEvent, NEW n \in Nat \ {0}, Adds(e, n), History
  PROVE  History'
  <1>1. /\ remote'.row = remote.row /\ (remote.paid => remote'.paid)
        /\ log'[n] = e /\ DOMAIN log' = DOMAIN log \cup {n} /\ n \notin DOMAIN log
        /\ \A m \in DOMAIN log : m \in Nat /\ m < n /\ log'[m] = log[m]
    BY DEF Adds, Tells
  <1>2. PaidNow'
    BY DEF Adds, Tells, PaidNow, History
  <1>3. ASSUME NEW m \in DOMAIN log'
        PROVE  /\ log'[m].type = "link_paid" \/ log'[m].pay = "success" => remote'.paid
               /\ log'[m].type = "payment_pending" => log'[m].status = "pending"
               /\ log'[m].type \in Ending => log'[m].status = log'[m].type
    <2>1. CASE m = n
      BY <1>1, <1>2, <2>1 DEF Adds, Tells, PaidNow
    <2>2. CASE m \in DOMAIN log
      BY <1>1, <2>2 DEF History
    <2> QED
      BY <1>1, <2>1, <2>2
  <1>4. ASSUME Logged({"cancelled"})' # {}
        PROVE  /\ remote'.status \notin Unconfirmed
               /\ remote'.status = "confirmed" => remote'.paid
    <2>1. CASE e.type = "cancelled"
      BY <2>1 DEF Adds, Tells, Ending, Unconfirmed
    <2>2. CASE Logged({"cancelled"}) # {}
      BY <2>2 DEF Adds, Tells, History, PaidNow
    <2> QED
      BY <1>1, <1>4, <2>1, <2>2 DEF Logged
  <1>5. ASSUME NEW k \in DOMAIN log', NEW m \in DOMAIN log', k < m, log'[k].type = "cancelled"
        PROVE  log'[m].type \notin {"payment_pending", "status_success"}
    <2>1. CASE m \in DOMAIN log
      <3>1. k \in DOMAIN log
        BY <1>1, <1>5, <2>1
      <3> QED
        BY <1>1, <1>5, <2>1, <3>1 DEF History
    <2>2. CASE m = n
      <3>1. k \in DOMAIN log /\ log[k].type = "cancelled"
        BY <1>1, <1>5, <2>2
      <3>2. Logged({"cancelled"}) # {}
        BY <3>1 DEF Logged
      <3>3. remote.status \notin Unconfirmed /\ (remote.status = "confirmed" => remote.paid)
        BY <3>2 DEF History
      <3> QED
        BY <1>1, <2>2, <3>3 DEF Adds, Tells
    <2> QED
      BY <1>1, <2>1, <2>2
  <1> QED
    BY <1>1, <1>2, <1>3, <1>4, <1>5 DEF History

\* A new event does not disturb the others.
LEMMA OthersAdded ==
  ASSUME Common, NEW e \in BookingEvent, NEW n \in Nat \ {0}, Adds(e, n)
  PROVE  /\ (\A s \in Slot : WritesFirst(s)) => \A s \in Slot : WritesFirst(s)'
         /\ InOrder => InOrder'
         /\ Clean' = Clean /\ tidy' = tidy
         /\ Reopened => Reopened'
         /\ Straight' => Straight
  <1>1. /\ log'[n] = e /\ DOMAIN log' = DOMAIN log \cup {n} /\ n \notin DOMAIN log
        /\ \A m \in DOMAIN log : m \in Nat /\ m < n /\ log'[m] = log[m]
        /\ queue' = queue \cup {n} /\ queue \subseteq DOMAIN log
        /\ \A s \in Slot : slot[s].ev \in DOMAIN log \cup {0}
        /\ UNCHANGED <<doc, slot, missed, tidy>>
    BY DEF Adds
  <1>2. 0 \notin DOMAIN log
    BY LenProperties DEF Common, Typed
  <1>3. \A s \in Slot : slot[s].ev # 0 => Ev(s)' = Ev(s)
    BY <1>1 DEF Ev
  <1>4. (\A s \in Slot : WritesFirst(s)) => \A s \in Slot : WritesFirst(s)'
    BY <1>1, <1>3 DEF WritesFirst, Op
  <1>5. InOrder => InOrder'
    <2> SUFFICES ASSUME InOrder PROVE InOrder'
      OBVIOUS
    <2>1. \A s \in Slot : slot[s].ev # 0 => \A m \in queue' : slot[s].ev <= m
      BY <1>1 DEF InOrder
    <2>2. \A k \in DOMAIN log' \ queue' : k \in DOMAIN log \ queue
      BY <1>1
    <2>3. \A k \in DOMAIN log' \ queue' : \A m \in queue' : k < m
      BY <1>1, <2>2 DEF InOrder
    <2>4. \A s, t \in Slot : slot[s].ev # 0 /\ slot[t].ev # 0 => s = t
      BY DEF InOrder
    <2> QED
      BY <1>1, <2>1, <2>3, <2>4 DEF InOrder
  <1>6. Reopened => Reopened'
    BY <1>1 DEF Reopened
  <1>7. Straight' => Straight
    BY <1>1 DEF Straight, Logged
  <1> QED
    BY <1>1, <1>4, <1>5, <1>6, <1>7 DEF Clean

\* After a new event: the end of a booking is itself still to be handled.
LEMMA VacatedAdded ==
  ASSUME Common, NEW e \in BookingEvent, NEW n \in Nat \ {0}, Adds(e, n), Vacated
  PROVE  Vacated'
  <1>1. /\ log'[n] = e /\ n \notin DOMAIN log /\ n \notin queue
        /\ \A m \in DOMAIN log : m \in Nat /\ m < n /\ log'[m] = log[m]
        /\ queue' = queue \cup {n} /\ queue \subseteq DOMAIN log
        /\ \A s \in Slot : slot[s].ev \in DOMAIN log \cup {0} /\ slot[s].ev # n
        /\ slot' = slot /\ remote'.row = remote.row
    BY DEF Adds, Tells
  <1>2. \A s \in Slot : slot[s].ev # 0 => Ev(s)' = Ev(s)
    BY <1>1 DEF Ev
  <1>3. \A s \in Slot : Dropped(s)' <=> Dropped(s)
    BY <1>1, <1>2 DEF Dropped
  <1>4. \A m : Wrote(m)' <=> Wrote(m)
    BY <1>1 DEF Wrote
  <1>5. Ended \subseteq Ended'
    BY <1>1 DEF Ended
  <1>6. ~Wrote(n)
    BY <1>1 DEF Wrote
  <1>7. \A m \in Puts' : m = n \/ m \in Puts
    BY <1>1, <1>4 DEF Puts
  <1>8. ASSUME remote'.status \in Ending
        PROVE  /\ remote'.row # NoRow => Ended' # {}
               /\ \A m \in Puts' : \E k \in Ended' : m < k
    <2>1. CASE e.type = remote'.status
      <3>1. n \in Ended'
        BY <1>1, <1>8, <2>1 DEF Ended
      <3>2. n \notin Puts'
        BY <1>1, <1>4, <1>6, <1>8, <2>1 DEF Puts, Ending
      <3>3. \A m \in Puts' : m < n
        BY <1>1, <1>7, <3>2 DEF Puts
      <3> QED
        BY <3>1, <3>3
    <2>2. CASE /\ remote.status = remote'.status
               /\ e.type \notin {"payment_pending", "confirmed", "status_success"}
      <3>1. n \notin Puts'
        BY <1>1, <1>4, <1>6, <2>2 DEF Puts
      <3> QED
        BY <1>1, <1>5, <1>7, <1>8, <2>2, <3>1 DEF Vacated
    <2> QED
      BY <1>8, <2>1, <2>2 DEF Adds, Tells
  <1> QED
    BY <1>1, <1>3, <1>8 DEF Vacated

\* After a new event: a confirmation is itself still to be handled.
LEMMA EnteredAdded ==
  ASSUME NEW e \in BookingEvent, NEW n \in Nat \ {0}, Adds(e, n), Entered
  PROVE  Entered'
  <1>1. /\ log'[n] = e /\ DOMAIN log' = DOMAIN log \cup {n} /\ n \notin DOMAIN log
        /\ \A m \in DOMAIN log : m \in Nat /\ m < n /\ log'[m] = log[m]
        /\ queue' = queue \cup {n} /\ slot' = slot /\ remote'.row = remote.row
        /\ \A s \in Slot : slot[s].ev # n
        /\ e.status = remote'.status
    BY DEF Adds, Tells
  <1> SUFFICES ASSUME remote'.status = "confirmed"
               PROVE  \E c \in Logged({"confirmed"})' :
                          Since(c)' /\ (remote'.row.status = "confirmed" \/ Coming(c)')
    BY DEF Entered
  <1>2. CASE e.type = "confirmed"
    <2>1. n \in Logged({"confirmed"})'
      BY <1>1, <1>2 DEF Logged
    <2>2. Since(n)'
      <3>1. \A m \in DOMAIN log' : m >= n => m = n
        BY <1>1
      <3> QED
        BY <1>1, <3>1 DEF Since
    <2>3. Coming(n)'
      BY <1>1 DEF Coming
    <2> QED
      BY <2>1, <2>2, <2>3
  <1>3. CASE e.type # "confirmed"
    <2>1. remote.status = "confirmed"
      BY <1>3 DEF Adds, Tells
    <2>2. PICK c \in Logged({"confirmed"}) :
              Since(c) /\ (remote.row.status = "confirmed" \/ Coming(c))
      BY <2>1 DEF Entered
    <2>3. c \in Logged({"confirmed"})'
      BY <1>1, <2>2 DEF Logged
    <2>4. Since(c)'
      BY <1>1, <2>2 DEF Since
    <2>5. Coming(c) => Coming(c)'
      BY <1>1 DEF Coming
    <2> QED
      BY <1>1, <2>2, <2>3, <2>4, <2>5
  <1> QED
    BY <1>2, <1>3

\* The invariant is inductive.
LEMMA CalendarNext == Common /\ CalendarInv /\ [Next]_vars => CalendarInv'
  <1> SUFFICES ASSUME Common, CalendarInv, [Next]_vars, doc'.kind = "booking"
               PROVE  /\ History'
                      /\ \A s \in Slot : WritesFirst(s)'
                      /\ tidy' => InOrder'
                      /\ tidy' /\ Clean' /\ ~Reopened' => Vacated'
                      /\ tidy' /\ Clean' /\ Straight' => Entered'
    BY DEF CalendarInv
  <1>0. doc' = doc /\ doc.kind = "booking"
    BY NextLasting DEF Common, Typed, Lasting
  <1>1. /\ History /\ (\A s \in Slot : WritesFirst(s)) /\ (tidy => InOrder)
        /\ tidy /\ Clean /\ ~Reopened => Vacated
        /\ tidy /\ Clean /\ Straight => Entered
    BY <1>0 DEF CalendarInv
  <1>2. CASE UNCHANGED vars
    BY <1>1, <1>2
       DEF vars, History, PaidNow, Logged, WritesFirst, Op, Ev, InOrder, Clean, Reopened, Straight,
           Vacated, Ended, Puts, Wrote, Dropped, Entered, Since, Coming
  <1>3. CASE Happen
    <2>1. PICK e \in BookingEvent, n \in Nat \ {0} : Adds(e, n)
      BY <1>0, <1>3, Added
    <2>2. /\ (\A s \in Slot : WritesFirst(s)) => \A s \in Slot : WritesFirst(s)'
          /\ InOrder => InOrder'
          /\ Clean' = Clean /\ tidy' = tidy
          /\ Reopened => Reopened'
          /\ Straight' => Straight
      BY <2>1, OthersAdded
    <2>3. History'
      BY <1>1, <2>1, HistoryAdded
    <2>4. Vacated => Vacated'
      BY <2>1, VacatedAdded
    <2>5. Entered => Entered'
      BY <2>1, EnteredAdded
    <2> QED
      BY <1>1, <2>2, <2>3, <2>4, <2>5
  <1>4. ASSUME NEW s \in Slot, Step(s)
        PROVE  /\ History'
               /\ \A t \in Slot : WritesFirst(t)'
               /\ tidy' => InOrder'
               /\ tidy' /\ Clean' /\ ~Reopened' => Vacated'
               /\ tidy' /\ Clean' /\ Straight' => Entered'
    BY <1>0, <1>1, <1>4, HistoryStep, WritesStep, InOrderStep, VacatedStep, EnteredStep
  <1> QED
    BY <1>2, <1>3, <1>4 DEF Next

\* When nothing is left to handle, it says what the calendar must show.
LEMMA CalendarMeans == Common /\ CalendarInv => CalendarAgrees
  <1> SUFFICES ASSUME Common, CalendarInv, doc.kind = "booking", tidy, Quiescent, Clean
               PROVE  /\ remote.status \in Ending /\ ~Reopened => remote.row = NoRow
                      /\ remote.status = "confirmed" /\ Straight => remote.row.status = "confirmed"
    BY DEF CalendarAgrees, Clean, Ending, Straight
  <1>1. queue = {} /\ Ended = {} /\ \A c : ~Coming(c)
    BY DEF Quiescent, Ended, Coming
  <1> QED
    BY <1>1 DEF CalendarInv, Vacated, Entered

\* Events handled in their order leave the calendar right, however many there are: a cancelled
\* or missed appointment has no row, a confirmed one has a row that says so, unless a call
\* failed for good, or a handler's write made the events behind it stale.
THEOREM Calendar == Spec => []CalendarAgrees
  <1>1. Init => CalendarInv
    <2> SUFFICES ASSUME Init, doc.kind = "booking"
                 PROVE  /\ History
                        /\ \A s \in Slot : WritesFirst(s)
                        /\ InOrder /\ Vacated /\ Entered
      BY DEF CalendarInv
    <2>1. /\ slot = [s \in Slot |-> Idle] /\ log = <<>> /\ queue = {}
          /\ remote = IF doc.refunding THEN CancelledBooking ELSE NewBooking
      BY DEF Init, InitDelivery
    <2>2. (\A s \in Slot : slot[s].ev = 0) /\ DOMAIN log = {}
      BY <2>1 DEF Idle
    <2>3. /\ remote.row = NoRow /\ DOMAIN remote.row = {"status", "pay"}
          /\ remote.pay # "success" /\ remote.status # "confirmed"
      BY <2>1 DEF CancelledBooking, NewBooking, NoRow
    <2>4. Logged({"cancelled"}) = {} /\ Puts = {}
      BY <2>1, <2>2 DEF Logged, Puts
    <2>5. History
      BY <2>2, <2>3, <2>4 DEF History, PaidNow
    <2>6. (\A s \in Slot : WritesFirst(s)) /\ InOrder
      BY <2>1, <2>2 DEF WritesFirst, InOrder
    <2>7. Vacated /\ Entered
      BY <2>2, <2>3, <2>4 DEF Vacated, Dropped, Entered
    <2> QED
      BY <2>5, <2>6, <2>7
  <1> QED
    BY <1>1, CalendarNext, CalendarMeans, CommonInit, CommonNext, PTL DEF Spec

=============================================================================
