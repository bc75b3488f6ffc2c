------------------------- MODULE KafkaConsumerProofs -------------------------
(***************************************************************************)
(* Theorems about KafkaConsumer, for any messages, partitions, workers and *)
(* bounds.                                                                 *)
(*                                                                         *)
(* That a commit skips nothing does not follow from the committed offsets  *)
(* alone: a commit stores the offset of the event in hand, so everything   *)
(* before that event must have been handled (EarlierHandled); the event    *)
(* comes from the position of the partition's owner, so everything below   *)
(* the position must have been handled, the owner's event in hand apart    *)
(* (FetchedHandled); and a worker that gives up its event must not fetch   *)
(* again before it has left the group (ClosedOwnsNothing).                 *)
(***************************************************************************)
EXTENDS KafkaConsumer, TLAPS

HandledBelow(p, n) == \A i \in Nat \ {0} : i <= n => <<p, i>> \in Handled

CommittedHandled == \A p \in Partitions : HandledBelow(p, committed[p])

FetchedHandled ==
    \A p \in Partitions, w \in Workers :
        owner[p] = w /\ loop[w] # "stopped" =>
            \A i \in Nat \ {0} : i <= position[p] =>
                \/ <<p, i>> \in Handled
                \/ InHand(w) /\ current[w] = <<p, i>>

EarlierHandled ==
    \A w \in Workers, p \in Partitions, i \in Nat \ {0} :
        InHand(w) /\ current[w] = <<p, i>> => HandledBelow(p, i - 1)

CommittingHandled ==
    \A w \in Workers : loop[w] = "commit" => current[w] \in Handled

InHandIsEvent == \A w \in Workers : InHand(w) => current[w] \in Events

ClosedOwnsNothing ==
    \A w \in Workers : closed[w] => \A p \in Partitions : owner[p] # w

TypeInv == TypeOK /\ InHandIsEvent

OffsetInv ==
    /\ CommittedHandled
    /\ FetchedHandled
    /\ EarlierHandled
    /\ CommittingHandled
    /\ ClosedOwnsNothing

ConsumerInv == TypeInv /\ (HasDeadLetterTopic => OffsetInv)

-----------------------------------------------------------------------------
(* Types. *)

\* The types hold at the start.
LEMMA TypeInit == Init => TypeInv
  BY ConsumerAssumption
  DEF Init, ConsumerInit, TypeInv, TypeOK, InHandIsEvent, InHand, Loops

\* All steps keep the types.
LEMMA TypeStep == TypeInv /\ [Next]_vars => TypeInv'
  <1> SUFFICES ASSUME TypeInv, [Next]_vars PROVE TypeInv'
    OBVIOUS
  <1> USE ConsumerAssumption
      DEF TypeInv, TypeOK, InHandIsEvent, InHand, Loops
  <1>f. Fault \/ UNCHANGED faults => faults' \in 0..MaxFaults
    BY DEF Fault
  <1>1. ASSUME NEW p \in Partitions, NEW m \in Messages, Produce(p, m)
        PROVE  TypeInv'
    BY <1>1 DEF Produce, consumerVars, groupVars, workerVars, outcomeVars
  <1>2. ASSUME NEW w \in Workers, NEW p \in Partitions,
               Join(p, w) \/ Rebalance(p, w)
        PROVE  TypeInv'
    <2>1. Assign(p, w) /\ faults' \in 0..MaxFaults
      BY <1>2, <1>f DEF Join, Rebalance
    <2> QED
      BY <2>1 DEF Assign, workerVars, outcomeVars
  <1>3. ASSUME NEW w \in Workers, NEW p \in Partitions, FetchMessage(w, p)
        PROVE  TypeInv'
    BY <1>3 DEF FetchMessage, Goto, Events, outcomeVars
  <1>4. ASSUME NEW w \in Workers, FetchCanceled(w) \/ BackoffEnds(w)
        PROVE  TypeInv'
    BY <1>4 DEF FetchCanceled, BackoffEnds, Goto, groupVars, outcomeVars
  <1>5. ASSUME NEW w \in Workers, Handler(w) PROVE TypeInv'
    BY <1>5 DEF Handler, HandlerReturns, ConsumeAction, Goto, groupVars
  <1>6. ASSUME NEW w \in Workers, PublishDeadLetter(w) \/ DeadLetterFails(w)
        PROVE  TypeInv'
    <2>1. faults' \in 0..MaxFaults
      BY <1>6, <1>f DEF PublishDeadLetter, DeadLetterFails
    <2>2. current[w] \in Events
      BY <1>6 DEF PublishDeadLetter, DeadLetterFails
    <2> QED
      BY <1>6, <2>1, <2>2
      DEF PublishDeadLetter, DeadLetterFails, Goto, groupVars
  <1>7. ASSUME NEW w \in Workers, CommitMessages(w) PROVE TypeInv'
    <2>1. current[w] \in Events
      BY <1>7 DEF CommitMessages
    <2> QED
      BY <1>7, <2>1 DEF CommitMessages, Events, Goto, outcomeVars
  <1>8. ASSUME NEW w \in Workers, CommitFails(w) PROVE TypeInv'
    <2>1. faults' \in 0..MaxFaults
      BY <1>8, <1>f DEF CommitFails
    <2> QED
      BY <1>8, <2>1 DEF CommitFails, Goto, groupVars, outcomeVars
  <1>9. ASSUME NEW w \in Workers, Cancel(w) \/ CloseReader(w)
        PROVE  TypeInv'
    <2>1. faults' \in 0..MaxFaults
      BY <1>9, <1>f DEF Cancel, CloseReader
    <2> QED
      BY <1>9, <2>1 DEF Cancel, CloseReader, LeaveGroup, groupVars, outcomeVars
  <1>10. ASSUME NEW w \in Workers, Crash(w) \/ Restart(w) PROVE TypeInv'
    <2>1. faults' \in 0..MaxFaults
      BY <1>10, <1>f DEF Crash, Restart
    <2>2. CASE Crash(w)
      BY <2>1, <2>2 DEF Crash, LeaveGroup, Goto, outcomeVars
    <2>3. CASE Restart(w)
      BY <2>1, <2>3 DEF Restart, Goto, groupVars, outcomeVars
    <2> QED
      BY <1>10, <2>2, <2>3
  <1>11. CASE UNCHANGED vars
    BY <1>11
    DEF vars, consumerVars, groupVars, workerVars, outcomeVars
  <1> QED
    BY <1>1, <1>2, <1>3, <1>4, <1>5, <1>6, <1>7, <1>8, <1>9, <1>10, <1>11
    DEF Next, Consume, Lifecycle

\* Every variable of the consumer keeps its type, the event in hand included.
THEOREM TypeCorrect == Spec => []TypeOK
  <1>1. TypeInv => TypeOK
    BY DEF TypeInv
  <1> QED
    BY <1>1, TypeInit, TypeStep, PTL DEF Spec

-----------------------------------------------------------------------------
(* Offsets. *)

\* At the start nothing is committed.
LEMMA OffsetInit == Init => OffsetInv
  BY ConsumerAssumption
  DEF Init, ConsumerInit, OffsetInv, CommittedHandled, FetchedHandled,
      EarlierHandled, CommittingHandled, ClosedOwnsNothing, HandledBelow, InHand

\* Steps that leave the group alone and at most take one worker on with the
\* event it has in hand.
LEMMA HandlingStep ==
    ASSUME TypeInv, OffsetInv, Handled \subseteq Handled',
           UNCHANGED <<committed, owner, position, closed, current>>,
           NEW w \in Workers,
           \A v \in Workers : v # w => loop'[v] = loop[v],
           loop[w] = "stopped" => loop'[w] = "stopped",
           InHand(w)' => InHand(w),
           InHand(w) /\ ~InHand(w)' =>
               loop'[w] = "stopped" \/ current[w] \in Handled',
           loop'[w] = "commit" => loop[w] = "commit" \/ current[w] \in Handled'
    PROVE  OffsetInv'
  <1>1. CommittedHandled'
    BY DEF OffsetInv, CommittedHandled, HandledBelow
  <1>2. FetchedHandled'
    BY DEF OffsetInv, FetchedHandled, InHand
  <1>3. EarlierHandled'
    BY DEF OffsetInv, EarlierHandled, HandledBelow, InHand
  <1>4. CommittingHandled'
    BY DEF OffsetInv, CommittingHandled
  <1>5. ClosedOwnsNothing'
    BY DEF OffsetInv, ClosedOwnsNothing
  <1> QED
    BY <1>1, <1>2, <1>3, <1>4, <1>5 DEF OffsetInv

\* The group coordinator makes the owner start from the committed offset.
LEMMA AssignStep ==
    ASSUME TypeInv, OffsetInv, NEW p \in Partitions, NEW w \in Workers,
           Assign(p, w)
    PROVE  OffsetInv'
  <1> USE DEF TypeInv, TypeOK
  <1>1. /\ UNCHANGED <<committed, loop, current, closed, acked, deadLetters>>
        /\ owner' = [owner EXCEPT ![p] = w]
        /\ position' = [position EXCEPT ![p] = committed[p]]
        /\ ~closed[w]
    BY DEF Assign, workerVars, outcomeVars
  <1>2. Handled' = Handled
    BY <1>1 DEF Handled
  <1>3. CommittedHandled' /\ EarlierHandled' /\ CommittingHandled'
    BY <1>1, <1>2
    DEF OffsetInv, CommittedHandled, EarlierHandled, CommittingHandled,
        HandledBelow, InHand
  <1>4. FetchedHandled'
    BY <1>1, <1>2
    DEF OffsetInv, CommittedHandled, FetchedHandled, HandledBelow, InHand
  <1>5. ClosedOwnsNothing'
    BY <1>1 DEF OffsetInv, ClosedOwnsNothing
  <1> QED
    BY <1>3, <1>4, <1>5 DEF OffsetInv

\* The worker has nothing in hand, so all it fetched before is handled.
LEMMA FetchStep ==
    ASSUME TypeInv, OffsetInv, NEW w \in Workers, NEW p \in Partitions,
           FetchMessage(w, p)
    PROVE  OffsetInv'
  <1> USE DEF TypeInv, TypeOK
  <1>1. /\ UNCHANGED <<committed, owner, closed, acked, deadLetters>>
        /\ owner[p] = w /\ loop[w] = "fetch"
        /\ position' = [position EXCEPT ![p] = @ + 1]
        /\ current' = [current EXCEPT ![w] = <<p, position[p] + 1>>]
        /\ loop' = [loop EXCEPT ![w] = "handle"]
    BY DEF FetchMessage, Goto, outcomeVars
  <1>2. Handled' = Handled
    BY <1>1 DEF Handled
  <1>3. \A q \in Partitions : owner[q] = w => HandledBelow(q, position[q])
    BY <1>1 DEF OffsetInv, FetchedHandled, HandledBelow, InHand
  <1>4. CommittedHandled'
    BY <1>1, <1>2 DEF OffsetInv, CommittedHandled, HandledBelow
  <1>5. FetchedHandled'
    <2> SUFFICES ASSUME NEW q \in Partitions, NEW v \in Workers,
                        owner[q] = v, loop'[v] # "stopped",
                        NEW i \in Nat \ {0}, i <= position'[q]
                 PROVE  \/ <<q, i>> \in Handled
                        \/ InHand(v)' /\ current'[v] = <<q, i>>
      BY <1>1, <1>2 DEF FetchedHandled
    <2>1. CASE v = w /\ i <= position[q]
      BY <1>3, <2>1 DEF HandledBelow
    <2>2. CASE v = w /\ ~(i <= position[q])
      <3>1. q = p /\ i = position[p] + 1
        BY <1>1, <2>2
      <3> QED
        BY <1>1, <2>2, <3>1 DEF InHand
    <2>3. CASE v # w
      BY <1>1, <2>3 DEF OffsetInv, FetchedHandled, InHand
    <2> QED
      BY <2>1, <2>2, <2>3
  <1>6. EarlierHandled'
    <2> SUFFICES ASSUME NEW v \in Workers, NEW q \in Partitions,
                        NEW i \in Nat \ {0},
                        InHand(v)', current'[v] = <<q, i>>
                 PROVE  HandledBelow(q, i - 1)'
      BY DEF EarlierHandled
    <2>1. CASE v = w
      <3>1. <<p, position[p] + 1>> = <<q, i>> /\ position[p] \in Nat
        BY <1>1, <2>1
      <3>2. q = p /\ i = position[p] + 1
        BY <3>1, Zenon
      <3>3. i - 1 = position[p]
        BY <3>1, <3>2
      <3> QED
        BY <1>1, <1>2, <1>3, <3>2, <3>3 DEF HandledBelow
    <2>2. CASE v # w
      BY <1>1, <1>2, <2>2 DEF OffsetInv, EarlierHandled, HandledBelow, InHand
    <2> QED
      BY <2>1, <2>2
  <1>7. CommittingHandled' /\ ClosedOwnsNothing'
    BY <1>1, <1>2 DEF OffsetInv, CommittingHandled, ClosedOwnsNothing
  <1> QED
    BY <1>4, <1>5, <1>6, <1>7 DEF OffsetInv

\* The offset stored is that of an event that is handled, like all before it.
LEMMA CommitStep ==
    ASSUME TypeInv, OffsetInv, NEW w \in Workers, CommitMessages(w)
    PROVE  OffsetInv'
  <1> USE DEF TypeInv, TypeOK
  <1>0. current[w] \in Partitions \X (Nat \ {0})
    BY DEF CommitMessages, InHandIsEvent, InHand, Events
  <1>1. PICK p \in Partitions, i \in Nat \ {0} : current[w] = <<p, i>>
    BY <1>0
  <1>2. /\ UNCHANGED <<owner, position, closed, current, acked, deadLetters>>
        /\ loop[w] = "commit"
        /\ committed' = [committed EXCEPT ![p] = i]
        /\ loop' = [loop EXCEPT ![w] = "fetch"]
    BY <1>1 DEF CommitMessages, Goto, outcomeVars
  <1>3. Handled' = Handled
    BY <1>2 DEF Handled
  <1>4. <<p, i>> \in Handled /\ HandledBelow(p, i - 1)
    BY <1>1, <1>2 DEF OffsetInv, CommittingHandled, EarlierHandled, InHand
  <1>5. HandledBelow(p, i)
    <2> SUFFICES ASSUME NEW j \in Nat \ {0}, j <= i
                 PROVE  <<p, j>> \in Handled
      BY DEF HandledBelow
    <2>1. j = i \/ j <= i - 1
      OBVIOUS
    <2> QED
      BY <1>4, <2>1 DEF HandledBelow
  <1>6. CommittedHandled'
    BY <1>2, <1>3, <1>5 DEF OffsetInv, CommittedHandled, HandledBelow
  <1>7. FetchedHandled'
    <2> SUFFICES ASSUME NEW q \in Partitions, NEW v \in Workers,
                        owner[q] = v, loop'[v] # "stopped",
                        NEW j \in Nat \ {0}, j <= position[q]
                 PROVE  \/ <<q, j>> \in Handled
                        \/ InHand(v)' /\ current[v] = <<q, j>>
      BY <1>2, <1>3 DEF FetchedHandled
    <2>1. \/ <<q, j>> \in Handled
          \/ InHand(v) /\ current[v] = <<q, j>>
      BY <1>2 DEF OffsetInv, FetchedHandled
    <2>2. CASE v = w
      BY <1>1, <1>4, <2>1, <2>2
    <2>3. CASE v # w
      BY <1>2, <2>1, <2>3 DEF InHand
    <2> QED
      BY <2>2, <2>3
  <1>8. EarlierHandled'
    BY <1>2, <1>3 DEF OffsetInv, EarlierHandled, HandledBelow, InHand
  <1>9. CommittingHandled' /\ ClosedOwnsNothing'
    BY <1>2, <1>3 DEF OffsetInv, CommittingHandled, ClosedOwnsNothing
  <1> QED
    BY <1>6, <1>7, <1>8, <1>9 DEF OffsetInv

\* A worker that closes its reader, or dies, leaves the group; a restarted
\* one begins with nothing.
LEMMA LeaveStep ==
    ASSUME TypeInv, OffsetInv, NEW w \in Workers,
           CloseReader(w) \/ Crash(w) \/ Restart(w)
    PROVE  OffsetInv'
  <1> USE ConsumerAssumption DEF TypeInv, TypeOK
  <1>1. /\ UNCHANGED <<committed, position, acked, deadLetters>>
        /\ Handled' = Handled
    BY DEF CloseReader, Crash, Restart, groupVars, outcomeVars, Handled
  <1>2. \A p \in Partitions : owner'[p] # w
    BY DEF CloseReader, Crash, Restart, LeaveGroup, groupVars, OffsetInv,
           ClosedOwnsNothing
  <1>3. \A p \in Partitions, v \in Workers : owner'[p] = v => owner[p] = v
    BY DEF CloseReader, Crash, Restart, LeaveGroup, groupVars
  <1>4. \A v \in Workers : v # w =>
            /\ loop'[v] = loop[v] /\ current'[v] = current[v]
            /\ closed'[v] = closed[v]
    BY DEF CloseReader, Crash, Restart, Goto
  <1>5. InHand(w)' => InHand(w) /\ UNCHANGED <<current, loop>>
    BY DEF CloseReader, Crash, Restart, Goto, InHand
  <1>6. CommittedHandled'
    BY <1>1 DEF OffsetInv, CommittedHandled, HandledBelow
  <1>7. FetchedHandled'
    <2> SUFFICES ASSUME NEW v \in Workers, NEW p \in Partitions,
                        owner'[p] = v, loop'[v] # "stopped",
                        NEW i \in Nat \ {0}, i =< position'[p]
                 PROVE  \/ <<p, i>> \in Handled'
                        \/ InHand(v)' /\ current'[v] = <<p, i>>
      BY DEF FetchedHandled
    <2>1. v # w /\ owner[p] = v
      BY <1>2, <1>3
    <2>2. loop[v] # "stopped" /\ i =< position[p]
      BY <1>1, <1>4, <2>1
    <2>3. <<p, i>> \in Handled \/ (InHand(v) /\ current[v] = <<p, i>>)
      BY <2>1, <2>2 DEF OffsetInv, FetchedHandled
    <2> QED
      BY <1>1, <1>4, <2>1, <2>3 DEF InHand
  <1>8. EarlierHandled'
    BY <1>1, <1>4, <1>5 DEF OffsetInv, EarlierHandled, HandledBelow, InHand
  <1>9. CommittingHandled'
    BY <1>1, <1>4, <1>5 DEF OffsetInv, CommittingHandled, InHand
  <1>10. ClosedOwnsNothing'
    <2> SUFFICES ASSUME NEW v \in Workers, closed'[v], NEW p \in Partitions
                 PROVE  owner'[p] # v
      BY DEF ClosedOwnsNothing
    <2>1. CASE v = w
      BY <1>2, <2>1
    <2>2. CASE v # w
      <3>1. closed[v]
        BY <1>4, <2>2
      <3> QED
        BY <1>3, <3>1 DEF OffsetInv, ClosedOwnsNothing
    <2> QED
      BY <2>1, <2>2
  <1> QED
    BY <1>6, <1>7, <1>8, <1>9, <1>10 DEF OffsetInv

\* A commit goes no further than what was handled.
LEMMA OffsetStep ==
    ASSUME HasDeadLetterTopic, TypeInv, OffsetInv, [Next]_vars
    PROVE  OffsetInv'
  <1> USE DEF TypeInv, TypeOK
  <1>1. ASSUME NEW p \in Partitions, NEW m \in Messages, Produce(p, m)
        PROVE  OffsetInv'
    BY <1>1
    DEF Produce, consumerVars, groupVars, workerVars, outcomeVars, OffsetInv,
        CommittedHandled, FetchedHandled, EarlierHandled, CommittingHandled,
        ClosedOwnsNothing, HandledBelow, Handled, InHand
  <1>2. ASSUME NEW w \in Workers, NEW p \in Partitions,
               Join(p, w) \/ Rebalance(p, w)
        PROVE  OffsetInv'
    BY <1>2, AssignStep DEF Join, Rebalance
  <1>3. ASSUME NEW w \in Workers, FetchCanceled(w) \/ BackoffEnds(w)
        PROVE  OffsetInv'
    BY <1>3, HandlingStep
    DEF FetchCanceled, BackoffEnds, Goto, groupVars, outcomeVars, Handled,
        InHand
  <1>4. ASSUME NEW w \in Workers, NEW action \in ConsumeAction,
               HandlerReturns(w, action)
        PROVE  OffsetInv'
    BY <1>4, HandlingStep
    DEF HandlerReturns, ConsumeAction, Goto, groupVars, Handled, InHand
  <1>5. ASSUME NEW w \in Workers, PublishDeadLetter(w) \/ DeadLetterFails(w)
        PROVE  OffsetInv'
    BY <1>5, HandlingStep
    DEF PublishDeadLetter, DeadLetterFails, Goto, groupVars, Handled, InHand
  <1>6. ASSUME NEW w \in Workers, CommitFails(w) PROVE OffsetInv'
    BY <1>6, HandlingStep
    DEF CommitFails, Goto, groupVars, outcomeVars, Handled, InHand, OffsetInv,
        CommittingHandled
  <1>7. ASSUME NEW w \in Workers, Cancel(w) PROVE OffsetInv'
    BY <1>7, HandlingStep DEF Cancel, groupVars, outcomeVars, Handled, InHand
  <1>8. CASE UNCHANGED vars
    BY <1>8
    DEF vars, consumerVars, groupVars, workerVars, outcomeVars, OffsetInv,
        CommittedHandled, FetchedHandled, EarlierHandled, CommittingHandled,
        ClosedOwnsNothing, HandledBelow, Handled, InHand
  <1> QED
    BY <1>1, <1>2, <1>3, <1>4, <1>5, <1>6, <1>7, <1>8, FetchStep, CommitStep,
       LeaveStep
    DEF Next, Consume, Lifecycle, Handler, ConsumeAction

\* At least once, for every group: whatever fails, and whoever commits late,
\* no offset is committed past an event that was not handled.
THEOREM NoEventIsSkipped == Spec => []CommittedIsHandled
  <1>1. Init => ConsumerInv
    BY TypeInit, OffsetInit DEF ConsumerInv
  <1>2. ConsumerInv /\ [Next]_vars => ConsumerInv'
    BY TypeStep, OffsetStep DEF ConsumerInv
  <1>3. ConsumerInv => CommittedIsHandled
    <2> SUFFICES ASSUME ConsumerInv, HasDeadLetterTopic,
                        NEW p \in Partitions, NEW i \in 1..committed[p]
                 PROVE  <<p, i>> \in Handled
      BY DEF CommittedIsHandled
    <2>1. i \in Nat \ {0} /\ i <= committed[p]
      BY DEF ConsumerInv, TypeInv, TypeOK
    <2> QED
      BY <2>1 DEF ConsumerInv, OffsetInv, CommittedHandled, HandledBelow
  <1> QED
    BY <1>1, <1>2, <1>3, PTL DEF Spec
=============================================================================
