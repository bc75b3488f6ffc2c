---------------------------- MODULE KafkaConsumer ----------------------------
(***************************************************************************)
(* pkg/mq/kafka consumerService: the consume loop of Start, the retry and  *)
(* dead-letter loop of handleFetchedMessage, the offset commit and Stop,   *)
(* run by several processes (workers) of one consumer group.  The business *)
(* handler is open: the step that ends it takes the ConsumeAction its      *)
(* error is classified as, and a module that composes this one says when   *)
(* that step happens.                                                      *)
(*                                                                         *)
(* An event is named by its partition and its place in it, <<p, i>> with i *)
(* counted from 1; committed[p] counts the events of p the group has       *)
(* committed.  A failed FetchMessage, and a backoff that is followed by    *)
(* another fetch, change nothing and are left out.                         *)
(***************************************************************************)
EXTENDS Integers, Sequences, FiniteSets

CONSTANTS
    Messages,           \* what an event carries
    Poison,             \* messages the handler can never accept
    Partitions,
    Workers,            \* processes of the consumer group
    HasDeadLetterTopic, \* ConsumerConfig.DeadLetterTopic # ""
    MaxEvents,          \* bound on the events of a partition
    MaxFaults,          \* bound on the faults and stops of a behaviour
    NoWorker,           \* the partition is assigned to nobody
    NoEvent             \* the worker has no event in hand

ASSUME ConsumerAssumption ==
    /\ Poison \subseteq Messages
    /\ HasDeadLetterTopic \in BOOLEAN
    /\ MaxEvents \in Nat
    /\ MaxFaults \in Nat
    /\ NoWorker \notin Workers
    /\ NoEvent \notin Partitions \X (Nat \ {0})

VARIABLES
    log,         \* log[p]: the events of partition p, oldest first
    committed,   \* committed[p]: the group's committed offset
    owner,       \* owner[p]: the worker p is assigned to
    position,    \* position[p]: events the owner has fetched or skipped
    loop,        \* loop[w]: where the worker's loop is
    current,     \* current[w]: the event in hand
    canceled,    \* canceled[w]: s.ctx is done
    closed,      \* closed[w]: the reader and the dead-letter writer are closed
    acked,       \* history: events whose handler returned ConsumeAck
    deadLetters, \* events stored in the dead-letter topic
    faults       \* faults and stops so far

groupVars == <<committed, owner, position>>
workerVars == <<loop, current, canceled, closed>>
outcomeVars == <<acked, deadLetters>>
consumerVars == <<groupVars, workerVars, outcomeVars>>
vars == <<log, consumerVars, faults>>

ConsumeAction == {"ack", "retry", "deadletter"}

Loops == {"fetch", "handle", "backoff", "deadletter", "commit", "stopped"}

Events == Partitions \X (Nat \ {0})

Handled == acked \cup deadLetters

\* The worker holds an event that handleFetchedMessage has not returned from.
InHand(w) == loop[w] \in {"handle", "backoff", "deadletter", "commit"}

message(w) == log[current[w][1]][current[w][2]]

Goto(w, to) == loop' = [loop EXCEPT ![w] = to]

Fault == faults < MaxFaults /\ faults' = faults + 1

-----------------------------------------------------------------------------
(* Variants with one bug each, which show that a property of this module can *)
(* fail; the specification does not use them.                               *)

\* A reader that starts from the newest event (StartOffset -1).
AssignFromNewest(p, w) ==
    /\ ~closed[w]
    /\ owner' = [owner EXCEPT ![p] = w]
    /\ position' = [position EXCEPT ![p] = Len(log[p])]
    /\ UNCHANGED <<log, committed, workerVars, outcomeVars>>

\* ReadMessage instead of FetchMessage: the offset is committed on reading.
FetchCommits(w, p) ==
    /\ loop[w] = "fetch"
    /\ owner[p] = w
    /\ ~closed[w]
    /\ position[p] < Len(log[p])
    /\ position' = [position EXCEPT ![p] = @ + 1]
    /\ committed' = [committed EXCEPT ![p] = position[p] + 1]
    /\ current' = [current EXCEPT ![w] = <<p, position[p] + 1>>]
    /\ Goto(w, "handle")
    /\ UNCHANGED <<log, owner, canceled, closed, outcomeVars, faults>>

\* The offset of the event before the one that was fetched.
FetchOffByOne(w, p) ==
    /\ loop[w] = "fetch"
    /\ owner[p] = w
    /\ ~closed[w]
    /\ position[p] < Len(log[p])
    /\ position' = [position EXCEPT ![p] = @ + 1]
    /\ current' = [current EXCEPT ![w] = <<p, position[p]>>]
    /\ Goto(w, "handle")
    /\ UNCHANGED <<log, committed, owner, canceled, closed, outcomeVars, faults>>

\* A retry that does not look at the context.
BackoffIgnoresCancel(w) ==
    /\ loop[w] = "backoff"
    /\ Goto(w, "handle")
    /\ UNCHANGED <<log, groupVars, current, canceled, closed, outcomeVars, faults>>

-----------------------------------------------------------------------------
(* The environment: producers, and the group coordinator. *)

Produce(p, m) ==
    /\ Len(log[p]) < MaxEvents
    /\ log' = [log EXCEPT ![p] = Append(@, m)]
    /\ UNCHANGED <<consumerVars, faults>>

\* A rebalance gives p to w, which starts from the committed offset.  The
\* worker that had p may still be handling an event of p.
Assign(p, w) ==
    /\ ~closed[w]
    /\ owner' = [owner EXCEPT ![p] = w]
    /\ position' = [position EXCEPT ![p] = committed[p]]
    /\ UNCHANGED <<log, committed, workerVars, outcomeVars>>

\* The first assignment of a partition nobody has is no fault.
Join(p, w) == owner[p] = NoWorker /\ Assign(p, w) /\ UNCHANGED faults

Rebalance(p, w) == owner[p] # NoWorker /\ Assign(p, w) /\ Fault

-----------------------------------------------------------------------------
(* Start. *)

\* FetchMessage may return an event although the context is done already.
FetchMessage(w, p) ==
    /\ loop[w] = "fetch"
    /\ owner[p] = w
    /\ ~closed[w]
    /\ position[p] < Len(log[p])
    /\ position' = [position EXCEPT ![p] = @ + 1]
    /\ current' = [current EXCEPT ![w] = <<p, position[p] + 1>>]
    /\ Goto(w, "handle")
    /\ UNCHANGED <<log, committed, owner, canceled, closed, outcomeVars, faults>>

\* FetchMessage reports context.Canceled and Start returns.
FetchCanceled(w) ==
    /\ loop[w] = "fetch"
    /\ canceled[w]
    /\ Goto(w, "stopped")
    /\ UNCHANGED <<log, groupVars, current, canceled, closed, outcomeVars, faults>>

-----------------------------------------------------------------------------
(* handleFetchedMessage. *)

\* The handler returned and its error was classified.
HandlerReturns(w, action) ==
    /\ loop[w] = "handle"
    /\ Goto(w, CASE action = "ack" -> "commit"
                 [] action = "deadletter" -> "deadletter"
                 [] action = "retry" -> "backoff")
    /\ acked' = IF action = "ack" THEN acked \cup {current[w]} ELSE acked
    /\ UNCHANGED <<log, groupVars, current, canceled, closed, deadLetters>>

\* After the backoff of a retry the context is looked at: once it is done,
\* the event is given up and Start returns.
BackoffEnds(w) ==
    /\ loop[w] = "backoff"
    /\ Goto(w, IF canceled[w] THEN "stopped" ELSE "handle")
    /\ UNCHANGED <<log, groupVars, current, canceled, closed, outcomeVars, faults>>

\* publishDeadLetter; without a dead-letter topic the event is dropped.
PublishDeadLetter(w) ==
    /\ loop[w] = "deadletter"
    /\ HasDeadLetterTopic => ~canceled[w]
    /\ deadLetters' = IF HasDeadLetterTopic THEN deadLetters \cup {current[w]}
                                            ELSE deadLetters
    /\ Goto(w, "commit")
    /\ UNCHANGED <<log, groupVars, current, canceled, closed, acked, faults>>

\* The publication failed, always once the context is done, and the broker
\* may have stored the letter all the same.  The loop goes back to the
\* handler: this branch does not look at the context.
DeadLetterFails(w) ==
    /\ loop[w] = "deadletter"
    /\ HasDeadLetterTopic
    /\ IF canceled[w] THEN UNCHANGED faults ELSE Fault
    /\ deadLetters' \in {deadLetters, deadLetters \cup {current[w]}}
    /\ Goto(w, "handle")
    /\ UNCHANGED <<log, groupVars, current, canceled, closed, acked>>

\* CommitMessages stores the offset of this event, whatever is stored
\* already and whoever owns the partition by now.
CommitMessages(w) ==
    /\ loop[w] = "commit"
    /\ ~closed[w]
    /\ committed' = [committed EXCEPT ![current[w][1]] = current[w][2]]
    /\ Goto(w, "fetch")
    /\ UNCHANGED <<log, owner, position, current, canceled, closed,
                   outcomeVars, faults>>

\* The commit failed: Start logs it, backs off, and fetches the NEXT event.
CommitFails(w) ==
    /\ loop[w] = "commit"
    /\ IF closed[w] THEN UNCHANGED faults ELSE Fault
    /\ Goto(w, "fetch")
    /\ UNCHANGED <<log, groupVars, current, canceled, closed, outcomeVars>>

-----------------------------------------------------------------------------
(* Stop, crash, restart. *)

LeaveGroup(w) ==
    owner' = [p \in Partitions |-> IF owner[p] = w THEN NoWorker ELSE owner[p]]

\* Stop: a deployment stops a process finitely often.
Cancel(w) ==
    /\ ~canceled[w]
    /\ Fault
    /\ canceled' = [canceled EXCEPT ![w] = TRUE]
    /\ UNCHANGED <<log, groupVars, loop, current, closed, outcomeVars>>

CloseReader(w) ==
    /\ canceled[w]
    /\ ~closed[w]
    /\ closed' = [closed EXCEPT ![w] = TRUE]
    /\ LeaveGroup(w)
    /\ UNCHANGED <<log, committed, position, loop, current, canceled,
                   outcomeVars, faults>>

Crash(w) ==
    /\ loop[w] # "stopped"
    /\ Fault
    /\ Goto(w, "stopped")
    /\ canceled' = [canceled EXCEPT ![w] = TRUE]
    /\ closed' = [closed EXCEPT ![w] = TRUE]
    /\ LeaveGroup(w)
    /\ UNCHANGED <<log, committed, position, current, outcomeVars>>

Restart(w) ==
    /\ loop[w] = "stopped"
    /\ closed[w]
    /\ Goto(w, "fetch")
    /\ current' = [current EXCEPT ![w] = NoEvent]
    /\ canceled' = [canceled EXCEPT ![w] = FALSE]
    /\ closed' = [closed EXCEPT ![w] = FALSE]
    /\ UNCHANGED <<log, groupVars, outcomeVars, faults>>

-----------------------------------------------------------------------------

ConsumerInit ==
    /\ committed = [p \in Partitions |-> 0]
    /\ owner = [p \in Partitions |-> NoWorker]
    /\ position = [p \in Partitions |-> 0]
    /\ loop = [w \in Workers |-> "fetch"]
    /\ current = [w \in Workers |-> NoEvent]
    /\ canceled = [w \in Workers |-> FALSE]
    /\ closed = [w \in Workers |-> FALSE]
    /\ acked = {}
    /\ deadLetters = {}

Init ==
    /\ log = [p \in Partitions |-> <<>>]
    /\ ConsumerInit
    /\ faults = 0

\* What the consumer does by itself, the handler apart.
Consume(w) ==
    \/ \E p \in Partitions : FetchMessage(w, p)
    \/ FetchCanceled(w)
    \/ BackoffEnds(w)
    \/ PublishDeadLetter(w) \/ DeadLetterFails(w)
    \/ CommitMessages(w) \/ CommitFails(w)

Lifecycle(w) ==
    \/ \E p \in Partitions : Join(p, w) \/ Rebalance(p, w)
    \/ Crash(w) \/ Restart(w)

\* A handler of any kind; the poison messages it always rejects.
Handler(w) ==
    /\ loop[w] = "handle"
    /\ \E action \in IF message(w) \in Poison THEN {"deadletter"}
                                               ELSE ConsumeAction :
            HandlerReturns(w, action)
    /\ UNCHANGED faults

Next ==
    \/ \E p \in Partitions, m \in Messages : Produce(p, m)
    \/ \E w \in Workers :
        Consume(w) \/ Handler(w) \/ Lifecycle(w) \/ Cancel(w) \/ CloseReader(w)

Spec == Init /\ [][Next]_vars

\* The loop and Stop run on by themselves, the group coordinator assigns
\* every partition, a supervisor restarts a process, and a transient failure
\* of the handler does not last for ever while the process runs.
Fairness ==
    \A w \in Workers :
        /\ WF_vars(\E p \in Partitions : FetchMessage(w, p))
        /\ WF_vars(FetchCanceled(w))
        /\ WF_vars(BackoffEnds(w))
        /\ WF_vars(PublishDeadLetter(w) \/ DeadLetterFails(w))
        /\ WF_vars(CommitMessages(w) \/ CommitFails(w))
        /\ WF_vars(Handler(w))
        /\ SF_vars(Handler(w) /\ ~canceled[w] /\ loop'[w] = "commit")
        /\ WF_vars(CloseReader(w))
        /\ WF_vars(Restart(w))
        /\ \A p \in Partitions : WF_vars(Join(p, w))

FairSpec == Spec /\ Fairness

-----------------------------------------------------------------------------
(* Properties. *)

TypeOK ==
    /\ log \in [Partitions -> Seq(Messages)]
    /\ committed \in [Partitions -> Nat]
    /\ owner \in [Partitions -> Workers \cup {NoWorker}]
    /\ position \in [Partitions -> Nat]
    /\ loop \in [Workers -> Loops]
    /\ current \in [Workers -> Events \cup {NoEvent}]
    /\ canceled \in [Workers -> BOOLEAN]
    /\ closed \in [Workers -> BOOLEAN]
    /\ acked \subseteq Events
    /\ deadLetters \subseteq Events
    /\ faults \in 0..MaxFaults

\* At least once: every event below a committed offset was acknowledged by
\* the handler or stored in the dead-letter topic, through failed commits
\* (whose event the next commit covers), rebalances in the middle of an
\* event, late commits of a former owner, crashes and restarts.  Without a
\* dead-letter topic the code drops the rejected events (consumer.go:387-390).
CommittedIsHandled ==
    HasDeadLetterTopic =>
        \A p \in Partitions : \A i \in 1..committed[p] : <<p, i>> \in Handled

\* Once the context is cancelled Start returns, from the wait for an event, a
\* handler that fails again and again, a backoff, or a commit that fails on the
\* closed reader, unless the handler rejects the event in hand.
StopEndsRetries ==
    \A w \in Workers : canceled[w] ~> loop[w] \in {"stopped", "deadletter"}

\* consumer.go:343-348: handleFetchedMessage retries until the context is
\* cancelled, and Start (284-289) blocks until then.
StopEndsStart ==
    \A w \in Workers : canceled[w] ~> loop[w] = "stopped"

\* Every published event is handled in the end: the group never forgets one
\* and never waits for one that is behind it, unless every worker is in a stop
\* with an event in hand, which may not end (StopEndsStart).
EveryEventHandled ==
    \A p \in Partitions : \A i \in 1..MaxEvents :
        Len(log[p]) >= i ~> \/ <<p, i>> \in Handled
                            \/ \A w \in Workers : canceled[w] /\ InHand(w)
=============================================================================
