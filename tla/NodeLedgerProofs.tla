-------------------------- MODULE NodeLedgerProofs --------------------------
(***************************************************************************)
(* What holds of a SimNode under any driver, for all envelopes, queue      *)
(* sizes, budgets, backoffs and clocks.                                    *)
(***************************************************************************)
EXTENDS NodeLedger, TLAPS, FiniteSetTheorems

(* The anon8 values are naturals. *)
LEMMA AnonIdsAreNaturals == AnonIds \subseteq Nat
  BY EnvelopesAssumption DEF AnonIds, ZeroAnon, Envelope

(* An admissible envelope is translated into a queued event, whatever its   *)
(* author announced last (actors.py, the QueuedEvent of ble_ingest).        *)
LEMMA QueuedType ==
  ASSUME NEW env \in Envelopes, env.priority \in WirePriority, TypeOK
  PROVE  /\ Anon8(env) \in AnonIds
         /\ Queued(env) \in QueuedEvent
         /\ Queued(env).id = env.id
<1>1. env \in Envelope
  BY EnvelopesAssumption
<1>2. Anon8(env) \in AnonIds
  BY <1>1 DEF Anon8, AnonIds, TypeOK, Envelope
<1>3. Anon8(env) \in Nat
  BY <1>2, AnonIdsAreNaturals
<1> QED
  BY <1>1, <1>2, <1>3, NodeAssumption
     DEF Queued, QueuedAs, QueuedEvent, Envelope

(* Making room sheds at most one event, and one that the newcomer outranks  *)
(* (the eviction of ble_ingest).                                            *)
LEMMA RoomMade ==
  ASSUME NEW env, NEW kept \in RoomFor(env)
  PROVE  \/ kept = queue /\ ~(Cardinality(queue) >= max_queue_size)
         \/ \E w \in queue :
               /\ Cardinality(queue) >= max_queue_size
               /\ kept = queue \ {w}
               /\ w.priority > env.priority
               /\ \A e \in queue : e.priority <= w.priority
  BY DEF RoomFor, LeastSevere

(* What is counted are naturals. *)
LEMMA LossesAreCounts ==
  ASSUME TypeOK, [Next]_vars
  PROVE  losses' \in [Ids -> Nat]
<1>1. Kept(losses) \in [Ids -> Nat]
  BY DEF Kept, TypeOK
<1>2. ASSUME NEW best \in queue
      PROVE  [losses EXCEPT ![best.id] = @ + 1] \in [Ids -> Nat]
  BY DEF TypeOK, QueuedEvent
<1>3. \/ losses' = losses \/ losses' = Kept(losses)
      \/ \E best \in queue : losses' = [losses EXCEPT ![best.id] = @ + 1]
  BY DEF Next, BleIngest, Transmit, Receive, Restart, Tick, vars
<1> QED
  BY <1>1, <1>2, <1>3 DEF TypeOK

-----------------------------------------------------------------------------
(* The fields of a node keep their types. *)
THEOREM TypeCorrect == Spec => []TypeOK
<1>1. Init => TypeOK
  BY DEF Init, NodeInit, TypeOK, NoRetry, RetryState, AnonIds
<1>2. TypeOK /\ [Next]_vars => TypeOK'
  <2> SUFFICES ASSUME TypeOK, [Next]_vars
               PROVE  TypeOK'
    OBVIOUS
  <2> losses' \in [Ids -> Nat]
    BY LossesAreCounts
  <2>1. CASE BleIngest
    <3> PICK env \in Envelopes :
            \/ IngestAccepted(now, env)
            \/ IngestUntranslatable(now, env)
            \/ IngestRefused(now, env)
      BY <2>1 DEF BleIngest
    <3> UNCHANGED <<now, sent, lost>>
      BY <2>1 DEF BleIngest
    <3>1. CASE IngestAccepted(now, env)
      <4>1. env.priority \in WirePriority /\ env.id \in Ids
        BY <3>1, EnvelopesAssumption DEF IngestAccepted, Admissible, Envelope
      <4>2. Queued(env) \in QueuedEvent
        BY <4>1, QueuedType
      <4>3. PICK kept \in RoomFor(env) :
                /\ queue' = kept \cup {Queued(env)}
                /\ dropped_events' = dropped_events \cup (queue \ kept)
        BY <3>1 DEF IngestAccepted
      <4>4. kept \subseteq queue
        BY RoomMade
      <4>5. queue' \in SUBSET QueuedEvent /\ dropped_events' \in SUBSET QueuedEvent
        BY <4>2, <4>3, <4>4 DEF TypeOK
      <4>6. anon_by_author' \in [Authors -> AnonIds]
        BY <3>1 DEF IngestAccepted, AnonIds, TypeOK
      <4> QED
        BY <3>1, <4>1, <4>5, <4>6 DEF IngestAccepted, TypeOK
    <3>2. CASE IngestUntranslatable(now, env)
      <4>1. PICK kept \in RoomFor(env) :
                /\ queue' = kept
                /\ dropped_events' = dropped_events \cup (queue \ kept)
        BY <3>2 DEF IngestUntranslatable
      <4>2. kept \subseteq queue
        BY RoomMade
      <4> QED
        BY <3>2, <4>1, <4>2 DEF IngestUntranslatable, TypeOK
    <3>3. CASE IngestRefused(now, env)
      BY <3>3 DEF IngestRefused, nodeVars, TypeOK
    <3> QED
      BY <3>1, <3>2, <3>3
  <2>2. CASE Transmit
    <3>1. CASE TransmitIdle(now) /\ UNCHANGED <<now, sent, lost>>
      BY <3>1 DEF TransmitIdle, nodeVars, TypeOK
    <3>2. CASE TransmitGivesUp(now) /\ UNCHANGED <<now, sent, lost>>
      BY <3>2 DEF TransmitGivesUp, TypeOK
    <3>3. ASSUME NEW best \in queue, TransmitSent(now, best),
                 sent' = sent \cup {best.id}, UNCHANGED <<now, lost>>
          PROVE  TypeOK'
      BY <3>3 DEF TransmitSent, Attempts, TypeOK, QueuedEvent
    <3>4. ASSUME NEW best \in queue, TransmitBusy(now, best),
                 UNCHANGED <<now, sent, lost>>
          PROVE  TypeOK'
      <4>1. PICK t \in Backoff(now) :
                retry' = [retry EXCEPT ![best.id].next_attempt_ms = t]
        BY <3>4 DEF TransmitBusy
      <4>2. t \in Nat
        BY NodeAssumption DEF Backoff, TypeOK
      <4>3. retry' \in [Ids -> RetryState]
        BY <4>1, <4>2 DEF TypeOK, RetryState, QueuedEvent
      <4> QED
        BY <3>4, <4>3 DEF TransmitBusy, Attempts, TypeOK
    <3>5. ASSUME NEW best \in queue, TransmitLost(now, best),
                 UNCHANGED <<now, sent, lost>>
          PROVE  TypeOK'
      <4>1. PICK t \in Backoff(now) :
                retry' = [retry EXCEPT ![best.id] =
                            [loss_attempts |-> @.loss_attempts + 1,
                             next_attempt_ms |-> t]]
        BY <3>5 DEF TransmitLost
      <4>2. t \in Nat
        BY NodeAssumption DEF Backoff, TypeOK
      <4>3. retry' \in [Ids -> RetryState]
        BY <4>1, <4>2 DEF TypeOK, RetryState, QueuedEvent
      <4> QED
        BY <3>5, <4>3 DEF TransmitLost, Attempts, TypeOK
    <3> QED
      BY <2>2, <3>1, <3>2, <3>3, <3>4, <3>5 DEF Transmit
  <2>3. CASE Receive
    BY <2>3, LedgerAssumption
       DEF Receive, ReceiveAccepted, ReceiveIgnored, nodeVars, TypeOK
  <2>4. CASE Restart
    BY <2>4 DEF Restart, Reboot, TypeOK, NoRetry, RetryState, IdsOf, QueuedEvent
  <2>5. CASE Tick
    BY <2>5, LedgerAssumption DEF Tick, nodeVars, TypeOK
  <2>6. CASE UNCHANGED vars
    BY <2>6 DEF vars, nodeVars, TypeOK
  <2> QED
    BY <2>1, <2>2, <2>3, <2>4, <2>5, <2>6 DEF Next
<1> QED
  BY <1>1, <1>2, PTL DEF Spec

-----------------------------------------------------------------------------
(* An id outside the dedupe ring has no trace in the queue or in the retry  *)
(* table (FreshWhenUnknown is inductive with the types).                    *)
THEOREM FreshBudgets == Spec => []FreshWhenUnknown
<1>1. Init => FreshWhenUnknown
  BY DEF Init, NodeInit, FreshWhenUnknown, IdsOf
<1>2. TypeOK /\ FreshWhenUnknown /\ [Next]_vars => FreshWhenUnknown'
  <2> SUFFICES ASSUME TypeOK, FreshWhenUnknown, [Next]_vars
               PROVE  FreshWhenUnknown'
    OBVIOUS
  <2>1. CASE BleIngest
    <3> PICK env \in Envelopes :
            \/ IngestAccepted(now, env)
            \/ IngestUntranslatable(now, env)
            \/ IngestRefused(now, env)
      BY <2>1 DEF BleIngest
    <3>1. CASE IngestAccepted(now, env)
      <4>1. PICK kept \in RoomFor(env) : queue' = kept \cup {Queued(env)}
        BY <3>1 DEF IngestAccepted
      <4>2. kept \subseteq queue /\ Queued(env).id = env.id
        BY RoomMade DEF Queued, QueuedAs
      <4> QED
        BY <3>1, <4>1, <4>2 DEF IngestAccepted, FreshWhenUnknown, IdsOf
    <3>2. CASE IngestUntranslatable(now, env)
      <4>1. queue' \subseteq queue
        BY <3>2, RoomMade DEF IngestUntranslatable
      <4> QED
        BY <3>2, <4>1 DEF IngestUntranslatable, FreshWhenUnknown, IdsOf
    <3>3. CASE IngestRefused(now, env)
      BY <3>3 DEF IngestRefused, nodeVars, FreshWhenUnknown, IdsOf
    <3> QED
      BY <3>1, <3>2, <3>3
  <2>2. CASE Transmit
    \* Whatever the outcome, only the entry of a queued, hence known, id changes.
    <3>1. \/ UNCHANGED retry
          \/ \E best \in queue : \E rs : retry' = [retry EXCEPT ![best.id] = rs]
      BY <2>2 DEF Transmit, TransmitIdle, TransmitGivesUp, TransmitSent,
                  TransmitBusy, TransmitLost, nodeVars
    <3>2. queue' \subseteq queue /\ seen_ble' = seen_ble
      BY <2>2 DEF Transmit, TransmitIdle, TransmitGivesUp, TransmitSent,
                  TransmitBusy, TransmitLost, Attempts, nodeVars
    <3>3. \A best \in queue : best.id \in seen_ble
      BY DEF FreshWhenUnknown, IdsOf, TypeOK, QueuedEvent
    <3> QED
      BY <3>1, <3>2, <3>3 DEF FreshWhenUnknown, IdsOf, TypeOK
  <2>3. CASE Receive
    BY <2>3 DEF Receive, ReceiveAccepted, ReceiveIgnored, nodeVars,
                FreshWhenUnknown, IdsOf
  <2>4. CASE Restart
    BY <2>4 DEF Restart, Reboot, FreshWhenUnknown, IdsOf
  <2>5. CASE Tick
    BY <2>5 DEF Tick, nodeVars, FreshWhenUnknown, IdsOf
  <2>6. CASE UNCHANGED vars
    BY <2>6 DEF vars, nodeVars, FreshWhenUnknown, IdsOf
  <2> QED
    BY <2>1, <2>2, <2>3, <2>4, <2>5, <2>6 DEF Next
<1> QED
  BY <1>1, <1>2, TypeCorrect, PTL DEF Spec

(* No two queued events share an id: a fresh id cannot be queued already.   *)
THEOREM UniqueIds == Spec => []QueueIdsUnique
<1>1. Init => QueueIdsUnique
  BY DEF Init, NodeInit, QueueIdsUnique
<1>2. TypeOK /\ FreshWhenUnknown /\ QueueIdsUnique /\ [Next]_vars
        => QueueIdsUnique'
  <2> SUFFICES ASSUME TypeOK, FreshWhenUnknown, QueueIdsUnique, [Next]_vars
               PROVE  QueueIdsUnique'
    OBVIOUS
  <2>1. CASE queue' \subseteq queue
    BY <2>1 DEF QueueIdsUnique
  <2>2. ASSUME NEW env \in Envelopes, IngestAccepted(now, env)
        PROVE  QueueIdsUnique'
    <3>1. PICK kept \in RoomFor(env) : queue' = kept \cup {Queued(env)}
      BY <2>2 DEF IngestAccepted
    <3>2. kept \subseteq queue /\ Queued(env).id = env.id
      BY RoomMade DEF Queued, QueuedAs
    <3>3. env.id \in Ids \ seen_ble
      BY <2>2, EnvelopesAssumption DEF IngestAccepted, Admissible, Envelope
    <3>4. \A e \in kept : e.id # env.id
      BY <3>2, <3>3 DEF FreshWhenUnknown, IdsOf
    <3> QED
      BY <3>1, <3>2, <3>4 DEF QueueIdsUnique
  <2>3. \/ queue' \subseteq queue
        \/ \E env \in Envelopes : IngestAccepted(now, env)
    <3>1. CASE BleIngest
      BY <3>1, RoomMade DEF BleIngest, IngestUntranslatable, IngestRefused, nodeVars
    <3>2. CASE ~BleIngest
      BY <3>2 DEF Next, Transmit, TransmitIdle, TransmitGivesUp, TransmitSent,
                  TransmitBusy, TransmitLost, Receive, ReceiveAccepted,
                  ReceiveIgnored, Restart, Reboot, Tick, vars, nodeVars
    <3> QED
      BY <3>1, <3>2
  <2> QED
    BY <2>1, <2>2, <2>3
<1> QED
  BY <1>1, <1>2, TypeCorrect, FreshBudgets, PTL DEF Spec

(* What the outcome of one call to transmit_next does to the retry table:   *)
(* it is left alone, or the entry of the front event is rescheduled, with   *)
(* a loss counted only while the budget lasts.                              *)
LEMMA TransmitRetry ==
  ASSUME TypeOK, Transmit
  PROVE  /\ queue' \subseteq queue
         /\ now' = now
         /\ \/ retry' = retry
            \/ \E best \in queue, t \in Backoff(now), n \in Nat :
                  /\ retry' = [retry EXCEPT ![best.id] =
                                [loss_attempts |-> n, next_attempt_ms |-> t]]
                  /\ \/ n = retry[best.id].loss_attempts
                     \/ /\ n = retry[best.id].loss_attempts + 1
                        /\ ~Exhausted(best)
<1>1. CASE \/ TransmitIdle(now) \/ TransmitGivesUp(now)
           \/ \E best \in queue : TransmitSent(now, best)
  BY <1>1, Transmit DEF Transmit, TransmitIdle, TransmitGivesUp, TransmitSent, nodeVars
<1>2. ASSUME NEW best \in queue, TransmitBusy(now, best)
      PROVE  \E t \in Backoff(now) :
                retry' = [retry EXCEPT ![best.id] =
                            [loss_attempts |-> retry[best.id].loss_attempts,
                             next_attempt_ms |-> t]]
  <2>1. PICK t \in Backoff(now) :
           retry' = [retry EXCEPT ![best.id].next_attempt_ms = t]
    BY <1>2 DEF TransmitBusy
  <2>2. retry[best.id] \in RetryState
    BY DEF TypeOK, QueuedEvent
  <2>3. [retry[best.id] EXCEPT !.next_attempt_ms = t]
          = [loss_attempts |-> retry[best.id].loss_attempts,
             next_attempt_ms |-> t]
    BY <2>2 DEF RetryState
  <2> QED
    BY <2>1, <2>3
<1>3. ASSUME NEW best \in queue, TransmitLost(now, best)
      PROVE  \E t \in Backoff(now) :
                retry' = [retry EXCEPT ![best.id] =
                            [loss_attempts |-> retry[best.id].loss_attempts + 1,
                             next_attempt_ms |-> t]]
  BY <1>3 DEF TransmitLost
<1>4. \A best \in queue : /\ retry[best.id].loss_attempts \in Nat
                          /\ retry[best.id].loss_attempts + 1 \in Nat
  BY DEF TypeOK, RetryState, QueuedEvent
<1>5. now' = now
  BY Transmit DEF Transmit
<1>6. CASE \E best \in queue : TransmitBusy(now, best)
  BY <1>2, <1>4, <1>5, <1>6 DEF TransmitBusy
<1>7. CASE \E best \in queue : TransmitLost(now, best)
  BY <1>3, <1>4, <1>5, <1>7 DEF TransmitLost, Attempts
<1> QED
  BY <1>1, <1>6, <1>7, Transmit DEF Transmit

(* The other calls leave the retry table alone or, at a reboot, clear it.   *)
LEMMA OtherRetry ==
  ASSUME [Next]_vars, ~Transmit
  PROVE  retry' = retry \/ retry' = [i \in Ids |-> NoRetry]
  BY DEF Next, BleIngest, IngestAccepted, IngestUntranslatable, IngestRefused,
         Receive, ReceiveAccepted, ReceiveIgnored, Restart, Reboot, Tick, vars,
         nodeVars

(* No backoff reaches further than one backoff with its jitter from now.    *)
THEOREM StallsAreBounded == Spec => []StallBounded
<1>1. Init => StallBounded
  BY NodeAssumption DEF Init, NodeInit, StallBounded, NoRetry
<1>2. TypeOK /\ StallBounded /\ [Next]_vars => StallBounded'
  <2> SUFFICES ASSUME TypeOK, StallBounded, [Next]_vars
               PROVE  StallBounded'
    OBVIOUS
  <2>1. CASE Transmit
    <3>1. CASE retry' = retry
      BY <2>1, <3>1, TransmitRetry DEF StallBounded
    <3>2. ASSUME NEW best \in queue, NEW t \in Backoff(now), NEW n \in Nat,
                 retry' = [retry EXCEPT ![best.id] =
                             [loss_attempts |-> n, next_attempt_ms |-> t]]
          PROVE  StallBounded'
      <4>1. t <= now + RETRY_BACKOFF_MS + RETRY_JITTER_MS
        BY NodeAssumption DEF Backoff, TypeOK
      <4>2. now' = now
        BY <2>1, TransmitRetry
      <4> QED
        BY <3>2, <4>1, <4>2 DEF StallBounded, TypeOK
    <3> QED
      BY <2>1, <3>1, <3>2, TransmitRetry
  <2>2. CASE ~Transmit
    <3>1. now' \in Nat /\ now <= now'
      BY <2>2, LedgerAssumption
         DEF Next, BleIngest, Receive, Restart, Tick, vars, TypeOK
    <3>2. \A i \in Ids : /\ retry[i].next_attempt_ms \in Nat
                         /\ retry'[i].next_attempt_ms
                              \in {0, retry[i].next_attempt_ms}
      BY <2>2, OtherRetry DEF TypeOK, RetryState, NoRetry
    <3> QED
      BY <3>1, <3>2, NodeAssumption DEF StallBounded, TypeOK
  <2> QED
    BY <2>1, <2>2
<1> QED
  BY <1>1, <1>2, TypeCorrect, PTL DEF Spec

(* A queued event has never lost more attempts than its own budget allows:  *)
(* the table is kept per id, an id names one queued event, and a fresh one  *)
(* starts at zero.                                                          *)
THEOREM BudgetsHold == Spec => []WithinBudget
<1>1. Init => WithinBudget
  BY DEF Init, NodeInit, WithinBudget
<1>2. /\ TypeOK /\ FreshWhenUnknown /\ QueueIdsUnique /\ WithinBudget
      /\ [Next]_vars
      => WithinBudget'
  <2> SUFFICES ASSUME TypeOK, FreshWhenUnknown, QueueIdsUnique, WithinBudget,
                      [Next]_vars
               PROVE  WithinBudget'
    OBVIOUS
  <2>0. \A e \in queue : /\ Budget(e.priority) \in Nat
                         /\ retry[e.id].loss_attempts \in Nat
    BY NodeAssumption DEF Budget, TypeOK, RetryState, QueuedEvent
  <2>1. CASE Transmit
    <3>1. CASE retry' = retry
      BY <2>1, <3>1, TransmitRetry DEF WithinBudget, Budget
    <3>2. ASSUME NEW best \in queue, NEW t \in Backoff(now), NEW n \in Nat,
                 retry' = [retry EXCEPT ![best.id] =
                             [loss_attempts |-> n, next_attempt_ms |-> t]],
                 \/ n = retry[best.id].loss_attempts
                 \/ n = retry[best.id].loss_attempts + 1 /\ ~Exhausted(best)
          PROVE  WithinBudget'
      <4>1. n <= Budget(best.priority)
        BY <2>0, <3>2 DEF WithinBudget, Exhausted
      <4>2. \A e \in queue : e.id \in Ids /\ (e.id = best.id => e = best)
        BY DEF QueueIdsUnique, TypeOK, QueuedEvent
      <4>3. \A e \in queue : retry'[e.id].loss_attempts <= Budget(e.priority)
        BY <3>2, <4>1, <4>2 DEF WithinBudget, TypeOK
      <4> QED
        BY <2>1, <4>3, TransmitRetry DEF WithinBudget, Budget
    <3> QED
      BY <2>1, <3>1, <3>2, TransmitRetry
  <2>2. ASSUME NEW env \in Envelopes, IngestAccepted(now, env)
        PROVE  WithinBudget'
    <3>1. PICK kept \in RoomFor(env) : queue' = kept \cup {Queued(env)}
      BY <2>2 DEF IngestAccepted
    <3>2. kept \subseteq queue /\ Queued(env).id = env.id
      BY RoomMade DEF Queued, QueuedAs
    <3>3. retry[env.id] = NoRetry /\ retry' = retry
      BY <2>2, EnvelopesAssumption
         DEF IngestAccepted, Admissible, FreshWhenUnknown, Envelope
    <3>4. 0 <= Budget(Queued(env).priority)
      BY NodeAssumption DEF Budget
    <3> QED
      BY <3>1, <3>2, <3>3, <3>4 DEF WithinBudget, Budget, NoRetry
  <2>3. CASE ~Transmit /\ ~\E env \in Envelopes : IngestAccepted(now, env)
    <3>1. queue' \subseteq queue
      BY <2>3, RoomMade
         DEF Next, BleIngest, IngestUntranslatable, IngestRefused, Receive,
             ReceiveAccepted, ReceiveIgnored, Restart, Reboot, Tick, vars, nodeVars
    <3>2. \A e \in queue : retry'[e.id].loss_attempts
                              \in {0, retry[e.id].loss_attempts}
      BY <2>3, OtherRetry DEF NoRetry, TypeOK, QueuedEvent
    <3> QED
      BY <2>0, <3>1, <3>2 DEF WithinBudget, Budget
  <2> QED
    BY <2>1, <2>2, <2>3
<1> QED
  BY <1>1, <1>2, TypeCorrect, FreshBudgets, UniqueIds, PTL DEF Spec

(* The history of the channel's answers and the retry table agree on what   *)
(* is queued.                                                               *)
CountsAgree ==
  \A i \in Ids :
     losses[i] = IF i \in IdsOf(queue) THEN retry[i].loss_attempts ELSE 0

LEMMA StepKeepsCounts ==
  ASSUME TypeOK, FreshWhenUnknown, CountsAgree, [Next]_vars
  PROVE  CountsAgree'
<1>1. CASE queue' \subseteq queue /\ retry' = retry /\ losses' = Kept(losses)
  BY <1>1 DEF CountsAgree, Kept, IdsOf
<1>2. ASSUME NEW env \in Envelopes, IngestAccepted(now, env), losses' = Kept(losses)
      PROVE  CountsAgree'
  <2>1. /\ IdsOf(queue') \subseteq IdsOf(queue) \cup {env.id}
        /\ retry' = retry
    BY <1>2, RoomMade DEF IngestAccepted, IdsOf, Queued, QueuedAs
  <2>2. env.id \in Ids /\ env.id \notin IdsOf(queue) /\ retry[env.id] = NoRetry
    BY <1>2, EnvelopesAssumption
       DEF IngestAccepted, Admissible, FreshWhenUnknown, Envelope
  <2> QED
    BY <1>2, <2>1, <2>2 DEF CountsAgree, Kept, NoRetry
<1>3. ASSUME NEW best \in queue, TransmitBusy(now, best), losses' = losses
      PROVE  CountsAgree'
  <2>1. PICK t \in Backoff(now) : retry' = [retry EXCEPT ![best.id].next_attempt_ms = t]
    BY <1>3 DEF TransmitBusy
  <2>2. \A i \in Ids : retry'[i].loss_attempts = retry[i].loss_attempts
    BY <2>1 DEF TypeOK, RetryState
  <2> QED
    BY <1>3, <2>2 DEF TransmitBusy, CountsAgree
<1>4. ASSUME NEW best \in queue, TransmitLost(now, best),
             losses' = [losses EXCEPT ![best.id] = @ + 1]
      PROVE  CountsAgree'
  <2>1. PICK t \in Backoff(now) :
           retry' = [retry EXCEPT ![best.id] = [loss_attempts |-> @.loss_attempts + 1,
                                                next_attempt_ms |-> t]]
    BY <1>4 DEF TransmitLost
  <2>2. best.id \in Ids /\ best.id \in IdsOf(queue)
    BY DEF TypeOK, QueuedEvent, IdsOf
  <2>3. \A i \in Ids :
           retry'[i].loss_attempts = retry[i].loss_attempts + (IF i = best.id THEN 1 ELSE 0)
    BY <2>1, <2>2 DEF TypeOK, RetryState
  <2>4. \A i \in Ids : losses'[i] = losses[i] + (IF i = best.id THEN 1 ELSE 0)
    BY <1>4, <2>2 DEF TypeOK
  <2> QED
    BY <1>4, <2>2, <2>3, <2>4 DEF TransmitLost, CountsAgree
<1>5. CASE Transmit
  <2>1. CASE /\ losses' = Kept(losses)
             /\ \/ TransmitIdle(now) \/ TransmitGivesUp(now)
                \/ \E best \in queue : TransmitSent(now, best)
    <3>1. queue' \subseteq queue /\ retry' = retry
      BY <2>1 DEF TransmitIdle, TransmitGivesUp, TransmitSent, nodeVars
    <3> QED
      BY <1>1, <2>1, <3>1
  <2> QED
    BY <1>3, <1>4, <1>5, <2>1 DEF Transmit
<1>6. CASE Restart
  BY <1>6 DEF Restart, Reboot, CountsAgree, Kept, IdsOf
<1>7. CASE BleIngest
  <2>1. CASE \E env \in Envelopes : IngestAccepted(now, env)
    BY <1>2, <1>7, <2>1 DEF BleIngest
  <2>2. CASE \E env \in Envelopes : \/ IngestUntranslatable(now, env)
                                    \/ IngestRefused(now, env)
    BY <1>1, <1>7, <2>2, RoomMade
       DEF BleIngest, IngestUntranslatable, IngestRefused, nodeVars
  <2> QED
    BY <1>7, <2>1, <2>2 DEF BleIngest
<1>8. CASE Receive \/ Tick \/ UNCHANGED vars
  BY <1>8 DEF Receive, ReceiveAccepted, ReceiveIgnored, Tick, vars, nodeVars, CountsAgree
<1> QED
  BY <1>5, <1>6, <1>7, <1>8 DEF Next

(* Giving up takes the whole budget and no more: the check after the pop    *)
(* bounds the losses from below, BudgetsHold from above.                    *)
THEOREM GivesUpOnlyWhenSpent == Spec => GivesUpInTime
<1>1. Init => CountsAgree
  BY DEF Init, NodeInit, CountsAgree, NoRetry
<1>2. TypeOK /\ FreshWhenUnknown /\ CountsAgree /\ [Next]_vars => CountsAgree'
  BY StepKeepsCounts
<1>3. TypeOK /\ CountsAgree /\ WithinBudget
        => [TransmitGivesUp(now) =>
              \A e \in queue \ queue' : losses[e.id] = Budget(e.priority)]_vars
  <2> SUFFICES ASSUME TypeOK, CountsAgree, WithinBudget, TransmitGivesUp(now),
                      NEW e \in queue, e \notin queue'
               PROVE  losses[e.id] = Budget(e.priority)
    OBVIOUS
  <2>1. Exhausted(e)
    BY DEF TransmitGivesUp
  <2>2. e.id \in Ids /\ e.id \in IdsOf(queue)
    BY DEF TypeOK, QueuedEvent, IdsOf
  <2>3. losses[e.id] = retry[e.id].loss_attempts
    BY <2>2 DEF CountsAgree
  <2>4. retry[e.id].loss_attempts \in Nat /\ Budget(e.priority) \in Nat
    BY <2>2, NodeAssumption DEF TypeOK, RetryState, Budget
  <2> QED
    BY <2>1, <2>3, <2>4 DEF Exhausted, WithinBudget
<1> QED
  BY <1>1, <1>2, <1>3, TypeCorrect, FreshBudgets, BudgetsHold, PTL DEF Spec, GivesUpInTime

(* Making room leaves space for one event: the queue that is kept is finite *)
(* and shorter than max_queue_size.                                         *)
LEMMA RoomForOne ==
  ASSUME QueueBounded, NEW env, NEW kept \in RoomFor(env)
  PROVE  /\ IsFiniteSet(kept)
         /\ Cardinality(kept) + 1 <= max_queue_size
         /\ Cardinality(kept) \in Nat
<1>1. IsFiniteSet(queue) /\ Cardinality(queue) \in Nat
  BY FS_CardinalityType DEF QueueBounded
<1>2. CASE kept = queue /\ ~(Cardinality(queue) >= max_queue_size)
  BY <1>1, <1>2, NodeAssumption
<1>3. CASE \E w \in queue : kept = queue \ {w}
  <2> PICK w \in queue : kept = queue \ {w}
    BY <1>3
  <2>1. IsFiniteSet(kept) /\ Cardinality(kept) = Cardinality(queue) - 1
    BY <1>1, FS_RemoveElement
  <2>2. Cardinality(kept) \in Nat
    BY <2>1, FS_CardinalityType
  <2> QED
    BY <1>1, <2>1, <2>2, NodeAssumption DEF QueueBounded
<1> QED
  BY <1>2, <1>3, RoomMade

(* The queue never outgrows max_queue_size. *)
THEOREM QueueStaysBounded == Spec => []QueueBounded
<1>1. Init => QueueBounded
  BY FS_EmptySet, NodeAssumption DEF Init, NodeInit, QueueBounded
<1>2. QueueBounded /\ [Next]_vars => QueueBounded'
  <2> SUFFICES ASSUME QueueBounded, [Next]_vars
               PROVE  QueueBounded'
    OBVIOUS
  <2>1. ASSUME NEW env \in Envelopes, IngestAccepted(now, env)
        PROVE  QueueBounded'
    <3>1. PICK kept \in RoomFor(env) : queue' = kept \cup {Queued(env)}
      BY <2>1 DEF IngestAccepted
    <3>2. IsFiniteSet(kept) /\ Cardinality(kept) + 1 <= max_queue_size
          /\ Cardinality(kept) \in Nat
      BY RoomForOne
    <3>3. /\ IsFiniteSet(queue')
          /\ Cardinality(queue') \in {Cardinality(kept), Cardinality(kept) + 1}
      BY <3>1, <3>2, FS_AddElement
    <3> QED
      BY <3>2, <3>3, NodeAssumption DEF QueueBounded
  <2>2. CASE queue' \subseteq queue
    <3>1. /\ IsFiniteSet(queue') /\ Cardinality(queue') <= Cardinality(queue)
          /\ Cardinality(queue') \in Nat /\ Cardinality(queue) \in Nat
      BY <2>2, FS_Subset, FS_CardinalityType DEF QueueBounded
    <3> QED
      BY <3>1, NodeAssumption DEF QueueBounded
  <2>3. \/ queue' \subseteq queue
        \/ \E env \in Envelopes : IngestAccepted(now, env)
    <3>1. CASE BleIngest
      BY <3>1, RoomMade DEF BleIngest, IngestUntranslatable, IngestRefused, nodeVars
    <3>2. CASE ~BleIngest
      BY <3>2 DEF Next, Transmit, TransmitIdle, TransmitGivesUp, TransmitSent,
                  TransmitBusy, TransmitLost, Receive, ReceiveAccepted,
                  ReceiveIgnored, Restart, Reboot, Tick, vars, nodeVars
    <3> QED
      BY <3>1, <3>2
  <2> QED
    BY <2>1, <2>2, <2>3
<1> QED
  BY <1>1, <1>2, PTL DEF Spec

(* Every known id is accounted for: queued, sent, dropped or lost.          *)
THEOREM NothingIsSilentlyLost == Spec => []NoSilentLoss
<1>1. Init => NoSilentLoss
  BY DEF Init, NodeInit, NoSilentLoss
<1>2. NoSilentLoss /\ [Next]_vars => NoSilentLoss'
  <2> SUFFICES ASSUME NoSilentLoss, [Next]_vars
               PROVE  NoSilentLoss'
    OBVIOUS
  <2>1. CASE BleIngest
    <3> PICK env \in Envelopes :
            \/ IngestAccepted(now, env)
            \/ IngestUntranslatable(now, env)
            \/ IngestRefused(now, env)
      BY <2>1 DEF BleIngest
    <3> UNCHANGED <<sent, lost>>
      BY <2>1 DEF BleIngest
    <3>1. CASE IngestAccepted(now, env)
      <4>1. PICK kept \in RoomFor(env) :
                /\ queue' = kept \cup {Queued(env)}
                /\ dropped_events' = dropped_events \cup (queue \ kept)
        BY <3>1 DEF IngestAccepted
      <4>2. Queued(env).id = env.id
        BY DEF Queued, QueuedAs
      <4> QED
        BY <3>1, <4>1, <4>2 DEF IngestAccepted, NoSilentLoss, IdsOf
    <3>2. CASE IngestUntranslatable(now, env)
      BY <3>2 DEF IngestUntranslatable, NoSilentLoss, IdsOf
    <3>3. CASE IngestRefused(now, env)
      BY <3>3 DEF IngestRefused, nodeVars, NoSilentLoss
    <3> QED
      BY <3>1, <3>2, <3>3
  <2>2. CASE Transmit
    <3>1. seen_ble' = seen_ble /\ lost' = lost
      BY <2>2 DEF Transmit, TransmitIdle, TransmitGivesUp, TransmitSent,
                  TransmitBusy, TransmitLost, Attempts, nodeVars
    <3>2. \/ /\ queue' \cup dropped_events' = queue \cup dropped_events
             /\ sent' = sent
          \/ \E best \in queue : /\ queue' = queue \ {best}
                                 /\ sent' = sent \cup {best.id}
                                 /\ dropped_events' = dropped_events
      BY <2>2 DEF Transmit, TransmitIdle, TransmitGivesUp, TransmitSent,
                  TransmitBusy, TransmitLost, Attempts, nodeVars
    <3> QED
      BY <3>1, <3>2 DEF NoSilentLoss, IdsOf
  <2>3. CASE Receive
    BY <2>3 DEF Receive, ReceiveAccepted, ReceiveIgnored, nodeVars, NoSilentLoss
  <2>4. CASE Restart
    BY <2>4 DEF Restart, Reboot, NoSilentLoss, IdsOf
  <2>5. CASE Tick
    BY <2>5 DEF Tick, nodeVars, NoSilentLoss
  <2>6. CASE UNCHANGED vars
    BY <2>6 DEF vars, nodeVars, NoSilentLoss
  <2> QED
    BY <2>1, <2>2, <2>3, <2>4, <2>5, <2>6 DEF Next
<1> QED
  BY <1>1, <1>2, PTL DEF Spec

(* What left the queue does not come back while its id is remembered.       *)
THEOREM NothingIsResurrected == Spec => NoResurrection
<1>1. [Next]_vars
        => [\A i \in seen_ble : i \in IdsOf(queue') => i \in IdsOf(queue)]_vars
  <2> SUFFICES ASSUME Next, NEW i \in seen_ble, i \in IdsOf(queue')
               PROVE  i \in IdsOf(queue)
    OBVIOUS
  <2>1. CASE queue' \subseteq queue
    BY <2>1 DEF IdsOf
  <2>2. ASSUME NEW env \in Envelopes, IngestAccepted(now, env)
        PROVE  i \in IdsOf(queue)
    <3>1. PICK kept \in RoomFor(env) : queue' = kept \cup {Queued(env)}
      BY <2>2 DEF IngestAccepted
    <3>2. kept \subseteq queue /\ Queued(env).id # i
      BY <2>2, RoomMade DEF Queued, QueuedAs, IngestAccepted, Admissible
    <3> QED
      BY <3>1, <3>2 DEF IdsOf
  <2>3. \/ queue' \subseteq queue
        \/ \E env \in Envelopes : IngestAccepted(now, env)
    <3>1. CASE BleIngest
      BY <3>1, RoomMade DEF BleIngest, IngestUntranslatable, IngestRefused, nodeVars
    <3>2. CASE ~BleIngest
      BY <3>2 DEF Next, Transmit, TransmitIdle, TransmitGivesUp, TransmitSent,
                  TransmitBusy, TransmitLost, Receive, ReceiveAccepted,
                  ReceiveIgnored, Restart, Reboot, Tick, nodeVars
    <3> QED
      BY <3>1, <3>2
  <2> QED
    BY <2>1, <2>2, <2>3
<1> QED
  BY <1>1, PTL DEF Spec, NoResurrection
-----------------------------------------------------------------------------
(* What the node remembers of an author is nothing or what that author      *)
(* announced: the strengthening that makes AnonIsTheAuthors inductive.      *)
MemoryIsTheAuthors ==
  \A a \in Authors : anon_by_author[a] = ZeroAnon
                     \/ <<a, anon_by_author[a]>> \in Announced

(* An event carries no anon8 but its own author's.                          *)
THEOREM AnonsAreTheAuthors == Spec => []AnonIsTheAuthors
<1>1. Init => MemoryIsTheAuthors /\ AnonIsTheAuthors
  BY DEF Init, NodeInit, MemoryIsTheAuthors, AnonIsTheAuthors
<1>2. /\ TypeOK /\ MemoryIsTheAuthors /\ AnonIsTheAuthors /\ [Next]_vars
      => (MemoryIsTheAuthors /\ AnonIsTheAuthors)'
  <2> SUFFICES ASSUME TypeOK, MemoryIsTheAuthors, AnonIsTheAuthors, [Next]_vars
               PROVE  (MemoryIsTheAuthors /\ AnonIsTheAuthors)'
    OBVIOUS
  <2>1. CASE queue' \subseteq queue /\ anon_by_author' = anon_by_author
    BY <2>1 DEF MemoryIsTheAuthors, AnonIsTheAuthors, Announced
  <2>2. ASSUME NEW env \in Envelopes, IngestAccepted(now, env)
        PROVE  (MemoryIsTheAuthors /\ AnonIsTheAuthors)'
    <3>1. /\ env.author \in Authors
          /\ Announces(env) => <<env.author, env.anon>> \in Announced
          /\ ~Announces(env) => env.event_type = "sos"
      BY <2>2, EnvelopesAssumption
         DEF IngestAccepted, Translatable, Announces, Announced, Envelope, EventTypes
    <3>2. MemoryIsTheAuthors'
      BY <2>2, <3>1 DEF IngestAccepted, MemoryIsTheAuthors, Announced, TypeOK
    <3>3. /\ Queued(env).author = env.author
          /\ Queued(env).event_type = env.event_type
          /\ Queued(env).anon = Anon8(env)
      BY DEF Queued, QueuedAs
    <3>4. \/ <<env.author, Anon8(env)>> \in Announced
          \/ env.event_type = "sos" /\ Anon8(env) = ZeroAnon
      BY <3>1 DEF Anon8, MemoryIsTheAuthors
    <3>5. PICK kept \in RoomFor(env) : queue' = kept \cup {Queued(env)}
      BY <2>2 DEF IngestAccepted
    <3>6. kept \subseteq queue
      BY RoomMade
    <3>7. \A e \in queue' : \/ <<e.author, e.anon>> \in Announced
                            \/ e.event_type = "sos" /\ e.anon = ZeroAnon
      BY <3>3, <3>4, <3>5, <3>6 DEF AnonIsTheAuthors
    <3> QED
      BY <3>2, <3>7 DEF AnonIsTheAuthors, Announced
  <2>3. \/ queue' \subseteq queue /\ anon_by_author' = anon_by_author
        \/ \E env \in Envelopes : IngestAccepted(now, env)
    <3>1. CASE BleIngest
      BY <3>1, RoomMade DEF BleIngest, IngestUntranslatable, IngestRefused, nodeVars
    <3>2. CASE ~BleIngest
      BY <3>2 DEF Next, Transmit, TransmitIdle, TransmitGivesUp, TransmitSent,
                  TransmitBusy, TransmitLost, Attempts, Receive, ReceiveAccepted,
                  ReceiveIgnored, Restart, Reboot, Tick, vars, nodeVars
    <3> QED
      BY <3>1, <3>2
  <2> QED
    BY <2>1, <2>2, <2>3
<1> QED
  BY <1>1, <1>2, TypeCorrect, PTL DEF Spec

-----------------------------------------------------------------------------
(* A front event is most severe (heap order refines severity).              *)
LEMMA FrontIsMostSevere ==
  ASSUME TypeOK, NEW best \in queue, IsFront(best)
  PROVE  Abstract!MostSevere(best)
<1> SUFFICES ASSUME NEW o \in queue
             PROVE  best.priority <= o.priority
  BY DEF Abstract!MostSevere
<1>1. best.priority \in Int /\ o.priority \in Int
  BY DEF TypeOK, QueuedEvent, WirePriority, SOS_RED, NORMAL
<1> QED
  BY <1>1 DEF IsFront, Before

(* Every queued event is one an admissible envelope can become.             *)
QueueOfEvents == queue \subseteq Events

LEMMA QueuedIsAnEvent ==
  ASSUME TypeOK, NEW env \in Envelopes, Admissible(now, env)
  PROVE  Queued(env) \in Events
<1>1. env.priority \in WirePriority /\ Anon8(env) \in AnonIds
  BY QueuedType DEF Admissible
<1> QED
  BY <1>1 DEF Queued, Events

(* The queue only ever holds such events.                                   *)
THEOREM QueueHoldsEvents == Spec => []QueueOfEvents
<1>1. Init => QueueOfEvents
  BY DEF Init, NodeInit, QueueOfEvents
<1>2. TypeOK /\ QueueOfEvents /\ [Next]_vars => QueueOfEvents'
  <2> SUFFICES ASSUME TypeOK, QueueOfEvents, [Next]_vars
               PROVE  QueueOfEvents'
    OBVIOUS
  <2>1. CASE queue' \subseteq queue
    BY <2>1 DEF QueueOfEvents, Events, AnonIds, QueuedAs
  <2>2. ASSUME NEW env \in Envelopes, IngestAccepted(now, env)
        PROVE  QueueOfEvents'
    <3>1. Queued(env) \in Events
      BY <2>2, QueuedIsAnEvent DEF IngestAccepted
    <3>2. queue' \subseteq queue \cup {Queued(env)}
      BY <2>2, RoomMade DEF IngestAccepted
    <3>3. queue' \subseteq Events
      BY <3>1, <3>2 DEF QueueOfEvents
    <3> QED
      BY <3>3 DEF QueueOfEvents, Events, AnonIds, QueuedAs
  <2>3. \/ queue' \subseteq queue
        \/ \E env \in Envelopes : IngestAccepted(now, env)
    <3>1. CASE BleIngest
      BY <3>1, RoomMade DEF BleIngest, IngestUntranslatable, IngestRefused, nodeVars
    <3>2. CASE ~BleIngest
      BY <3>2 DEF Next, Transmit, TransmitIdle, TransmitGivesUp, TransmitSent,
                  TransmitBusy, TransmitLost, Receive, ReceiveAccepted,
                  ReceiveIgnored, Restart, Reboot, Tick, vars, nodeVars
    <3> QED
      BY <3>1, <3>2
  <2> QED
    BY <2>1, <2>2, <2>3
<1> QED
  BY <1>1, <1>2, TypeCorrect, PTL DEF Spec
(* The abstract module counts as this one does.                             *)
LEMMA SameCardinality == \A S : Abstract!Cardinality(S) = Cardinality(S)
  BY DEF Abstract!Cardinality, Cardinality

(* One step of the node is one step of the store-and-forward node it        *)
(* stands for, or none.                                                     *)
LEMMA StepSimulates ==
  ASSUME TypeOK, QueueBounded, QueueOfEvents, [Next]_vars
  PROVE  [Abstract!Next]_<<seen_ble, queue, sent, IdsOf(dropped_events), lost>>
<1> DEFINE View == <<seen_ble, queue, sent, IdsOf(dropped_events), lost>>
<1> SUFFICES Abstract!Next \/ UNCHANGED View
  OBVIOUS
<1>0. /\ IsFiniteSet(queue) /\ Cardinality(queue) \in Nat
      /\ Cardinality(queue) <= max_queue_size
  BY FS_CardinalityType DEF QueueBounded
<1>1. CASE BleIngest
  <2> PICK env \in Envelopes :
          \/ IngestAccepted(now, env)
          \/ IngestUntranslatable(now, env)
          \/ IngestRefused(now, env)
    BY <1>1 DEF BleIngest
  <2> UNCHANGED <<sent, lost>>
    BY <1>1 DEF BleIngest
  <2>1. CASE IngestAccepted(now, env)
    <3>1. /\ Queued(env) \in Events
          /\ Queued(env).id = env.id /\ Queued(env).priority = env.priority
      BY <2>1, QueuedIsAnEvent DEF IngestAccepted, Queued, QueuedAs
    <3>2. PICK kept \in RoomFor(env) :
              /\ queue' = kept \cup {Queued(env)}
              /\ dropped_events' = dropped_events \cup (queue \ kept)
      BY <2>1 DEF IngestAccepted
    <3>3. /\ Queued(env).id \notin seen_ble
          /\ seen_ble' = seen_ble \cup {Queued(env).id}
      BY <2>1, <3>1 DEF IngestAccepted, Admissible
    <3>4. CASE kept = queue /\ ~(Cardinality(queue) >= max_queue_size)
      <4>1. Cardinality(queue) < max_queue_size
        BY <1>0, <3>4, NodeAssumption
      <4>2. dropped_events' = dropped_events
        BY <3>2, <3>4
      <4>3. Abstract!Accept(Queued(env))
        BY <3>2, <3>3, <3>4, <4>1, <4>2, SameCardinality
           DEF Abstract!Accept, IdsOf
      <4> QED
        BY <3>1, <4>3 DEF Abstract!Next
    <3>5. ASSUME NEW w \in queue,
                 Cardinality(queue) >= max_queue_size, kept = queue \ {w},
                 w.priority > env.priority,
                 \A e \in queue : e.priority <= w.priority
          PROVE  Abstract!Next
      <4>1. Cardinality(queue) = max_queue_size
        BY <1>0, <3>5, NodeAssumption
      <4>2. Abstract!LeastSevere(w) /\ w.priority > Queued(env).priority
        BY <3>1, <3>5 DEF Abstract!LeastSevere
      <4>3. IdsOf(dropped_events') = IdsOf(dropped_events) \cup {w.id}
        BY <3>2, <3>5 DEF IdsOf
      <4>4. Abstract!Accept(Queued(env))
        BY <3>2, <3>3, <3>5, <4>1, <4>2, <4>3, SameCardinality
           DEF Abstract!Accept, IdsOf
      <4> QED
        BY <3>1, <4>4 DEF Abstract!Next
    <3> QED
      BY <3>4, <3>5, RoomMade
  <2>2. CASE IngestUntranslatable(now, env)
    <3>1. PICK kept \in RoomFor(env) :
              /\ queue' = kept
              /\ dropped_events' = dropped_events \cup (queue \ kept)
      BY <2>2 DEF IngestUntranslatable
    <3>2. seen_ble' = seen_ble
      BY <2>2 DEF IngestUntranslatable
    <3>3. CASE kept = queue
      BY <3>1, <3>2, <3>3
    <3>4. ASSUME NEW w \in queue,
                 Cardinality(queue) >= max_queue_size, kept = queue \ {w},
                 \A e \in queue : e.priority <= w.priority
          PROVE  Abstract!Next
      <4>1. Cardinality(queue) = max_queue_size
        BY <1>0, <3>4, NodeAssumption
      <4>2. IdsOf(dropped_events') = IdsOf(dropped_events) \cup {w.id}
        BY <3>1, <3>4 DEF IdsOf
      <4>3. Abstract!Discard(w)
        BY <3>1, <3>2, <3>4, <4>1, <4>2, SameCardinality
           DEF Abstract!Discard, Abstract!LeastSevere, IdsOf
      <4> QED
        BY <4>3 DEF Abstract!Next, QueueOfEvents
    <3> QED
      BY <3>3, <3>4, RoomMade
  <2>3. CASE IngestRefused(now, env)
    BY <2>3 DEF IngestRefused, nodeVars
  <2> QED
    BY <2>1, <2>2, <2>3
<1>2. CASE Transmit
  <2> lost' = lost
    BY <1>2 DEF Transmit
  <2>1. CASE TransmitIdle(now) /\ sent' = sent
    BY <2>1 DEF TransmitIdle, nodeVars
  <2>2. CASE TransmitGivesUp(now) /\ sent' = sent
    <3>1. PICK best \in queue :
              /\ IsFront(best)
              /\ queue' = queue \ {best}
              /\ dropped_events' = dropped_events \cup {best}
              /\ seen_ble' = seen_ble
      BY <2>2 DEF TransmitGivesUp
    <3>2. IdsOf(dropped_events') = IdsOf(dropped_events) \cup {best.id}
      BY <3>1 DEF IdsOf
    <3>3. Abstract!Discard(best)
      BY <2>2, <3>1, <3>2, FrontIsMostSevere DEF Abstract!Discard, IdsOf
    <3> QED
      BY <3>3 DEF Abstract!Next, QueueOfEvents
  <2>3. ASSUME NEW best \in queue, TransmitSent(now, best),
               sent' = sent \cup {best.id}
        PROVE  Abstract!Next
    <3>1. Abstract!MostSevere(best)
      BY <2>3, FrontIsMostSevere DEF TransmitSent, Attempts
    <3>2. Abstract!Send(best)
      BY <2>3, <3>1 DEF TransmitSent, Attempts, Abstract!Send, IdsOf
    <3> QED
      BY <3>2 DEF Abstract!Next, QueueOfEvents
  <2>4. ASSUME NEW best \in queue, sent' = sent,
               TransmitBusy(now, best) \/ TransmitLost(now, best)
        PROVE  UNCHANGED View
    BY <2>4 DEF TransmitBusy, TransmitLost, Attempts
  <2> QED
    BY <1>2, <2>1, <2>2, <2>3, <2>4 DEF Transmit
<1>3. CASE Receive
  BY <1>3 DEF Receive, ReceiveAccepted, ReceiveIgnored, nodeVars
<1>4. CASE Restart
  <2>1. PICK keeps \in BOOLEAN : Reboot(keeps)
    BY <1>4 DEF Restart
  <2>2. Abstract!Restart(keeps)
    BY <1>4, <2>1 DEF Restart, Reboot, Abstract!Restart, IdsOf
  <2> QED
    BY <2>2 DEF Abstract!Next
<1>5. CASE Tick
  BY <1>5 DEF Tick, nodeVars
<1>6. CASE UNCHANGED vars
  BY <1>6 DEF vars, nodeVars
<1> QED
  BY <1>1, <1>2, <1>3, <1>4, <1>5, <1>6 DEF Next

(* The node implements the store-and-forward node.                          *)
THEOREM ImplementsStoreAndForward == Spec => AbstractSpec
<1>1. Init => Abstract!Init
  BY DEF Init, NodeInit, Abstract!Init, IdsOf
<1>2. /\ TypeOK /\ QueueBounded /\ QueueOfEvents /\ [Next]_vars
      => [Abstract!Next]_<<seen_ble, queue, sent, IdsOf(dropped_events), lost>>
  BY StepSimulates
<1> QED
  BY <1>1, <1>2, TypeCorrect, QueueStaysBounded, QueueHoldsEvents, PTL
     DEF Spec, AbstractSpec, Abstract!Spec
=============================================================================
