-------------------------- MODULE StoreAndForward ---------------------------
(***************************************************************************)
(* What a store-and-forward node promises of the events it accepts,        *)
(* without queues ordered by heaps, clocks, backoffs or budgets: an event  *)
(* it holds leaves by the radio, by a recorded drop or by a restart, and   *)
(* by nothing else; an id it knows is not accepted again; it holds no more *)
(* than its capacity; and the severe events go first and stay longest.     *)
(***************************************************************************)
EXTENDS Naturals, FiniteSets

CONSTANTS
    Event,      \* records with an id and a priority (low is severe)
    Capacity

VARIABLES
    known,      \* the ids the node takes for duplicates
    held,       \* the events waiting
    sent,       \* the ids the radio took
    dropped,    \* the ids dropped on the record
    lost        \* the ids a restart threw away

Init == known = {} /\ held = {} /\ sent = {} /\ dropped = {} /\ lost = {}

MostSevere(e) == e \in held /\ \A o \in held : e.priority <= o.priority
LeastSevere(e) == e \in held /\ \A o \in held : o.priority <= e.priority

\* A new event is held; to make room a full node may shed one least severe
\* event that the new one outranks.
Accept(e) ==
    /\ e.id \notin known
    /\ known' = known \cup {e.id}
    /\ \/ /\ Cardinality(held) < Capacity
          /\ held' = held \cup {e}
          /\ UNCHANGED dropped
       \/ \E victim \in held :
             /\ Cardinality(held) = Capacity
             /\ LeastSevere(victim) /\ victim.priority > e.priority
             /\ held' = (held \ {victim}) \cup {e}
             /\ dropped' = dropped \cup {victim.id}
    /\ UNCHANGED <<sent, lost>>

\* Nothing less severe is sent while something more severe waits.
Send(e) ==
    /\ MostSevere(e)
    /\ held' = held \ {e}
    /\ sent' = sent \cup {e.id}
    /\ UNCHANGED <<known, dropped, lost>>

\* Giving up on the event that is next to go, or shedding one when full.
Discard(e) ==
    /\ MostSevere(e) \/ (LeastSevere(e) /\ Cardinality(held) = Capacity)
    /\ held' = held \ {e}
    /\ dropped' = dropped \cup {e.id}
    /\ UNCHANGED <<known, sent, lost>>

Restart(keeps_known) ==
    /\ held' = {}
    /\ lost' = lost \cup {e.id : e \in held}
    /\ known' = IF keeps_known THEN known ELSE {}
    /\ UNCHANGED <<sent, dropped>>

Next ==
    \/ \E e \in Event : Accept(e) \/ Send(e) \/ Discard(e)
    \/ \E keeps \in BOOLEAN : Restart(keeps)

Spec == Init /\ [][Next]_<<known, held, sent, dropped, lost>>
=============================================================================
