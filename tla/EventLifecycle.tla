--------------------------- MODULE EventLifecycle ---------------------------
(***************************************************************************)
(* What the server promises about events, whatever files it keeps and      *)
(* whoever asks: numbers are issued in order and once; an event is pending *)
(* while its description is on its way, and only a pending event can be    *)
(* removed; seats are only ever taken, never given back, while the event   *)
(* is open and not past; a closed or past event changes no more; an event  *)
(* that is past stays past.  EventStore implements it.                     *)
(***************************************************************************)
EXTENDS Integers

CONSTANTS MaxEvents, Attendances

VARIABLES
    phase,      \* "unused" | "pending" | "settled" | "removed", per number
    open,       \* may still be booked or closed, for pending and settled events
    free,       \* seats left; 0 for numbers without an event
    past        \* the events whose date has passed

lifeVars == <<phase, open, free, past>>

Numbers == 1..MaxEvents
Live == {e \in Numbers : phase[e] \in {"pending", "settled"}}
Bookable(e) == e \in Live /\ open[e] /\ e \notin past

Init ==
    /\ phase = [e \in Numbers |-> "unused"]
    /\ open = [e \in Numbers |-> FALSE]
    /\ free = [e \in Numbers |-> 0]
    /\ past = {}

\* The lowest unused number goes to a new event, pending or already settled,
\* that may be past from the start; or to a create that fails at once.
Issue(e) ==
    /\ phase[e] = "unused"
    /\ \A lower \in 1..(e - 1) : phase[lower] # "unused"
    /\ \/ \E p \in {"pending", "settled"}, a \in Attendances, old \in SUBSET {e} :
            /\ phase' = [phase EXCEPT ![e] = p]
            /\ open' = [open EXCEPT ![e] = TRUE]
            /\ free' = [free EXCEPT ![e] = a]
            /\ past' = past \cup old
       \/ /\ phase' = [phase EXCEPT ![e] = "removed"]
          /\ UNCHANGED <<open, free, past>>

\* The creates of some pending events end: of one, or of all when the server
\* is restarted.
Settle(ended) ==
    /\ \A e \in ended : phase[e] = "pending"
    /\ phase' = [e \in Numbers |-> IF e \in ended THEN "settled" ELSE phase[e]]
    /\ UNCHANGED <<open, free, past>>

Remove(e) ==
    /\ phase[e] = "pending"
    /\ phase' = [phase EXCEPT ![e] = "removed"]
    /\ open' = [open EXCEPT ![e] = FALSE]
    /\ free' = [free EXCEPT ![e] = 0]
    /\ past' = past \ {e}

Book(e) ==
    /\ Bookable(e)
    /\ \E n \in 1..free[e] : free' = [free EXCEPT ![e] = @ - n]
    /\ UNCHANGED <<phase, open, past>>

\* A sold-out event cannot be closed.
CloseSales(e) ==
    /\ Bookable(e)
    /\ free[e] > 0
    /\ open' = [open EXCEPT ![e] = FALSE]
    /\ UNCHANGED <<phase, free, past>>

TimePasses ==
    /\ \E late \in SUBSET Live : past' = past \cup late
    /\ UNCHANGED <<phase, open, free>>

Next ==
    \/ \E e \in Numbers : Issue(e) \/ Remove(e) \/ Book(e) \/ CloseSales(e)
    \/ \E ended \in SUBSET Numbers : Settle(ended)
    \/ TimePasses

Spec == Init /\ [][Next]_lifeVars

=============================================================================
