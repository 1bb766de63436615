--------------------------- MODULE ReviewContract ---------------------------
(***************************************************************************)
(* What a human-in-the-loop review promises to the rest of the system,     *)
(* without clients, listeners, polls, rows or playbooks: a review is       *)
(* opened, analysts may offer rulings at any time from then on, the        *)
(* pipeline takes one ruling - one that was offered, or its own TIMEOUT -  *)
(* and its effect follows from that ruling.  Both are taken once.  The     *)
(* pipeline may abandon a review, and an abandoned review stays abandoned. *)
(***************************************************************************)
CONSTANTS Reviews

VARIABLES
    stage,   \* per review: "unopened", "open", "ruled", "closed" or "abandoned"
    offers,  \* per review: the rulings analysts have committed
    ruling,  \* per review: the ruling the pipeline follows
    effect   \* per review: what the pipeline did

vars == <<stage, offers, ruling, effect>>

Offers == {"APPROVE", "EDIT", "REJECT", "ESCALATE"}
Rulings == Offers \cup {"TIMEOUT"}

EffectOf(v) ==
    CASE v \in {"APPROVE", "EDIT", "TIMEOUT"} -> "executed"
      [] v = "REJECT" -> "dropped"
      [] v = "ESCALATE" -> "escalated"

Init ==
    /\ stage = [r \in Reviews |-> "unopened"]
    /\ offers = [r \in Reviews |-> {}]
    /\ ruling = [r \in Reviews |-> "none"]
    /\ effect = [r \in Reviews |-> "none"]

Open(r) ==
    /\ stage[r] = "unopened"
    /\ stage' = [stage EXCEPT ![r] = "open"]
    /\ UNCHANGED <<offers, ruling, effect>>

Offer(r, o) ==
    /\ stage[r] # "unopened"
    /\ offers' = [offers EXCEPT ![r] = @ \cup {o}]
    /\ UNCHANGED <<stage, ruling, effect>>

Rule(r, v) ==
    /\ stage[r] = "open"
    /\ v \in offers[r] \cup {"TIMEOUT"}
    /\ ruling' = [ruling EXCEPT ![r] = v]
    /\ stage' = [stage EXCEPT ![r] = "ruled"]
    /\ UNCHANGED <<offers, effect>>

Close(r) ==
    /\ stage[r] = "ruled"
    /\ effect' = [effect EXCEPT ![r] = EffectOf(ruling[r])]
    /\ stage' = [stage EXCEPT ![r] = "closed"]
    /\ UNCHANGED <<offers, ruling>>

\* A crash takes any number of reviews that are still on their way.
Abandon(R) ==
    /\ R # {}
    /\ \A r \in R : stage[r] \in {"open", "ruled"}
    /\ stage' = [r \in Reviews |-> IF r \in R THEN "abandoned" ELSE stage[r]]
    /\ UNCHANGED <<offers, ruling, effect>>

Next ==
    \/ \E r \in Reviews : Open(r) \/ Close(r)
    \/ \E r \in Reviews, o \in Offers : Offer(r, o)
    \/ \E r \in Reviews, v \in Rulings : Rule(r, v)
    \/ \E R \in SUBSET Reviews : Abandon(R)

Spec == Init /\ [][Next]_vars

=============================================================================
