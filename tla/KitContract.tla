---------------------------- MODULE KitContract -----------------------------
(***************************************************************************)
(* What the kit API promises its clients, without workers, brokers or      *)
(* transactions: a kit opens, settles once into an outcome that never      *)
(* changes, and from then on only gains the change batches its clients     *)
(* were told are applied, one revision each, until it is deleted.          *)
(***************************************************************************)
EXTENDS Naturals

CONSTANTS Kits, Batches, Settled, Editable

VARIABLES
    phase,     \* "unborn", "open", an outcome, or "deleted"
    revision,  \* the optimistic-concurrency counter
    batches    \* the batches the kit contains

vars == <<phase, revision, batches>>

Init == /\ phase = [k \in Kits |-> "unborn"]
        /\ revision = [k \in Kits |-> 0]
        /\ batches = [k \in Kits |-> {}]

Open(k) == /\ phase[k] = "unborn"
           /\ phase' = [phase EXCEPT ![k] = "open"]
           /\ UNCHANGED <<revision, batches>>

Settle(k) == /\ phase[k] = "open"
             /\ \E o \in Settled : phase' = [phase EXCEPT ![k] = o]
             /\ UNCHANGED <<revision, batches>>

Apply(k, b) == /\ phase[k] \in Editable
               /\ b \notin batches[k]
               /\ revision' = [revision EXCEPT ![k] = @ + 1]
               /\ batches' = [batches EXCEPT ![k] = @ \cup {b}]
               /\ UNCHANGED phase

Remove(k) == /\ phase[k] \in Settled \cup {"open"}
             /\ phase' = [phase EXCEPT ![k] = "deleted"]
             /\ revision' = [revision EXCEPT ![k] = 0]
             /\ batches' = [batches EXCEPT ![k] = {}]

Next == \E k \in Kits : \/ Open(k) \/ Settle(k) \/ Remove(k)
                        \/ \E b \in Batches : Apply(k, b)

Spec == Init /\ [][Next]_vars
=============================================================================
