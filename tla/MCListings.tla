------------------------------ MODULE MCListings ------------------------------
(* A small instance of Listings.                                                *)
EXTENDS Listings

\* Two triggers: one with a flight and a final notice, one with a ground notice; the last
\* instrument belongs to a stream the caller cannot access.
MCTriggerOf == <<1, 1, 2>>
MCStageOf   == <<2, 0, 1>>
MCStreamOf  == <<"grb", "none", "frb">>

Tier(name, max) == [name |-> name, max |-> max]

MCTierLists == { <<Tier("silver", 2), Tier("gold", 1)>>, <<Tier("gold", 1), Tier("silver", 2)>> }
=============================================================================
