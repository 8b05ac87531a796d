----------------------------- MODULE MCGuestRuns ------------------------------
(* Model-checking instance of GuestRuns: guests at one address, who differ *)
(* in nothing, and a company of members.                                   *)
EXTENDS GuestRuns, TLC
MCAddress  == [g \in Guests |-> CHOOSE i \in Addresses : TRUE]
MCSymmetry == Permutations(Guests) \union Permutations(Requests)
=============================================================================
