----------------------------- MODULE MCIdLookup -----------------------------
(* IdLookup for TLC: MaxTotal bounds the entries that are created and not   *)
(* deleted, which callers that replace entries would drive up for ever.    *)
EXTENDS IdLookup, TLC

CONSTANTS MaxTotal, Clients

(* Next with that bound in the guard. *)
BoundedNext == Next /\ totalInputStreams' <= MaxTotal
BoundedSpec == Init /\ [][BoundedNext]_vars

ClientSymmetry == Permutations(Clients)
=============================================================================
