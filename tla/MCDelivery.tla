----------------------------- MODULE MCDelivery -----------------------------
(* A message of each kind that occurs in a run. *)
EXTENDS Delivery

CONSTANTS bad, wrong, odd, good, long

MCKindOf == [m \in Messages |->
    CASE m = bad -> "malformed" [] m = wrong -> "invalid" [] m = odd -> "unmatched"
      [] m = good -> "matched" [] m = long -> "unsliceable"]

=============================================================================
