----------------------------- MODULE MCLiveEntry -----------------------------
(* Instances of LiveEntry for TLC: two entries, on instruments of their own *)
(* or on one, and a single entry for the runs of liveness properties.       *)
EXTENDS LiveEntry, TLC

CONSTANTS e1, e2, i1

MCEntries == {e1, e2}
(* Each entry's own instrument on an exchange of its own, both under the    *)
(* entry's name, so that a swap of the entries swaps all three.             *)
Apart == e1 :> e1 @@ e2 :> e2
OneExchangeEach == e1 :> e1 @@ e2 :> e2
Swap == Permutations(MCEntries)
Together == e1 :> i1 @@ e2 :> i1
Alone == e1 :> i1
OneExchange == i1 :> "x1"
MCBlockers == {"startup", "source", "incident", "submission_unknown"}
==============================================================================
