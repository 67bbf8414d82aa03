---------------------------- MODULE FlattenOnce ----------------------------
(***************************************************************************)
(* What an emergency close task promises, whoever executes it and whatever *)
(* fails meanwhile: its close orders work one after the other, and once    *)
(* the position is declared flat none is sent and none can fill any more.  *)
(***************************************************************************)
CONSTANT Closes    \* the close orders of the task

VARIABLES working, \* close orders that may fill
          verdict  \* open, operator, flat or accounted

vars == <<working, verdict>>

Init == working = {} /\ verdict = "open"

(* A close already on its way out may still be sent after an operator was  *)
(* asked for.                                                              *)
Send ==
  /\ working = {} /\ verdict \in {"open", "operator"}
  /\ \E c \in Closes : working' = {c}
  /\ UNCHANGED verdict

End ==
  /\ working # {} /\ working' = {}
  /\ UNCHANGED verdict

(* An operator has to look; this can follow a flat verdict as well, when   *)
(* the fills cannot be accounted.                                          *)
GiveUp ==
  /\ verdict \in {"open", "flat"} /\ verdict' = "operator"
  /\ UNCHANGED working

Flat ==
  /\ verdict = "open" /\ working = {}
  /\ verdict' = "flat" /\ UNCHANGED working

Account ==
  /\ verdict = "flat" /\ verdict' = "accounted"
  /\ UNCHANGED working

Next == Send \/ End \/ GiveUp \/ Flat \/ Account

Spec == Init /\ [][Next]_vars
=============================================================================
