----------------------------- MODULE EffectLog -----------------------------
(***************************************************************************)
(* What the effect journal promises to the run that keeps it, without      *)
(* slots, phases, sessions, receipts or a bridge: an action is begun at    *)
(* most once and alone, happens at most once and never before it is begun, *)
(* is reported on at most once while it is open, and is settled once, by   *)
(* the verdict that its report gives.  The report is what an observer saw: *)
(* the action may have happened all the same, or still happen.             *)
(***************************************************************************)
EXTENDS Integers

CONSTANT Action

VARIABLES
  times,     \* how often the action took effect in the world
  report,    \* what its observer said of it
  verdict    \* what the journal says of it

vars == <<times, report, verdict>>

Init == /\ times = [a \in Action |-> 0]
        /\ report = [a \in Action |-> "unknown"]
        /\ verdict = [a \in Action |-> "none"]

\* An action is begun when no other one is uncertain.
Begin(a) ==
  /\ verdict[a] = "none" /\ \A b \in Action : verdict[b] # "open"
  /\ verdict' = [verdict EXCEPT ![a] = "open"]
  /\ UNCHANGED <<times, report>>

Happen(a) ==
  /\ verdict[a] # "none" /\ times[a] = 0
  /\ times' = [times EXCEPT ![a] = 1]
  /\ UNCHANGED <<report, verdict>>

Tell(a) ==
  /\ verdict[a] = "open" /\ report[a] = "unknown"
  /\ \E r \in {"applied", "not_applied"} : report' = [report EXCEPT ![a] = r]
  /\ UNCHANGED <<times, verdict>>

\* No verdict without a report.
Settle(a) ==
  /\ verdict[a] = "open" /\ report[a] # "unknown"
  /\ verdict' = [verdict EXCEPT ![a] =
                   IF report[a] = "applied" THEN "confirmed" ELSE "refuted"]
  /\ UNCHANGED <<times, report>>

Next == \E a \in Action : Begin(a) \/ Happen(a) \/ Tell(a) \/ Settle(a)

Spec == Init /\ [][Next]_vars
=============================================================================
