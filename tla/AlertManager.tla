----------------------------- MODULE AlertManager -----------------------------
(***************************************************************************)
(* AlertManager of the core library: rules over the gauges of the metrics, *)
(* evaluated by a timer.  A rule that fired is not looked at again for its *)
(* cooldown, so its alert stays active although the gauge has recovered.   *)
(*                                                                         *)
(* A gauge is abstracted to whether it breaches the rule's threshold; the  *)
(* time since a rule last fired to what is left of its cooldown.           *)
(***************************************************************************)
EXTENDS Integers

CONSTANTS Rules,    \* the names of the rules
          Cooldown  \* ticks of the clock a rule rests after it fired

ASSUME CooldownAssumption == Cooldown \in Nat

VARIABLES rule,      \* rules_: what is registered under each name
          breach,    \* the rules whose gauge breaches the threshold
          active,    \* activeAlerts_
          acked,     \* the active alerts that are acknowledged
          resting,   \* what is left of each rule's cooldown (lastFiredAt_)
          ticking    \* the timer runs

alertVars == <<rule, breach, active, acked, resting, ticking>>

AlertInit ==
  /\ rule = [r \in Rules |-> "absent"]
  /\ breach = {}
  /\ active = {} /\ acked = {}
  /\ resting = [r \in Rules |-> 0]
  /\ ticking = FALSE

\* addRule, which replaces a rule of the same name and keeps its alert.
AddRule ==
  /\ \E r \in Rules, s \in {"enabled", "disabled"} : rule' = [rule EXCEPT ![r] = s]
  /\ UNCHANGED <<breach, active, acked, resting, ticking>>

\* removeRule, which keeps the time the rule last fired.
RemoveRule ==
  /\ \E r \in Rules :
       /\ rule' = [rule EXCEPT ![r] = "absent"]
       /\ active' = active \ {r}
       /\ acked' = acked \ {r}
  /\ UNCHANGED <<breach, resting, ticking>>

Acknowledge ==
  /\ \E r \in active : acked' = acked \cup {r}
  /\ UNCHANGED <<rule, breach, active, resting, ticking>>

Tested == {r \in Rules : rule[r] = "enabled" /\ resting[r] = 0}

\* A mutant: an alert is cleared only when somebody has acknowledged it.
MutantCleared == (Tested \ breach) \cap acked

Cleared == (Tested \ breach) \cap active

\* One timeout of the timer: every rule that does not rest is tested; one that
\* fires again gets a new alert, which nobody has acknowledged.
Evaluate ==
  /\ ticking
  /\ LET fired == Tested \cap breach IN
       /\ active' = (active \cup fired) \ Cleared
       /\ acked' = (acked \ fired) \ Cleared
       /\ resting' = [r \in Rules |-> IF r \in fired THEN Cooldown ELSE resting[r]]
  /\ UNCHANGED <<rule, breach, ticking>>

\* start and stop of the timer.
SetTimer ==
  /\ ticking' = ~ticking
  /\ UNCHANGED <<rule, breach, active, acked, resting>>

\* The clock.
ClockTick ==
  /\ \E r \in Rules : resting[r] > 0
  /\ resting' = [r \in Rules |-> IF resting[r] > 0 THEN resting[r] - 1 ELSE 0]
  /\ UNCHANGED <<rule, breach, active, acked, ticking>>

\* The metrics change.
SetGauge ==
  /\ \E b \in SUBSET Rules : breach' = b
  /\ UNCHANGED <<rule, active, acked, resting, ticking>>

AlertNext ==
  \/ AddRule
  \/ RemoveRule
  \/ Acknowledge
  \/ Evaluate
  \/ SetTimer
  \/ ClockTick
  \/ SetGauge

AlertSpec == AlertInit /\ [][AlertNext]_alertVars

-------------------------------------------------------------------------------

\* Types, and only what is active can be acknowledged.
AlertTypeOK ==
  /\ rule \in [Rules -> {"absent", "enabled", "disabled"}]
  /\ breach \subseteq Rules
  /\ active \subseteq Rules /\ acked \subseteq active
  /\ resting \in [Rules -> 0..Cooldown]
  /\ ticking \in BOOLEAN

\* No alert outlives the removal of its rule, by whatever sequence of evaluations,
\* replacements and removals: nothing could clear it (AlertManager.cpp:21-24, 66).
AlertsHaveRules == \A r \in active : rule[r] # "absent"

\* A rule's alert follows its gauge in the end: with the timer running, a rule that
\* stays enabled and breached has an alert for ever, one that stays recovered has
\* none, although the cooldown postpones both (AlertManager.cpp:34-69).
GaugeFollowed ==
  \A r \in Rules :
    /\ <>[](ticking /\ rule[r] = "enabled" /\ r \in breach) => <>[](r \in active)
    /\ <>[](ticking /\ rule[r] = "enabled" /\ r \notin breach) => <>[](r \notin active)

\* Alerts follow their gauges, and at no time is there one that could not.
AlertFollowsGauge == [](AlertTypeOK /\ AlertsHaveRules) /\ GaugeFollowed
===============================================================================
