----------------------------- MODULE RiskRules -----------------------------
(* RiskEngine.evaluate: what the engine answers to a decision, and the     *)
(* risk state the runner finds from the drawdown.  Weights and drawdowns   *)
(* are whole percentages; the comparison tolerance, far below one, is not  *)
(* modelled.  The answer is a relation, not a function: the weight is the  *)
(* smallest of the limits that apply, which the code computes by folding   *)
(* min over them.                                                          *)
EXTENDS Naturals

CONSTANT RiskConfig   \* the section "risk" of config.yaml

ASSUME RiskConfigAssumption ==
  RiskConfig \in
    [hard : Nat, recovery : Nat,                    \* drawdown limits
     tiers : SUBSET [from : Nat, max : Nat],
     absolute : Nat,
     macroPolicy : {"cap", "reject_new", "allow"}, macroUnknown : Nat,
     earnings : Nat, refuseEarnings : BOOLEAN, macroEvent : Nat]

RiskStates == {"NORMAL", "REDUCED", "RISK_HALTED"}

\* A decision; "fits" says whether a HOLD or SWITCH names the position held.
Intents == [action : {"BUY", "HOLD", "SWITCH", "CASH"}, fits : BOOLEAN, weight : Nat]

Portfolios == [drawdown : Nat, state : RiskStates]

\* What the engine is told of the stock.  "vetoed": the decision or the data
\* is stale, the confidence too low, the price missing, the stock halted, too
\* volatile, illiquid or gapping, or the market closed.
Facts == [vetoed : BOOLEAN, volatility : Nat,       \* volatility: its limit
          macroKnown : BOOLEAN, macroEvent : BOOLEAN, earningsNear : BOOLEAN]

Answers == [approved : BOOLEAN, forced : BOOLEAN, weight : Nat, state : RiskStates]

-----------------------------------------------------------------------------

ReachedTiers(drawdown) == {t \in RiskConfig.tiers : drawdown >= t.from}

TierState(drawdown) ==
  IF \E t \in ReachedTiers(drawdown) : t.max < 100 THEN "REDUCED" ELSE "NORMAL"

\* A halt lasts until the recovery level.
Halts(p) ==
  \/ p.state = "RISK_HALTED" /\ p.drawdown > RiskConfig.recovery
  \/ p.drawdown >= RiskConfig.hard

\* _risk_state_for_drawdown of the runner, at every reconciliation.
ReconciledState(p) == IF Halts(p) THEN "RISK_HALTED" ELSE TierState(p.drawdown)

Misfits(i) == i.action \in {"HOLD", "SWITCH"} /\ ~ i.fits

Opens(i) == i.action \in {"BUY", "SWITCH"}

RefusedForMacro(i, f) == ~ f.macroKnown /\ RiskConfig.macroPolicy = "reject_new" /\ Opens(i)

CappedForMacro(f) == ~ f.macroKnown /\ RiskConfig.macroPolicy = "cap"

RefusedForEarnings(i, f) == f.earningsNear /\ RiskConfig.refuseEarnings /\ Opens(i)

\* The limits on the weight, the request among them.
Limits(i, p, f) ==
  {i.weight, RiskConfig.absolute, f.volatility}
    \cup {t.max : t \in ReachedTiers(p.drawdown)}
    \cup {x \in {RiskConfig.macroUnknown} : CappedForMacro(f)}
    \cup {x \in {RiskConfig.earnings}     : f.earningsNear}
    \cup {x \in {RiskConfig.macroEvent}   : f.macroEvent}

SmallestOf(S, w) == w \in S /\ \A x \in S : w <= x

StateUnderEvents(p, f) ==
  IF CappedForMacro(f) \/ f.earningsNear \/ f.macroEvent THEN "REDUCED" ELSE TierState(p.drawdown)

Rejects(a, forced, state) == a = [approved |-> FALSE, forced |-> forced, weight |-> 0, state |-> state]

Approves(a, weight, state) == a = [approved |-> TRUE, forced |-> FALSE, weight |-> weight, state |-> state]

\* Cash is always allowed.
EvaluatesCash(i, p, a) ==
  /\ i.action = "CASH"
  /\ Approves(a, 0, IF p.drawdown >= RiskConfig.hard THEN "RISK_HALTED" ELSE p.state)

\* The checks that are made before the limits are looked at, in their order.
EvaluatesVetoes(i, p, f, a) ==
  /\ i.action # "CASH"
  /\ \/ Misfits(i) /\ Rejects(a, FALSE, TierState(p.drawdown))
     \/ ~ Misfits(i) /\ Halts(p) /\ Rejects(a, TRUE, "RISK_HALTED")
     \/ ~ Misfits(i) /\ ~ Halts(p) /\ f.vetoed /\ Rejects(a, FALSE, TierState(p.drawdown))

PassesVetoes(i, p, f) == i.action # "CASH" /\ ~ Misfits(i) /\ ~ Halts(p) /\ ~ f.vetoed

\* New exposure is refused before some events.
EvaluatesEvents(i, p, f, a) ==
  /\ PassesVetoes(i, p, f)
  /\ \/ RefusedForMacro(i, f) /\ Rejects(a, FALSE, TierState(p.drawdown))
     \/ ~ RefusedForMacro(i, f) /\ RefusedForEarnings(i, f) /\ Rejects(a, FALSE, "REDUCED")

\* The smallest limit decides; a limit of nothing forces the account to cash.
EvaluatesLimits(i, p, f, a) ==
  /\ PassesVetoes(i, p, f) /\ ~ RefusedForMacro(i, f) /\ ~ RefusedForEarnings(i, f)
  /\ \E w \in Limits(i, p, f) :
       /\ SmallestOf(Limits(i, p, f), w)
       /\ \/ w = 0 /\ Rejects(a, TRUE, StateUnderEvents(p, f))
          \/ w > 0 /\ Approves(a, w, StateUnderEvents(p, f))

\* RiskEngine.evaluate answers a.
Evaluates(i, p, f, a) ==
  \/ EvaluatesCash(i, p, a) \/ EvaluatesVetoes(i, p, f, a)
  \/ EvaluatesEvents(i, p, f, a) \/ EvaluatesLimits(i, p, f, a)

=============================================================================
