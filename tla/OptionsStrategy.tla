--------------------------- MODULE OptionsStrategy ---------------------------
(***************************************************************************)
(* BuildOptionsStrategyUseCase (options_strategy.go): a named strategy and *)
(* its strikes become legs, the legs get instruments and last prices, and  *)
(* the formulas of the strategy give maximum profit, maximum loss and      *)
(* breakevens.  They are compared here with the payoff at expiry of the    *)
(* very legs the response lists.                                           *)
(*                                                                         *)
(* Strikes, prices and amounts are integers: round2 leaves a number of     *)
(* paise alone, and the formulas only add, subtract and multiply by an     *)
(* integer quantity.  A strike of 0 is one the caller left out.            *)
(***************************************************************************)
EXTENDS Integers, Sequences, FiniteSetsExt, Functions

CONSTANTS
  MaxStrike,    \* bound: strikes are at most this
  MaxPremium,   \* bound: last prices are at most this
  LotChoices,   \* what the caller may ask for as Lots, 0 and negatives included
  OwnLotSizes,  \* what the caller may ask for as LotSize, 0 for "look it up"
  DefaultLots   \* what DefaultLotSize may answer, 0 for "unknown underlying"

ASSUME BoundsAssumption ==
  /\ MaxStrike \in Nat /\ MaxPremium \in Nat
  /\ LotChoices \cup OwnLotSizes \cup DefaultLots \subseteq Int

Strategies == {"bull_call_spread", "bear_put_spread", "bear_call_spread", "bull_put_spread",
               "straddle", "strangle", "iron_condor", "butterfly"}

\* How many of Strike1 .. Strike4 the strategy reads; the rest are left out.
Reads(s) ==
  CASE s = "straddle" -> 1
    [] s = "butterfly" -> 3
    [] s = "iron_condor" -> 4
    [] OTHER -> 2

Commands ==
  UNION {[strategy : {s},
          strike : {k \in [1..4 -> 0..MaxStrike] : \A i \in 1..4 : i > Reads(s) => k[i] = 0},
          lots : LotChoices, lotSize : OwnLotSizes] : s \in Strategies}

\* No strategy is being asked for.
NoCommand == [strategy |-> "none"]

VARIABLES
  cmd,    \* the command
  stage,  \* "validate", "resolve", "quote", "metrics", "built", "error"
  specs,  \* the leg specifications: strike, option type, action, lots multiplier
  resp    \* the response under construction

strategyVars == <<cmd, stage, specs, resp>>

-----------------------------------------------------------------------------
(* buildLegSpecs.                                                          *)

Leg(k, opt, act, multi) == [strike |-> k, opt |-> opt, act |-> act, multi |-> multi]

SpecsOf(s, k) ==
  CASE s = "bull_call_spread" -> <<Leg(k[1], "CE", "BUY", 1), Leg(k[2], "CE", "SELL", 1)>>
    [] s = "bear_put_spread"  -> <<Leg(k[1], "PE", "SELL", 1), Leg(k[2], "PE", "BUY", 1)>>
    [] s = "bear_call_spread" -> <<Leg(k[1], "CE", "SELL", 1), Leg(k[2], "CE", "BUY", 1)>>
    [] s = "bull_put_spread"  -> <<Leg(k[1], "PE", "BUY", 1), Leg(k[2], "PE", "SELL", 1)>>
    [] s = "straddle"         -> <<Leg(k[1], "CE", "BUY", 1), Leg(k[1], "PE", "BUY", 1)>>
    [] s = "strangle"         -> <<Leg(k[1], "PE", "BUY", 1), Leg(k[2], "CE", "BUY", 1)>>
    [] s = "iron_condor"      -> <<Leg(k[1], "PE", "BUY", 1), Leg(k[2], "PE", "SELL", 1),
                                   Leg(k[3], "CE", "SELL", 1), Leg(k[4], "CE", "BUY", 1)>>
    [] s = "butterfly"        -> <<Leg(k[1], "CE", "BUY", 1), Leg(k[2], "CE", "SELL", 2),
                                   Leg(k[3], "CE", "BUY", 1)>>

\* The orderings buildLegSpecs insists on: none between those of a strangle.
Ordered(s, k) ==
  CASE s = "straddle"    -> TRUE
    [] s = "strangle"    -> k[2] > 0
    [] s = "iron_condor" -> /\ \A i \in 2..4 : k[i] > 0
                            /\ \A i \in 1..3 : k[i] < k[i + 1]
    [] s = "butterfly"   -> /\ \A i \in 2..3 : k[i] > 0
                            /\ \A i \in 1..2 : k[i] < k[i + 1]
    [] OTHER             -> k[2] > k[1]

\* ValidateOptionsStrategyCommand, as far as it looks at the strikes.
Acceptable(c) == c.strike[1] > 0 /\ Ordered(c.strategy, c.strike)

-----------------------------------------------------------------------------
(* applyStrategyMetrics, on the premiums p of the legs, the strikes k and  *)
(* the quantity q of one lots multiplier.                                  *)

Credit(s)    == s \in {"bear_call_spread", "bull_put_spread", "iron_condor"}
Unlimited(s) == s \in {"straddle", "strangle"}

\* netDebit, netCredit or totalDebit, per unit.
Net(s, p) ==
  CASE s \in {"bull_call_spread", "bear_call_spread"} -> p[1] - p[2]
    [] s \in {"bear_put_spread", "bull_put_spread"}   -> p[2] - p[1]
    [] Unlimited(s)       -> p[1] + p[2]
    [] s = "iron_condor"  -> (p[2] + p[3]) - (p[1] + p[4])
    [] s = "butterfly"    -> Max({0, p[1] - 2 * p[2] + p[3]})

\* Broken variant: the narrower wing of a condor.
WidthNarrow(s, k) ==
  IF s = "iron_condor" THEN Min({k[2] - k[1], k[4] - k[3]}) ELSE k[2] - k[1]

\* The distance that bounds the strategy: wider wing, or the only one looked at.
Width(s, k) ==
  IF s = "iron_condor" THEN Max({k[2] - k[1], k[4] - k[3]}) ELSE k[2] - k[1]

Breakevens(s, k, n) ==
  CASE s \in {"bull_call_spread", "bear_call_spread"} -> <<k[1] + n>>
    [] s \in {"bear_put_spread", "bull_put_spread"}   -> <<k[2] - n>>
    [] s = "straddle"    -> <<k[1] - n, k[1] + n>>
    [] s = "strangle"    -> <<k[1] - n, k[2] + n>>
    [] s = "iron_condor" -> <<k[2] - n, k[3] + n>>
    [] s = "butterfly"   -> <<k[1] + n, k[3] - n>>

MaxProfitAmt(s, k, p, q) ==
  IF Unlimited(s) THEN 0
  ELSE IF Credit(s) THEN Net(s, p) * q ELSE (Width(s, k) - Net(s, p)) * q

MaxLossAmt(s, k, p, q) ==
  IF Credit(s) THEN (Width(s, k) - Net(s, p)) * q ELSE Net(s, p) * q

\* The ratio itself is the quotient of the two amounts.
RiskReward(s, profit, loss) ==
  IF profit > 0 /\ loss > 0 THEN "ratio"
  ELSE IF Unlimited(s) /\ loss > 0 THEN "unlimited upside" ELSE "N/A"

Metrics(s, k, p, q) ==
  LET profit == MaxProfitAmt(s, k, p, q)
      loss   == MaxLossAmt(s, k, p, q)
  IN  [unlimited |-> Unlimited(s), maxProfit |-> profit, maxLoss |-> loss,
       breakevens |-> Breakevens(s, k, Net(s, p)),
       riskReward |-> RiskReward(s, profit, loss)]

-----------------------------------------------------------------------------
(* Execute.                                                                *)

NoResponse == [legs |-> <<>>]

\* With a command, or with none.
StrategyInit(asked) ==
  /\ cmd \in IF asked THEN Commands ELSE {NoCommand}
  /\ stage = IF asked THEN "validate" ELSE "error"
  /\ specs = <<>>
  /\ resp = NoResponse

Fail == stage' = "error" /\ UNCHANGED <<cmd, specs, resp>>

\* Email, underlying, expiry and strategy name may be malformed as well.
Validate ==
  /\ stage = "validate"
  /\ \/ Fail
     \/ /\ Acceptable(cmd)
        /\ stage' = "resolve"
        /\ specs' = SpecsOf(cmd.strategy, cmd.strike)
        /\ UNCHANGED <<cmd, resp>>

\* At least one lot, and the caller's lot size, else the default, else 1.
Lots           == IF cmd.lots < 1 THEN 1 ELSE cmd.lots
LotSizes       == IF cmd.lotSize > 0 THEN {cmd.lotSize}
                  ELSE {IF d > 0 THEN d ELSE 1 : d \in DefaultLots}

\* DefaultLotSize, FindOption for every leg, GetBrokerForEmail.
Resolve ==
  /\ stage = "resolve"
  /\ \/ Fail
     \/ \E size \in LotSizes :
          /\ resp' = [legs |-> <<>>, lots |-> Lots, lotSize |-> size]
          /\ stage' = "quote"
          /\ UNCHANGED <<cmd, specs>>

LegOf(i, price, lots, size) ==
  [strike |-> specs[i].strike, opt |-> specs[i].opt, act |-> specs[i].act,
   lots |-> lots * specs[i].multi, quantity |-> lots * specs[i].multi * size,
   premium |-> price]

\* GetLTP for all legs; the call fails, or a price is missing or not positive.
Quote ==
  /\ stage = "quote"
  /\ \/ Fail
     \/ \E price \in [1..Len(specs) -> 0..MaxPremium] :
          IF \E i \in 1..Len(specs) : price[i] = 0
            THEN Fail
            ELSE /\ resp' = [resp EXCEPT !.legs =
                      [i \in 1..Len(specs) |-> LegOf(i, price[i], resp.lots, resp.lotSize)]]
                 /\ stage' = "metrics"
                 /\ UNCHANGED <<cmd, specs>>

\* What selling brings in less what buying costs.
NetPremium(legs) ==
  SumFunction([i \in 1..Len(legs) |->
     (IF legs[i].act = "SELL" THEN 1 ELSE -1) * legs[i].premium * legs[i].quantity])

\* The response for the legs, with the metrics of quantity q.
Response(q) ==
  [legs |-> resp.legs, lots |-> resp.lots, lotSize |-> resp.lotSize,
   netPremium |-> NetPremium(resp.legs),
   metrics |-> Metrics(cmd.strategy, cmd.strike,
                       [i \in 1..Len(resp.legs) |-> resp.legs[i].premium], q)]

\* Broken variant: the metrics are those of a single lot.
BuildOneLot ==
  /\ stage = "metrics"
  /\ resp' = Response(resp.lotSize)
  /\ stage' = "built"
  /\ UNCHANGED <<cmd, specs>>

Build ==
  /\ stage = "metrics"
  /\ resp' = Response(resp.lotSize * resp.lots)
  /\ stage' = "built"
  /\ UNCHANGED <<cmd, specs>>

StrategyNext == Validate \/ Resolve \/ Quote \/ Build

-----------------------------------------------------------------------------
(* The reference: what the legs are worth when they expire at a price.     *)

Intrinsic(leg, price) ==
  Max({0, IF leg.opt = "CE" THEN price - leg.strike ELSE leg.strike - price})

Payoff(legs, price) ==
  SumFunction([i \in 1..Len(legs) |->
     (IF legs[i].act = "BUY" THEN 1 ELSE -1)
       * (Intrinsic(legs[i], price) - legs[i].premium) * legs[i].quantity])

\* The payoff is linear between the strikes and beyond the last, so these
\* prices show its extremes and whether it rises for ever.
Prices  == 0..MaxStrike + 1
Payoffs == {Payoff(resp.legs, s) : s \in Prices}
Rising  == Payoff(resp.legs, MaxStrike + 1) > Payoff(resp.legs, MaxStrike)

\* The shapes the formulas are written for: the put of a strangle not above
\* its call, a butterfly with equal wings that costs something.
Regular ==
  LET k == cmd.strike IN
  CASE cmd.strategy = "strangle"  -> k[1] <= k[2]
    [] cmd.strategy = "butterfly" -> /\ k[2] - k[1] = k[3] - k[2]
                                     /\ NetPremium(resp.legs) <= 0
    [] OTHER -> TRUE

\* The outermost strikes of a strategy with bounded profit; a breakeven
\* outside them is none.
Between(price) ==
  IF Unlimited(cmd.strategy) THEN price >= 0
  ELSE price \in cmd.strike[1]..cmd.strike[Reads(cmd.strategy)]

\* For a regular shape, at any premiums (also ones no arbitrageur would leave)
\* and for any number of lots, the response tells the truth about the legs it
\* lists: maximum profit and loss are the extremes of their payoff at expiry,
\* profit is called unlimited exactly when the payoff rises for ever, the
\* payoff at each breakeven between the outer strikes is zero (if the legs
\* can earn anything at all, else there is none), and the cash at the opening
\* is the loss of a debit and the profit of a credit.
\* options_strategy.go: four switch statements and two quantities (lots with
\* and without the leg's multiplier) have to agree for this.
MetricsMatchPayoff ==
  stage = "built" /\ Regular =>
    LET m == resp.metrics IN
    /\ m.maxLoss = -Min(Payoffs)
    /\ m.unlimited = Rising
    /\ ~m.unlimited => m.maxProfit = Max(Payoffs)
    /\ \A i \in 1..Len(m.breakevens) :
          Between(m.breakevens[i]) /\ m.maxProfit >= 0
            => Payoff(resp.legs, m.breakevens[i]) = 0
    /\ resp.netPremium = IF Credit(cmd.strategy) THEN m.maxProfit ELSE -m.maxLoss

\* The maximum loss shown is never below what the legs can lose, irregular
\* strangles and credit butterflies included: the one shape it understates is
\* a butterfly whose upper wing is the wider one, since applyStrategyMetrics
\* looks at the lower wing only.
LossNeverUnderstated ==
  stage = "built" =>
    \/ resp.metrics.maxLoss >= -Min(Payoffs)
    \/ /\ cmd.strategy = "butterfly"
       /\ cmd.strike[3] - cmd.strike[2] > cmd.strike[2] - cmd.strike[1]

=============================================================================
