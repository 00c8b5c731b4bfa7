----------------------------- MODULE TierMapping -----------------------------
(***************************************************************************)
(* knowledge-base/tier-mapping.ts: the tiers of five providers, and the    *)
(* evaluation that places a situation in one tier of each.                 *)
(*                                                                         *)
(* A condition is named; Met says which of them hold of a situation.       *)
(* Prices are in cents.                                                    *)
(***************************************************************************)
EXTENDS TaxSituation

(* No tier is called null.                                                 *)
TierName ==
  {"Self-Employed", "Self-Employed+", "Premium", "Premier", "Deluxe", "Deluxe+",
   "Free", "Free Online"}

ASSUME NullIsNoTier == NULL \notin TierName

(* Mutant: 1099-MISC forgotten.                                            *)
NonemployeeOnly == {"1099_nec"}

SelfEmployment == {"1099_nec", "1099_misc"}
Investment     == {"1099_b", "1099_div", "1099_int"}
ItemizedTypes  == {"mortgage_interest", "charitable", "medical", "state_local_taxes"}

hasAnyIncomeType(s, types) == Types(s.incomeStreams) \cap types # {}
hasSelfEmploymentIncome(s) == hasAnyIncomeType(s, SelfEmployment)
hasInvestmentIncome(s)     == hasAnyIncomeType(s, Investment)
hasRentalIncome(s)         == hasAnyIncomeType(s, {"rental"})
hasK1Income(s)             == hasAnyIncomeType(s, {"k1"})
isMultiState(s)            == Len(s.stateResidency.additional) > 0
hasOnlyW2Income(s)         == Types(s.incomeStreams) = {"w2"}

(* The predicates that the tiers' conditions call.                         *)
InvestmentRentalOrK1(s) ==
  hasInvestmentIncome(s) \/ hasRentalIncome(s) \/ hasK1Income(s)
ComplexIncome(s)     == hasSelfEmploymentIncome(s) \/ InvestmentRentalOrK1(s)
ItemizedDeduction(s) == Types(s.deductions) \cap ItemizedTypes # {}

(* The conditions by name, as a function of the situation.                 *)
Met(s) ==
  [always          |-> TRUE,
   self_employment |-> hasSelfEmploymentIncome(s),
   investment_etc  |-> InvestmentRentalOrK1(s),
   complex_income  |-> ComplexIncome(s),
   itemized        |-> ItemizedDeduction(s),
   only_w2         |-> hasOnlyW2Income(s),
   simple          |-> hasOnlyW2Income(s) \/ ~ ComplexIncome(s),
   k1              |-> hasK1Income(s),
   upgrade         |-> ComplexIncome(s) \/ isMultiState(s)]

(* Every tier has one qualifying condition and a list of disqualifying     *)
(* ones.                                                                   *)
Tier(name, federal, state, qualifying, disqualifying) ==
  [tierName |-> name, federalPrice |-> federal, statePrice |-> state,
   qualifying |-> qualifying, disqualifying |-> disqualifying]

turboTax ==
  << Tier("Self-Employed", 12900, 5900, "self_employment", <<>>),
     Tier("Premium", 12900, 5900, "investment_etc", <<"self_employment">>),
     Tier("Deluxe", 6900, 5900, "itemized", <<"complex_income">>),
     Tier("Free", 0, 0, "only_w2", <<"complex_income", "itemized">>) >>

hrBlock ==
  << Tier("Self-Employed", 11000, 3700, "self_employment", <<>>),
     Tier("Premium", 8500, 3700, "investment_etc", <<"self_employment">>),
     Tier("Deluxe", 5500, 3700, "itemized", <<"complex_income">>),
     Tier("Free Online", 0, 0, "simple", <<"complex_income", "itemized">>) >>

(* Mutant: the prices of the two upper tiers swapped.                      *)
taxActSwapped ==
  << Tier("Self-Employed+", 7999, 5499, "self_employment", <<>>),
     Tier("Premier", 9999, 5499, "investment_etc", <<"self_employment">>),
     Tier("Deluxe+", 4999, 5499, "itemized", <<"complex_income">>),
     Tier("Free", 0, 3999, "simple", <<"complex_income", "itemized">>) >>

taxAct ==
  << Tier("Self-Employed+", 9999, 5499, "self_employment", <<>>),
     Tier("Premier", 7999, 5499, "investment_etc", <<"self_employment">>),
     Tier("Deluxe+", 4999, 5499, "itemized", <<"complex_income">>),
     Tier("Free", 0, 3999, "simple", <<"complex_income", "itemized">>) >>

freeTaxUSA ==
  << Tier("Deluxe", 0, 1499, "upgrade", <<>>),
     Tier("Free", 0, 1499, "always", <<>>) >>

cashAppTaxes == << Tier("Free", 0, 0, "always", <<"k1">>) >>

providers ==
  [turbotax   |-> turboTax,
   hrblock    |-> hrBlock,
   taxact     |-> taxAct,
   freetaxusa |-> freeTaxUSA,
   cashapp    |-> cashAppTaxes]

(* The index of the first of the conditions that holds; 0: none.           *)
FirstMet(conditions, met) == SelectInSeq(conditions, LAMBDA c : met[c])

(* Tiers from the most complex to the simplest: the first that nothing     *)
(* disqualifies and whose condition holds, with the conditions that        *)
(* disqualified the tiers looked at before it.                             *)
Placement(tiers, met) ==
  LET Disqualified(t) == FirstMet(t.disqualifying, met) # 0
      Matches(t)      == ~ Disqualified(t) /\ met[t.qualifying]
      match == SelectInSeq(tiers, Matches)
      seen  == IF match = 0 THEN tiers ELSE SubSeq(tiers, 1, match)
      out   == SelectSeq(seen, Disqualified)
  IN  [matchedTier  |-> IF match = 0 THEN NULL ELSE tiers[match].tierName,
       federalPrice |-> IF match = 0 THEN NULL ELSE tiers[match].federalPrice,
       statePrice   |-> IF match = 0 THEN NULL ELSE tiers[match].statePrice,
       disqualifiedBy |->
         [i \in 1 .. Len(out) |->
            <<out[i].tierName,
              out[i].disqualifying[FirstMet(out[i].disqualifying, met)]>>]]

evaluateTierPlacement(s) ==
  [p \in DOMAIN providers |-> Placement(providers[p], Met(s))]
=============================================================================
