---------------------------- MODULE FilingProofs ----------------------------
(***************************************************************************)
(* Proofs about the way of a return: what the knowledge base makes of a    *)
(* document (Evaluation), for every document that the server can hold;     *)
(* what becomes of a form (SituationForm), for whatever it is opened on    *)
(* and however often it is edited; what the tabs show that an              *)
(* administrator watches it from (Panels), for every number of requests    *)
(* on their way, answered in any order.                                    *)
(*                                                                         *)
(* Sums, filters and rounds are recursive functions; what they compute is  *)
(* shown of the least number at which it would fail.                       *)
(***************************************************************************)
EXTENDS Evaluation, SituationForm, Panels, FiniteSetTheorems, SequenceTheorems, WellFoundedInduction, TLAPS

(* Every set of numbers has a smallest one.                                *)
LEMMA SmallestNumber ==
  ASSUME NEW S \in SUBSET Nat, S # {}
  PROVE  Min(S) \in S /\ \A k \in S : Min(S) <= k
<1>1. PICK m \in S : \A k \in S : <<k, m>> \notin OpToRel(<, Nat)
  BY WFMin, NatLessThanWellFounded, Zenon
<1>2. ASSUME NEW k \in S PROVE m <= k
  <2>1. <<k, m>> \in Nat \X Nat /\ <<k, m>>[1] = k /\ <<k, m>>[2] = m
    OBVIOUS
  <2>2. ~ (k < m)
    BY <1>1, <2>1, Zenon DEF OpToRel
  <2> QED BY <2>2
<1> QED BY <1>2 DEF Min

(* A tier is disqualified iff one of its conditions holds.                 *)
LEMMA FirstMetFinds ==
  ASSUME NEW conditions, Len(conditions) \in Nat, NEW met
  PROVE  FirstMet(conditions, met) = 0 <=> \A i \in 1 .. Len(conditions) : ~ met[conditions[i]]
<1> DEFINE I == {i \in 1 .. Len(conditions) : met[conditions[i]]}
<1>1. FirstMet(conditions, met) = IF I # {} THEN Min(I) ELSE 0
  BY DEF FirstMet, SelectInSeq
<1>2. I # {} => Min(I) \in I
  BY SmallestNumber
<1> QED BY <1>1, <1>2

(* The first tier that fits is the one that is placed.                     *)
LEMMA PlacedTier ==
  ASSUME NEW tiers, Len(tiers) \in Nat, NEW met
  PROVE  LET fitting == Fitting(tiers, met)
         IN  /\ fitting = {} => /\ Placement(tiers, met).matchedTier = NULL
                                /\ Placement(tiers, met).federalPrice = NULL
             /\ fitting # {} => /\ Placement(tiers, met).matchedTier = tiers[Min(fitting)].tierName
                                /\ Placement(tiers, met).federalPrice = tiers[Min(fitting)].federalPrice
                                /\ Min(fitting) \in fitting
                                /\ \A i \in fitting : Min(fitting) <= i
<1> DEFINE fitting == Fitting(tiers, met)
<1>1. fitting = {i \in 1 .. Len(tiers) :
                   ~ (FirstMet(tiers[i].disqualifying, met) # 0) /\ met[tiers[i].qualifying]}
  BY DEF Fitting
<1>2. fitting # {} => /\ Min(fitting) \in fitting
                      /\ \A i \in fitting : Min(fitting) <= i
  <2>1. fitting \in SUBSET Nat
    BY <1>1
  <2> HIDE DEF fitting
  <2> QED BY <2>1, SmallestNumber
<1>3. /\ Placement(tiers, met).matchedTier = IF fitting = {} THEN NULL ELSE tiers[Min(fitting)].tierName
      /\ Placement(tiers, met).federalPrice = IF fitting = {} THEN NULL ELSE tiers[Min(fitting)].federalPrice
  BY <1>1, <1>2 DEF Placement, SelectInSeq
<1> QED BY <1>2, <1>3

-----------------------------------------------------------------------------
(* The forms of the taxonomy.                                              *)
LEMMA FormIds ==
  FormId = {"form_1040", "w_2", "schedule_c", "schedule_se", "schedule_d", "form_8949",
            "schedule_e", "schedule_a", "schedule_b", "form_1099div", "form_1099int",
            "state_return"}
  BY DEF FormId, FORM_TAXONOMY

(* There are finitely many.                                                *)
LEMMA FormIdsAreFinite == IsFiniteSet(FormId)
<1>1. ASSUME NEW a, NEW b, NEW c, NEW d PROVE IsFiniteSet({a, b, c, d})
  <2>1. IsFiniteSet({a}) /\ IsFiniteSet({a} \cup {b})
    BY FS_Singleton, FS_AddElement, Zenon
  <2>2. IsFiniteSet((({a} \cup {b}) \cup {c}) \cup {d})
    BY <2>1, FS_AddElement, Zenon
  <2>3. (({a} \cup {b}) \cup {c}) \cup {d} = {a, b, c, d}
    OBVIOUS
  <2> QED BY <2>2, <2>3
<1>2. FormId = ({"form_1040", "w_2", "schedule_c", "schedule_se"}
                 \cup {"schedule_d", "form_8949", "schedule_e", "schedule_a"})
               \cup {"schedule_b", "form_1099div", "form_1099int", "state_return"}
  BY FormIds
<1> QED BY <1>1, <1>2, FS_Union

(* Which lines trigger which form.                                         *)
LEMMA Triggers ==
  ASSUME NEW s
  PROVE  LET income == Types(s.incomeStreams)
             deductions == Types(s.deductions)
         IN  /\ isTriggered("form_1040", s) /\ isTriggered("state_return", s)
             /\ isTriggered("w_2", s) <=> "w2" \in income
             /\ isTriggered("schedule_c", s) <=> income \cap SelfEmployment # {}
             /\ isTriggered("schedule_se", s) <=> income \cap SelfEmployment # {}
             /\ isTriggered("schedule_d", s) <=> "1099_b" \in income
             /\ isTriggered("form_8949", s) <=> "1099_b" \in income
             /\ isTriggered("schedule_e", s) <=> income \cap {"rental", "k1"} # {}
             /\ isTriggered("schedule_a", s) <=> deductions \cap ItemizedTypes # {}
             /\ isTriggered("schedule_b", s) <=> income \cap {"1099_int", "1099_div"} # {}
             /\ isTriggered("form_1099div", s) <=> "1099_div" \in income
             /\ isTriggered("form_1099int", s) <=> "1099_int" \in income
<1> DEFINE income == Types(s.incomeStreams)
           deductions == Types(s.deductions)
<1>1. \A types : evaluateRule(Income(types), s) <=> income \cap types # {}
  BY DEF evaluateRule, Income, AnyOf, resolveField
<1>2. \A types : evaluateRule(AnyOf("deductions[].type", types), s) <=> deductions \cap types # {}
  BY DEF evaluateRule, AnyOf, resolveField
<1>3. \A field \in {"filingStatus", "stateResidency.primary"} : evaluateRule(Present(field), s)
  BY DEF evaluateRule, Present, resolveField
<1> QED BY <1>1, <1>2, <1>3 DEF isTriggered, FORM_TAXONOMY, Form, SelfEmployment, ItemizedTypes

(* The forms that some line of the situation triggers.                     *)
Triggered(s) == {f \in FormId : isTriggered(f, s)}

(* Whatever a triggered form depends on is triggered with it.              *)
LEMMA TriggeredAreClosed ==
  ASSUME NEW s, NEW f \in Triggered(s)
  PROVE  FORM_TAXONOMY[f].dependencies \subseteq Triggered(s)
<1>1. FORM_TAXONOMY["form_1040"].dependencies = {}
  BY DEF FORM_TAXONOMY, Form
<1>2. /\ FORM_TAXONOMY["schedule_se"].dependencies = {"schedule_c"}
      /\ FORM_TAXONOMY["form_8949"].dependencies = {"schedule_d"}
  BY DEF FORM_TAXONOMY, Form
<1>3. \A g \in FormId \ {"form_1040", "schedule_se", "form_8949"} :
        FORM_TAXONOMY[g].dependencies = {"form_1040"}
  BY FormIds DEF FORM_TAXONOMY, Form
<1> QED BY <1>1, <1>2, <1>3, Triggers, FormIds DEF Triggered

(* So the first round has found all of them.                               *)
LEMMA RequiredForms ==
  ASSUME NEW s
  PROVE  getRequiredForms(s) = Triggered(s)
<1> DEFINE N == Cardinality(FormId)
           Round(round) ==
             round = [n \in 0 .. N |->
                        IF n = 0 THEN {f \in FormId : isTriggered(f, s)}
                        ELSE round[n - 1] \cup
                               UNION {FORM_TAXONOMY[f].dependencies : f \in round[n - 1]}]
<1>1. N \in Nat
  BY FormIdsAreFinite, FS_CardinalityType
<1>2. getRequiredForms(s) = (CHOOSE round : Round(round))[N]
  BY DEF getRequiredForms
<1>3. Round([n \in 0 .. N |-> Triggered(s)])
  <2>1. Triggered(s) \cup UNION {FORM_TAXONOMY[f].dependencies : f \in Triggered(s)} = Triggered(s)
    BY TriggeredAreClosed
  <2>2. \A n \in 0 .. N : n # 0 => n - 1 \in 0 .. N
    BY <1>1
  <2> HIDE DEF N
  <2> QED BY <2>1, <2>2 DEF Triggered
<1> DEFINE chosen == CHOOSE round : Round(round)
<1>4. Round(chosen)
  BY <1>3
<1>5. \A n \in Nat : n \in 0 .. N => chosen[n] = Triggered(s)
  <2> SUFFICES ASSUME \E n \in 0 .. N : chosen[n] # Triggered(s) PROVE FALSE
    BY <1>1
  <2> DEFINE Other == {n \in 0 .. N : chosen[n] # Triggered(s)}
  <2> HIDE DEF chosen, N
  <2>1. PICK m \in Other : \A k \in Other : m <= k
    <3>1. Other \in SUBSET Nat /\ Other # {}
      BY <1>1
    <3> HIDE DEF Other
    <3> QED BY <3>1, SmallestNumber
  <2>2. m = 0 => chosen[m] = Triggered(s)
    BY <1>1, <1>4 DEF Triggered
  <2>3. m # 0 => chosen[m - 1] = Triggered(s)
    BY <1>1, <2>1
  <2>4. m # 0 => chosen[m] = chosen[m - 1] \cup
                   UNION {FORM_TAXONOMY[f].dependencies : f \in chosen[m - 1]}
    BY <1>1, <1>4, <2>1
  <2> QED BY <2>1, <2>2, <2>3, <2>4, TriggeredAreClosed
<1> HIDE DEF chosen
<1> QED BY <1>1, <1>2, <1>5 DEF chosen

-----------------------------------------------------------------------------
(* The tiers of a provider that gates by complexity: three upper tiers     *)
(* alike, and a free one with a condition of its own.                      *)
IsLadder(tiers, basic) ==
  /\ Len(tiers) = 4
  /\ tiers[1].qualifying = "self_employment" /\ tiers[1].disqualifying = <<>>
  /\ tiers[2].qualifying = "investment_etc"  /\ tiers[2].disqualifying = <<"self_employment">>
  /\ tiers[3].qualifying = "itemized"        /\ tiers[3].disqualifying = <<"complex_income">>
  /\ tiers[4].qualifying = basic
  /\ tiers[4].disqualifying = <<"complex_income", "itemized">>

(* The sets of names that the properties use tell the tiers apart.         *)
IsNamed(tiers) ==
  /\ tiers[1].tierName \in SelfEmployedTier \ (FreeTier \cup DeluxeTier)
  /\ tiers[2].tierName \notin SelfEmployedTier \cup FreeTier \cup DeluxeTier
  /\ tiers[3].tierName \in DeluxeTier \ (SelfEmployedTier \cup FreeTier)
  /\ tiers[4].tierName \in FreeTier \ (SelfEmployedTier \cup DeluxeTier)

(* Each tier is at least as dear as the next.                              *)
IsPriced(tiers) ==
  /\ \A i \in {1, 2, 3, 4} : tiers[i].federalPrice \in Int
  /\ tiers[4].federalPrice <= tiers[3].federalPrice
  /\ tiers[3].federalPrice <= tiers[2].federalPrice
  /\ tiers[2].federalPrice <= tiers[1].federalPrice

(* The condition of the free tier.                                         *)
Basic == [turbotax |-> "only_w2", hrblock |-> "simple", taxact |-> "simple"]

(* The provers take a word with a space in it for an opaque name.          *)
FreeOnline == "Free Online"

(* The tiers of the three gating providers, as tier-mapping.ts lists them. *)
LEMMA Ladders ==
  ASSUME NEW p \in GatingProviders
  PROVE  IsLadder(providers[p], Basic[p]) /\ IsNamed(providers[p]) /\ IsPriced(providers[p])
<1>1. /\ FreeTier = {"Free", FreeOnline}
      /\ FreeOnline \notin {"Self-Employed", "Self-Employed+", "Premium", "Premier",
                          "Deluxe", "Deluxe+"}
  BY Zenon DEF FreeTier, FreeOnline
<1>2. hrBlock = << Tier("Self-Employed", 11000, 3700, "self_employment", <<>>),
                   Tier("Premium", 8500, 3700, "investment_etc", <<"self_employment">>),
                   Tier("Deluxe", 5500, 3700, "itemized", <<"complex_income">>),
                   Tier(FreeOnline, 0, 0, "simple", <<"complex_income", "itemized">>) >>
  BY DEF hrBlock, FreeOnline
<1>3. IsLadder(turboTax, "only_w2") /\ IsNamed(turboTax) /\ IsPriced(turboTax)
  <2>1. IsLadder(turboTax, "only_w2")
    BY SMT DEF IsLadder, Tier, turboTax
  <2>2. IsNamed(turboTax)
    BY <1>1, SMT DEF IsNamed, Tier, SelfEmployedTier, DeluxeTier, turboTax
  <2>3. IsPriced(turboTax)
    BY SMT DEF IsPriced, Tier, turboTax
  <2> QED BY <2>1, <2>2, <2>3
<1>4. IsLadder(taxAct, "simple") /\ IsNamed(taxAct) /\ IsPriced(taxAct)
  <2>1. IsLadder(taxAct, "simple")
    BY SMT DEF IsLadder, Tier, taxAct
  <2>2. IsNamed(taxAct)
    BY <1>1, SMT DEF IsNamed, Tier, SelfEmployedTier, DeluxeTier, taxAct
  <2>3. IsPriced(taxAct)
    BY SMT DEF IsPriced, Tier, taxAct
  <2> QED BY <2>1, <2>2, <2>3
<1>5. IsLadder(hrBlock, "simple") /\ IsNamed(hrBlock) /\ IsPriced(hrBlock)
  <2>1. IsLadder(hrBlock, "simple")
    BY <1>1, <1>2, SMT DEF IsLadder, Tier
  <2>2. IsNamed(hrBlock)
    BY <1>1, <1>2, SMT DEF IsNamed, Tier, SelfEmployedTier, DeluxeTier
  <2>3. IsPriced(hrBlock)
    BY <1>1, <1>2, SMT DEF IsPriced, Tier
  <2> QED BY <2>1, <2>2, <2>3
<1> QED BY <1>3, <1>4, <1>5 DEF GatingProviders, providers, Basic

(* The rung that a situation stands on; 0: none.                           *)
Rung(s, basic) ==
  IF hasSelfEmploymentIncome(s) THEN 1
  ELSE IF InvestmentRentalOrK1(s) THEN 2
  ELSE IF ItemizedDeduction(s) THEN 3
  ELSE IF Met(s)[basic] THEN 4 ELSE 0

(* It is the only one that fits.                                           *)
LEMMA LadderFits ==
  ASSUME NEW s, NEW basic, NEW tiers, IsLadder(tiers, basic)
  PROVE  Fitting(tiers, Met(s)) = {Rung(s, basic)} \ {0}
<1> DEFINE met == Met(s)
           Allowed(i) == FirstMet(tiers[i].disqualifying, met) = 0
<1>1. /\ met["self_employment"] = hasSelfEmploymentIncome(s)
      /\ met["investment_etc"] = InvestmentRentalOrK1(s)
      /\ met["complex_income"] = (hasSelfEmploymentIncome(s) \/ InvestmentRentalOrK1(s))
      /\ met["itemized"] = ItemizedDeduction(s)
  BY DEF Met, ComplexIncome
<1> HIDE DEF met
<1>2. FirstMet(<<>>, met) = 0
  BY FirstMetFinds, Len(<<>>) = 0
<1>3. ASSUME NEW c PROVE FirstMet(<<c>>, met) = 0 <=> ~ met[c]
  <2> DEFINE one == <<c>>
  <2>1. Len(one) = 1 /\ one[1] = c
    OBVIOUS
  <2> HIDE DEF one
  <2>2. FirstMet(one, met) = 0 <=> \A i \in 1 .. 1 : ~ met[one[i]]
    BY <2>1, FirstMetFinds
  <2>3. 1 .. 1 = {1}
    OBVIOUS
  <2>4. FirstMet(one, met) = 0 <=> ~ met[c]
    BY <2>1, <2>2, <2>3
  <2> QED BY <2>4 DEF one
<1>4. ASSUME NEW c, NEW d
      PROVE FirstMet(<<c, d>>, met) = 0 <=> ~ met[c] /\ ~ met[d]
  <2> DEFINE both == <<c, d>>
  <2>1. Len(both) = 2 /\ both[1] = c /\ both[2] = d
    OBVIOUS
  <2> HIDE DEF both
  <2>2. FirstMet(both, met) = 0 <=> \A i \in 1 .. 2 : ~ met[both[i]]
    BY <2>1, FirstMetFinds
  <2>3. 1 .. 2 = {1, 2}
    OBVIOUS
  <2>4. FirstMet(both, met) = 0 <=> ~ met[c] /\ ~ met[d]
    BY <2>1, <2>2, <2>3
  <2> QED BY <2>4 DEF both
<1>5. /\ Allowed(1)
      /\ Allowed(2) <=> ~ met["self_employment"]
      /\ Allowed(3) <=> ~ met["complex_income"]
      /\ Allowed(4) <=> ~ met["complex_income"] /\ ~ met["itemized"]
  <2>1. /\ Allowed(1) <=> FirstMet(<<>>, met) = 0
        /\ Allowed(2) <=> FirstMet(<<"self_employment">>, met) = 0
        /\ Allowed(3) <=> FirstMet(<<"complex_income">>, met) = 0
        /\ Allowed(4) <=> FirstMet(<<"complex_income", "itemized">>, met) = 0
    BY Zenon DEF IsLadder
  <2> HIDE DEF Allowed
  <2>2. FirstMet(<<"self_employment">>, met) = 0 <=> ~ met["self_employment"]
    BY <1>3
  <2>3. FirstMet(<<"complex_income">>, met) = 0 <=> ~ met["complex_income"]
    BY <1>3
  <2>4. FirstMet(<<"complex_income", "itemized">>, met) = 0
          <=> ~ met["complex_income"] /\ ~ met["itemized"]
    BY <1>4
  <2> QED BY <1>2, <2>1, <2>2, <2>3, <2>4, Zenon
<1>6. Fitting(tiers, met) = {i \in {1, 2, 3, 4} : met[tiers[i].qualifying] /\ Allowed(i)}
  <2>1. 1 .. Len(tiers) = {1, 2, 3, 4}
    BY DEF IsLadder
  <2> QED BY <2>1 DEF Fitting
<1> HIDE DEF Allowed
<1>7. /\ 1 \in Fitting(tiers, met) <=> hasSelfEmploymentIncome(s)
      /\ 2 \in Fitting(tiers, met) <=> ~ hasSelfEmploymentIncome(s) /\ InvestmentRentalOrK1(s)
      /\ 3 \in Fitting(tiers, met) <=>
           ~ hasSelfEmploymentIncome(s) /\ ~ InvestmentRentalOrK1(s) /\ ItemizedDeduction(s)
      /\ 4 \in Fitting(tiers, met) <=>
           /\ ~ hasSelfEmploymentIncome(s) /\ ~ InvestmentRentalOrK1(s)
           /\ ~ ItemizedDeduction(s) /\ met[basic]
  BY <1>1, <1>5, <1>6 DEF IsLadder
<1>8. Fitting(tiers, met) \subseteq {1, 2, 3, 4}
  BY <1>6
<1> QED BY <1>7, <1>8 DEF Rung, met

(* So it is the one that is placed.                                        *)
LEMMA LadderPlaces ==
  ASSUME NEW s, NEW p \in GatingProviders
  PROVE  LET rung   == Rung(s, Basic[p])
             placed == Placement(providers[p], Met(s))
         IN  /\ rung \in 0 .. 4
             /\ rung = 0 => placed.matchedTier = NULL /\ placed.federalPrice = NULL
             /\ rung # 0 => /\ placed.matchedTier = providers[p][rung].tierName
                            /\ placed.federalPrice = providers[p][rung].federalPrice
<1> DEFINE rung == Rung(s, Basic[p])
           tiers == providers[p]
<1>1. rung \in 0 .. 4
  BY DEF Rung
<1>2. Fitting(tiers, Met(s)) = {rung} \ {0} /\ Len(tiers) = 4
  BY Ladders, LadderFits DEF IsLadder
<1> HIDE DEF rung, tiers
<1>3. rung # 0 => Min(Fitting(tiers, Met(s))) = rung
  <2> SUFFICES ASSUME rung # 0 PROVE Min(Fitting(tiers, Met(s))) = rung
    OBVIOUS
  <2>1. Fitting(tiers, Met(s)) = {rung} /\ Fitting(tiers, Met(s)) # {}
    BY <1>2
  <2>2. Min(Fitting(tiers, Met(s))) \in Fitting(tiers, Met(s))
    <3>1. {rung} \in SUBSET Nat /\ {rung} # {}
      BY <1>1
    <3> QED BY <2>1, <3>1, SmallestNumber
  <2> QED BY <2>1, <2>2
<1>4. /\ rung = 0 => /\ Placement(tiers, Met(s)).matchedTier = NULL
                     /\ Placement(tiers, Met(s)).federalPrice = NULL
      /\ rung # 0 => /\ Placement(tiers, Met(s)).matchedTier = tiers[rung].tierName
                     /\ Placement(tiers, Met(s)).federalPrice = tiers[rung].federalPrice
  BY <1>1, <1>2, <1>3, PlacedTier
<1> QED BY <1>1, <1>4 DEF rung, tiers

(* Cash App places every situation without a K-1.                          *)
LEMMA CashAppPlaces ==
  ASSUME NEW s, Placement(providers["cashapp"], Met(s)).matchedTier = NULL
  PROVE  hasK1Income(s)
<1> DEFINE tiers == providers["cashapp"]
           met == Met(s)
<1>1. /\ Len(tiers) = 1 /\ tiers[1].tierName = "Free"
      /\ tiers[1].qualifying = "always" /\ tiers[1].disqualifying = <<"k1">>
  BY DEF providers, cashAppTaxes, Tier
<1>2. met["always"] /\ met["k1"] = hasK1Income(s)
  BY DEF Met
<1> HIDE DEF tiers, met
<1>3. ~ hasK1Income(s) => FirstMet(tiers[1].disqualifying, met) = 0
  <2> DEFINE list == <<"k1">>
  <2>1. Len(list) = 1 /\ list[1] = "k1"
    OBVIOUS
  <2> HIDE DEF list
  <2>2. FirstMet(list, met) = 0 <=> \A i \in 1 .. 1 : ~ met[list[i]]
    BY <2>1, FirstMetFinds
  <2>3. ~ hasK1Income(s) => FirstMet(list, met) = 0
    BY <1>2, <2>1, <2>2
  <2> QED BY <1>1, <2>3 DEF list
<1>4. ~ hasK1Income(s) => 1 \in Fitting(tiers, met)
  BY <1>1, <1>2, <1>3 DEF Fitting
<1>5. Fitting(tiers, met) \subseteq {1}
  BY <1>1 DEF Fitting
<1>6. NULL # "Free"
  BY NullIsNoTier, Zenon DEF TierName
<1>7. Fitting(tiers, met) # {} => Placement(tiers, met).matchedTier = "Free"
  BY <1>1, <1>5, PlacedTier
<1> QED BY <1>4, <1>6, <1>7 DEF tiers, met

(* One rung, and the forms that go with it.                                *)
LEMMA RungOfForms ==
  ASSUME NEW s, NEW basic \in {"only_w2", "simple"}
  PROVE  LET forms == Triggered(s)
             rung == Rung(s, basic)
         IN  /\ rung = 1 <=> "schedule_se" \in forms
             /\ rung = 4 => forms \subseteq ScheduleFree
             /\ forms \subseteq ScheduleFree \cup {"schedule_a"}
                  => (rung = 3 <=> "schedule_a" \in forms)
<1> DEFINE forms == Triggered(s)
           income == Types(s.incomeStreams)
<1>1. /\ hasSelfEmploymentIncome(s) <=> income \cap SelfEmployment # {}
      /\ InvestmentRentalOrK1(s) <=>
           income \cap {"1099_b", "1099_div", "1099_int", "rental", "k1"} # {}
      /\ ItemizedDeduction(s) <=> Types(s.deductions) \cap ItemizedTypes # {}
  BY DEF hasSelfEmploymentIncome, InvestmentRentalOrK1, ItemizedDeduction, hasInvestmentIncome,
         hasRentalIncome, hasK1Income, hasAnyIncomeType, Investment
<1>2. /\ "schedule_se" \in forms <=> hasSelfEmploymentIncome(s)
      /\ "schedule_c" \in forms <=> hasSelfEmploymentIncome(s)
      /\ "schedule_a" \in forms <=> ItemizedDeduction(s)
      /\ \/ "schedule_d" \in forms \/ "schedule_e" \in forms \/ "schedule_b" \in forms
         <=> InvestmentRentalOrK1(s)
      /\ forms \cap {"form_8949", "form_1099div", "form_1099int"} # {} => InvestmentRentalOrK1(s)
  BY <1>1, Triggers, FormIds DEF Triggered
<1>3. forms \subseteq {"form_1040", "w_2", "schedule_c", "schedule_se", "schedule_d", "form_8949",
            "schedule_e", "schedule_a", "schedule_b", "form_1099div", "form_1099int",
            "state_return"}
  BY FormIds DEF Triggered
<1> HIDE DEF forms
<1> QED BY <1>2, <1>3 DEF Rung, ScheduleFree, forms

(* A set with at most one element has no more.                             *)
LEMMA AtMostOne ==
  ASSUME NEW S, \A x, y \in S : x = y
  PROVE  IsFiniteSet(S) /\ Cardinality(S) <= 1
<1>1. CASE S = {}
  BY <1>1, FS_EmptySet
<1>2. ASSUME NEW x \in S PROVE IsFiniteSet(S) /\ Cardinality(S) <= 1
  <2>1. S = {x}
    BY <1>2
  <2>2. IsFiniteSet({x}) /\ Cardinality({x}) = 1
    BY FS_Singleton
  <2> QED BY <2>1, <2>2
<1> QED BY <1>1, <1>2

(* The tiers of every provider agree with the forms: knowledge-base/       *)
(* tier-mapping.ts and form-taxonomy.ts, for every document.               *)
THEOREM TiersAgree == EvaluationSpec => []TiersAgreeWithForms
<1>1. TiersAgreeWithForms
  <2> SUFFICES ASSUME Stored PROVE TiersAgreeWithForms
    BY DEF TiersAgreeWithForms
  <2> DEFINE s == situation_data
             forms == Review.formsRequired
  <2>1. forms = Triggered(s)
    BY RequiredForms DEF Review, ValidateReturn, Stored, validate
  <2>2. \A p \in DOMAIN providers : Tiers[p] = Placement(providers[p], Met(s))
    BY DEF Tiers, TierEvaluate, Stored, evaluateTierPlacement
  <2>3. "cashapp" \in DOMAIN providers /\ GatingProviders \subseteq DOMAIN providers
    BY DEF providers, GatingProviders
  <2>4. ASSUME NEW p \in GatingProviders
        PROVE  Cardinality(Fitting(providers[p], Met(s))) <= 1
    <3>1. Fitting(providers[p], Met(s)) = {Rung(s, Basic[p])} \ {0}
      BY Ladders, LadderFits
    <3> QED BY <3>1, AtMostOne
  <2>5. ASSUME NEW p \in GatingProviders
        PROVE  LET tier == Tiers[p].matchedTier
               IN  /\ tier \in SelfEmployedTier <=> "schedule_se" \in forms
                   /\ tier \in FreeTier => forms \subseteq ScheduleFree
                   /\ forms \subseteq ScheduleFree \cup {"schedule_a"}
                        => (tier \in DeluxeTier <=> "schedule_a" \in forms)
    <3> DEFINE tier == Tiers[p].matchedTier
               rung == Rung(s, Basic[p])
    <3>1. /\ rung \in 0 .. 4
          /\ rung = 0 => tier = NULL
          /\ rung # 0 => tier = providers[p][rung].tierName
      BY <2>2, <2>3, LadderPlaces
    <3>2. NULL \notin SelfEmployedTier \cup FreeTier \cup DeluxeTier
      BY NullIsNoTier, Zenon DEF TierName, SelfEmployedTier, FreeTier, DeluxeTier
    <3>3. /\ tier \in SelfEmployedTier <=> rung = 1
          /\ tier \in FreeTier <=> rung = 4
          /\ tier \in DeluxeTier <=> rung = 3
      BY <3>1, <3>2, Ladders DEF IsNamed
    <3>4. Basic[p] \in {"only_w2", "simple"}
      BY DEF Basic, GatingProviders
    <3> HIDE DEF rung, tier
    <3>5. /\ rung = 1 <=> "schedule_se" \in forms
          /\ rung = 4 => forms \subseteq ScheduleFree
          /\ forms \subseteq ScheduleFree \cup {"schedule_a"}
               => (rung = 3 <=> "schedule_a" \in forms)
      BY <2>1, <3>4, RungOfForms DEF rung
    <3> QED BY <3>3, <3>5 DEF tier
  <2>6. Tiers["cashapp"].matchedTier = NULL => "schedule_e" \in forms
    <3>1. hasK1Income(s) => isTriggered("schedule_e", s)
      BY Triggers DEF hasK1Income, hasAnyIncomeType
    <3> QED BY <2>1, <2>2, <2>3, <3>1, CashAppPlaces, FormIds DEF Triggered
  <2> QED BY <2>4, <2>5, <2>6 DEF TiersAgreeWithForms
<1> QED BY <1>1, PTL

(* The required forms are the least set that is closed under dependencies: *)
(* getRequiredForms of form-taxonomy.ts, for every document.               *)
THEOREM FormsClosed == EvaluationSpec => []FormsAreClosed
<1>1. FormsAreClosed
  <2> SUFFICES ASSUME Stored PROVE FormsAreClosed
    BY DEF FormsAreClosed
  <2>1. Review.formsRequired = Triggered(situation_data)
    BY RequiredForms DEF Review, ValidateReturn, Stored, validate
  <2> QED BY <2>1, TriggeredAreClosed DEF FormsAreClosed, Triggered
<1> QED BY <1>1, PTL

-----------------------------------------------------------------------------
(* A sum of numbers is a number.                                           *)
LEMMA TotalIsNumber ==
  ASSUME NEW amounts, Len(amounts) \in Nat, \A i \in 1 .. Len(amounts) : amounts[i] \in Int
  PROVE  Total(amounts) \in Int
<1> DEFINE N == Len(amounts)
           Sums(acc, m) ==
             acc = [n \in 0 .. m |-> IF n = 0 THEN 0 ELSE acc[n - 1] + amounts[n]]
           chosen == CHOOSE acc : Sums(acc, N)
<1>1. Total(amounts) = chosen[N]
  BY DEF Total
<1>2. \E acc : Sums(acc, N)
  <2> DEFINE Bad == {m \in 0 .. N : ~ \E acc : Sums(acc, m)}
  <2>0. Bad \subseteq 0 .. N
    OBVIOUS
  <2>1. Bad # {} => Min(Bad) \in Bad /\ \A k \in Bad : Min(Bad) <= k
    <3>1. Bad \in SUBSET Nat
      OBVIOUS
    <3> HIDE DEF Bad
    <3> QED BY <3>1, SmallestNumber
  <2>2. ASSUME NEW m \in Bad, \A k \in Bad : m <= k PROVE FALSE
    <3>1. CASE m = 0
      <4>1. \A n \in 0 .. m : n = 0
        BY <3>1
      <4>2. Sums([n \in 0 .. m |-> 0], m)
        BY <4>1
      <4> HIDE DEF Sums
      <4> QED BY <2>2, <4>2, Zenon
    <3>2. CASE m # 0
      <4>1. m - 1 \in 0 .. N /\ m - 1 \notin Bad
        <5> HIDE DEF Bad
        <5>1. m \in 0 .. N
          BY <2>0
        <5>2. N \in Nat
          OBVIOUS
        <5> HIDE DEF N
        <5>3. m - 1 \in 0 .. N /\ ~ (m <= m - 1)
          BY <3>2, <5>1, <5>2
        <5> QED BY <2>2, <5>3
      <4>2. PICK acc : Sums(acc, m - 1)
        BY <4>1
      <4> DEFINE more == [n \in 0 .. m |-> IF n = m THEN acc[m - 1] + amounts[m] ELSE acc[n]]
      <4>3. Sums(more, m)
        <5>1. \A n \in 0 .. m : n # m => acc[n] = IF n = 0 THEN 0 ELSE acc[n - 1] + amounts[n]
          BY <4>2
        <5>2. \A n \in 0 .. m : n # 0 => n - 1 \in 0 .. m /\ n - 1 # m
          OBVIOUS
        <5>3. \A n \in 0 .. m : more[n] = IF n = 0 THEN 0 ELSE more[n - 1] + amounts[n]
          BY <3>2, <5>1, <5>2
        <5> QED BY <5>3
      <4> QED BY <4>3
    <3> QED BY <3>1, <3>2
  <2>3. N \in 0 .. N /\ N \notin Bad
    <3>1. N \in 0 .. N
      OBVIOUS
    <3> HIDE DEF Bad
    <3> QED BY <2>1, <2>2, <3>1
  <2> HIDE DEF Sums
  <2> QED BY <2>3
<1>3. Sums(chosen, N)
  BY <1>2
<1>4. \A m \in 0 .. N : chosen[m] \in Int
  <2> DEFINE Bad == {m \in 0 .. N : chosen[m] \notin Int}
  <2> HIDE DEF chosen
  <2>1. Bad # {} => Min(Bad) \in Bad /\ \A k \in Bad : Min(Bad) <= k
    <3>1. Bad \in SUBSET Nat
      OBVIOUS
    <3> HIDE DEF Bad
    <3> QED BY <3>1, SmallestNumber
  <2>2. ASSUME NEW m \in Bad, \A k \in Bad : m <= k PROVE FALSE
    <3>1. m = 0 => chosen[m] = 0
      BY <1>3
    <3>2. m # 0 => chosen[m] = chosen[m - 1] + amounts[m] /\ chosen[m - 1] \in Int
                   /\ amounts[m] \in Int
      BY <1>3, <2>2
    <3> QED BY <3>1, <3>2
  <2> QED BY <2>1, <2>2
<1> HIDE DEF chosen
<1> QED BY <1>1, <1>4

-----------------------------------------------------------------------------
(* A document with arrays for lists and numbers for amounts.               *)
IsDocument(doc) ==
  /\ DocumentLists \subseteq DOMAIN doc
  /\ \A list \in DocumentLists : IsArray(doc[list])
  /\ \A i \in 1 .. Len(doc.incomeStreams) : doc.incomeStreams[i].amount \in Int

(* The inductive invariant of Evaluation.                                  *)
DocumentStored == Stored => IsDocument(situation_data)

(* A sequence of anything is an array.                                     *)
LEMMA Arrays ==
  ASSUME NEW S, NEW lines \in Seq(S)
  PROVE  /\ IsArray(lines)
         /\ \A x : x \in Range(lines) <=> \E i \in 1 .. Len(lines) : x = lines[i]
<1>1. DOMAIN lines = 1 .. Len(lines) /\ Len(lines) \in Nat
  OBVIOUS
<1>2. \A i \in 1 .. Len(lines) : lines[i] \in Range(lines)
  BY <1>1 DEF Range
<1>3. lines = [i \in 1 .. Len(lines) |-> lines[i]]
  BY <1>1
<1>4. lines \in Seq(Range(lines))
  BY <1>1, <1>2, <1>3, SMT
<1> QED BY <1>1, <1>4 DEF IsArray, Range

(* A sequence with one element less.                                       *)
LEMMA RemovesOne ==
  ASSUME NEW S, NEW lines \in Seq(S), NEW i \in 1 .. Len(lines)
  PROVE  /\ RemoveAt(lines, i) \in Seq(S)
         /\ Len(RemoveAt(lines, i)) = Len(lines) - 1
         /\ \A k \in 1 .. Len(lines) - 1 :
              RemoveAt(lines, i)[k] = IF k < i THEN lines[k] ELSE lines[k + 1]
<1> DEFINE a == SubSeq(lines, 1, i - 1)
           b == SubSeq(lines, i + 1, Len(lines))
<1>1. a \in Seq(S) /\ Len(a) = i - 1 /\ \A k \in 1 .. i - 1 : a[k] = lines[k]
  OBVIOUS
<1>2. /\ b \in Seq(S) /\ Len(b) = Len(lines) - i
      /\ \A k \in 1 .. Len(lines) - i : b[k] = lines[i + k]
  OBVIOUS
<1>3. RemoveAt(lines, i) = a \o b
  BY DEF RemoveAt
<1> HIDE DEF a, b
<1>4. /\ a \o b \in Seq(S) /\ Len(a \o b) = Len(a) + Len(b)
      /\ \A k \in 1 .. Len(a) + Len(b) :
           (a \o b)[k] = IF k <= Len(a) THEN a[k] ELSE b[k - Len(a)]
  BY <1>1, <1>2, ConcatProperties
<1>5. ASSUME NEW k \in 1 .. Len(lines) - 1
      PROVE  (a \o b)[k] = IF k < i THEN lines[k] ELSE lines[k + 1]
  BY <1>1, <1>2, <1>4
<1>6. Len(a \o b) = Len(lines) - 1
  BY <1>1, <1>2, <1>4
<1> QED BY <1>3, <1>4, <1>5, <1>6

(* An edit is a document again.                                            *)
LEMMA EditsAreDocuments ==
  ASSUME NEW doc, IsDocument(doc), NEW edited \in Edits(doc)
  PROVE  IsDocument(edited)
<1>1. ASSUME NEW list \in DocumentLists, NEW lines, IsArray(lines), edited \in WithLine(doc, list, lines),
             list = "incomeStreams" => \A i \in 1 .. Len(lines) : lines[i].amount \in Int
      PROVE  IsDocument(edited)
  <2>1. PICK i \in 1 .. Len(lines) : edited = [doc EXCEPT ![list] = Append(@, lines[i])]
    BY <1>1 DEF WithLine
  <2> DEFINE more == Append(doc[list], lines[i])
  <2>2. IsArray(doc[list])
    BY DEF IsDocument
  <2>3. more \in Seq(Range(doc[list]) \cup {lines[i]})
    BY <2>2 DEF IsArray
  <2>4. IsArray(more)
    BY <2>3, Arrays
  <2>5. /\ Len(more) = Len(doc[list]) + 1 /\ Len(doc[list]) \in Nat
        /\ \A k \in 1 .. Len(doc[list]) : more[k] = doc[list][k]
        /\ more[Len(doc[list]) + 1] = lines[i]
    BY <2>2 DEF IsArray
  <2>6. list = "incomeStreams" => \A k \in 1 .. Len(more) : more[k].amount \in Int
    BY <1>1, <2>5 DEF IsDocument
  <2> HIDE DEF more
  <2>7. edited = [doc EXCEPT ![list] = more]
    BY <2>1 DEF more
  <2>8. DocumentLists \subseteq DOMAIN edited
    BY <2>7 DEF IsDocument
  <2>9. \A l \in DocumentLists : edited[l] = IF l = list THEN more ELSE doc[l]
    BY <2>7 DEF IsDocument
  <2> QED BY <2>4, <2>6, <2>8, <2>9 DEF IsDocument, DocumentLists
<1>2. ASSUME NEW list \in DocumentLists, edited \in WithoutLine(doc, list)
      PROVE  IsDocument(edited)
  <2>1. PICK i \in 1 .. Len(doc[list]) : edited = [doc EXCEPT ![list] = RemoveAt(@, i)]
    BY <1>2 DEF WithoutLine
  <2> DEFINE less == RemoveAt(doc[list], i)
  <2>2. IsArray(doc[list])
    BY DEF IsDocument
  <2>3. /\ less \in Seq(Range(doc[list]))
        /\ \A k \in 1 .. Len(less) : \E j \in 1 .. Len(doc[list]) : less[k] = doc[list][j]
    <3>1. \A k \in 1 .. Len(doc[list]) - 1 : k \in 1 .. Len(doc[list]) /\ k + 1 \in 1 .. Len(doc[list])
      BY <2>2 DEF IsArray
    <3> QED BY <2>2, <3>1, RemovesOne DEF IsArray
  <2>4. IsArray(less)
    BY <2>3, Arrays
  <2>6. list = "incomeStreams" => \A k \in 1 .. Len(less) : less[k].amount \in Int
    BY <2>3 DEF IsDocument
  <2> HIDE DEF less
  <2>7. edited = [doc EXCEPT ![list] = less]
    BY <2>1 DEF less
  <2>8. DocumentLists \subseteq DOMAIN edited
    BY <2>7 DEF IsDocument
  <2>9. \A l \in DocumentLists : edited[l] = IF l = list THEN less ELSE doc[l]
    BY <2>7 DEF IsDocument
  <2> QED BY <2>4, <2>6, <2>8, <2>9 DEF IsDocument, DocumentLists
<1>3. ASSUME NEW f, edited = [doc EXCEPT !.filingStatus = f] PROVE IsDocument(edited)
  BY <1>3 DEF IsDocument, DocumentLists
<1>4. ASSUME NEW a, edited = [doc EXCEPT !.stateResidency.additional = a] PROVE IsDocument(edited)
  BY <1>4 DEF IsDocument, DocumentLists
<1>5. \A i \in 1 .. Len(IncomeLines) : IncomeLines[i].amount \in Int
  BY LinesAssumption, Arrays DEF IsArray
<1>6. /\ \A lines \in {IncomeLines, DeductionLines, CreditLines, DependentLines} : IsArray(lines)
      /\ {"incomeStreams", "deductions", "credits", "dependents"} \subseteq DocumentLists
  BY LinesAssumption DEF DocumentLists
<1>7. CASE \/ edited \in WithLine(doc, "incomeStreams", IncomeLines)
           \/ edited \in WithLine(doc, "deductions", DeductionLines)
           \/ edited \in WithLine(doc, "credits", CreditLines)
           \/ edited \in WithLine(doc, "dependents", DependentLines)
  BY <1>1, <1>5, <1>6, <1>7
<1>8. CASE edited \in UNION {WithoutLine(doc, list) : list \in DocumentLists}
  BY <1>2, <1>8
<1>9. CASE \/ \E f : edited = [doc EXCEPT !.filingStatus = f]
           \/ \E a : edited = [doc EXCEPT !.stateResidency.additional = a]
  BY <1>3, <1>4, <1>9
<1> QED BY <1>7, <1>8, <1>9, Zenon DEF Edits

(* What is stored is a document.                                           *)
LEMMA StoredIsDocument == EvaluationSpec => []DocumentStored
<1>1. EvaluationInit => DocumentStored
  BY DEF EvaluationInit, DocumentStored, Stored
<1>2. DocumentStored /\ [EvaluationNext]_situation_data => DocumentStored'
  <2> SUFFICES ASSUME DocumentStored, PatchReturn PROVE DocumentStored'
    BY DEF EvaluationNext, DocumentStored, Stored
  <2>1. PICK doc \in IF situation_data = NULL THEN Blank ELSE Edits(situation_data) :
          patchTaxReturnSchema([situationData |-> doc]) /\ situation_data' = doc
    BY DEF PatchReturn
  <2>2. CASE situation_data = NULL
    <3>1. HasKeys(doc, {"id", "version", "filingYear", "filingStatus", "dependents",
                 "incomeStreams", "deductions", "credits", "lifeEvents",
                 "priorYearContext", "stateResidency",
                 "documentationCompleteness", "confidenceScores",
                 "rawArtifacts", "metadata"}, {})
      <4> DEFINE body == [situationData |-> doc]
      <4>1. "situationData" \in DOMAIN body /\ body.situationData = doc
        OBVIOUS
      <4> HIDE DEF body
      <4>2. taxSituationSchema(doc)
        BY <2>1, <4>1 DEF patchTaxReturnSchema, body
      <4> QED BY <4>2, Zenon DEF taxSituationSchema
    <3>2. DocumentLists \subseteq DOMAIN doc
      BY <3>1 DEF HasKeys, DocumentLists
    <3>3. /\ \A list \in DocumentLists : IsArray(doc[list])
          /\ \A line \in Range(doc.incomeStreams) : line.amount \in Int
      BY <2>1, <2>2, LinesAssumption
    <3>4. \A i \in 1 .. Len(doc.incomeStreams) : doc.incomeStreams[i].amount \in Int
      BY <3>3, Arrays DEF IsArray, DocumentLists
    <3> QED BY <2>1, <3>2, <3>3, <3>4 DEF IsDocument, DocumentStored
  <2>3. CASE situation_data # NULL
    BY <2>1, <2>3, EditsAreDocuments DEF DocumentStored, Stored
  <2> QED BY <2>2, <2>3
<1> QED BY <1>1, <1>2, PTL DEF EvaluationSpec

(* The sums of a document's income.                                        *)
LEMMA IncomeIsNumber ==
  ASSUME NEW doc, IsDocument(doc)
  PROVE  /\ approximateAGI(doc) \in Int /\ approximateAGI(doc) = totalIncome(doc)
         /\ netSelfEmploymentIncome(doc) \in Int
<1> DEFINE N == Len(doc.incomeStreams)
           all == [i \in 1 .. N |-> doc.incomeStreams[i].amount]
           some == [i \in 1 .. N |-> IF doc.incomeStreams[i].type = "1099_nec"
                                       THEN doc.incomeStreams[i].amount ELSE 0]
<1>1. N \in Nat /\ \A i \in 1 .. N : doc.incomeStreams[i].amount \in Int
  BY DEF IsDocument, IsArray, DocumentLists
<1>2. Len(all) = N /\ \A i \in 1 .. N : all[i] \in Int
  BY <1>1
<1>3. Len(some) = N /\ \A i \in 1 .. N : some[i] \in Int
  BY <1>1
<1>4. totalIncome(doc) = Total(all) /\ netSelfEmploymentIncome(doc) = Total(some)
  BY DEF totalIncome, netSelfEmploymentIncome, incomeByType
<1> HIDE DEF all, some
<1> QED BY <1>1, <1>2, <1>3, <1>4, TotalIsNumber DEF approximateAGI

(* The codes of the issues are those of the violated rules, and the errors *)
(* among them those of the rules of that severity.                         *)
LEMMA IssuesOfRules ==
  ASSUME NEW s
  PROVE  LET rules == VALIDATION_RULES(s)
             violated == {r \in DOMAIN rules : rules[r].violated}
         IN  /\ {i.code : i \in Issues(s)} = violated
             /\ \A r \in violated : rules[r].severity = "error" => ~ validate(s).valid
<1> DEFINE rules == VALIDATION_RULES(s)
           violated == {r \in DOMAIN rules : rules[r].violated}
           Issue(r) == [code |-> r, severity |-> rules[r].severity, field |-> rules[r].field]
<1>1. Issues(s) = {Issue(r) : r \in violated}
  BY DEF Issues
<1>2. validate(s).valid <=> ~ \E i \in Issues(s) : i.severity = "error"
  BY DEF validate
<1> HIDE DEF rules, violated
<1>3. \A r : Issue(r).code = r /\ Issue(r).severity = rules[r].severity
  OBVIOUS
<1> HIDE DEF Issue
<1> QED BY <1>1, <1>2, <1>3 DEF rules, violated

(* The rules that the theorems below are about.                            *)
LEMMA RuleTable ==
  ASSUME NEW s
  PROVE  LET rules == VALIDATION_RULES(s)
         IN  /\ {"MISSING_SCHEDULE_C", "MISSING_SCHEDULE_SE", "MISSING_SCHEDULE_E",
                 "CONTRADICTION_SINGLE_WITH_DEPENDENT_SPOUSE",
                 "CONTRADICTION_HOH_WITHOUT_QUALIFYING_DEPENDENT",
                 "CONTRADICTION_MFS_WITH_EITC",
                 "INCOMPLETE_CHAIN_SCHEDULE_D_WITHOUT_FORM_8949",
                 "THRESHOLD_EITC_ABOVE_QUALIFYING_AGI"} \subseteq DOMAIN rules
             /\ rules["MISSING_SCHEDULE_C"].violated = MISSING_SCHEDULE_C(s)
             /\ rules["MISSING_SCHEDULE_SE"].violated = MISSING_SCHEDULE_SE(s)
             /\ rules["MISSING_SCHEDULE_E"].violated = MISSING_SCHEDULE_E(s)
             /\ rules["MISSING_SCHEDULE_E"].severity = "error"
             /\ rules["CONTRADICTION_SINGLE_WITH_DEPENDENT_SPOUSE"].violated
                  = CONTRADICTION_SINGLE_WITH_DEPENDENT_SPOUSE(s)
             /\ rules["CONTRADICTION_HOH_WITHOUT_QUALIFYING_DEPENDENT"].violated
                  = CONTRADICTION_HOH_WITHOUT_QUALIFYING_DEPENDENT(s)
             /\ rules["CONTRADICTION_MFS_WITH_EITC"].violated
                  = CONTRADICTION_MFS_WITH_EITC(s)
             /\ rules["CONTRADICTION_MFS_WITH_EITC"].severity = "error"
             /\ rules["INCOMPLETE_CHAIN_SCHEDULE_C_WITHOUT_BUSINESS_INCOME"].violated
                  = INCOMPLETE_CHAIN_SCHEDULE_C_WITHOUT_BUSINESS_INCOME(s)
             /\ rules["INCOMPLETE_CHAIN_SCHEDULE_D_WITHOUT_FORM_8949"].violated
                  = INCOMPLETE_CHAIN_SCHEDULE_D_WITHOUT_FORM_8949(s)
             /\ rules["INCOMPLETE_CHAIN_SCHEDULE_D_WITHOUT_FORM_8949"].severity = "error"
             /\ rules["THRESHOLD_EITC_ABOVE_QUALIFYING_AGI"].violated
                  = THRESHOLD_EITC_ABOVE_QUALIFYING_AGI(s)
             /\ rules["THRESHOLD_EITC_ABOVE_QUALIFYING_AGI"].severity = "error"
             /\ rules["THRESHOLD_SE_NET_BELOW_400_WITH_SE"].violated
                  = THRESHOLD_SE_NET_BELOW_400_WITH_SE(s)
BY DEF VALIDATION_RULES, Rule

(* Two rules that exclude each other are not both among the violated ones. *)
LEMMA Excluded ==
  ASSUME NEW codes, NEW violated,
         \A a, b \in codes : a # b => ~ (a \in violated /\ b \in violated)
  PROVE  Cardinality(codes \cap violated) <= 1
<1> DEFINE S == codes \cap violated
<1>1. \A x, y \in S : x = y
  OBVIOUS
<1> HIDE DEF S
<1>2. Cardinality(S) <= 1
  BY <1>1, AtMostOne
<1> QED BY <1>2 DEF S

(* No document violates two rules that contradict each other:              *)
(* validation-rules.ts and validation-engine.ts, for every document.       *)
THEOREM RulesDoNotContradict == EvaluationSpec => []RulesAgree
<1>1. DocumentStored => RulesAgree
  <2> SUFFICES ASSUME Stored, IsDocument(situation_data) PROVE RulesAgree
    BY DEF RulesAgree, DocumentStored
  <2> DEFINE s == situation_data
             rules == VALIDATION_RULES(s)
             violated == {r \in DOMAIN rules : rules[r].violated}
             Exclusive(codes) == Cardinality(codes \cap violated) <= 1
  <2>1. {i.code : i \in Issues(s)} = violated
    BY IssuesOfRules
  <2>2. /\ "MISSING_SCHEDULE_C" \in violated => MISSING_SCHEDULE_C(s)
        /\ "MISSING_SCHEDULE_SE" \in violated => MISSING_SCHEDULE_SE(s)
        /\ "CONTRADICTION_SINGLE_WITH_DEPENDENT_SPOUSE" \in violated
             => CONTRADICTION_SINGLE_WITH_DEPENDENT_SPOUSE(s)
        /\ "CONTRADICTION_HOH_WITHOUT_QUALIFYING_DEPENDENT" \in violated
             => CONTRADICTION_HOH_WITHOUT_QUALIFYING_DEPENDENT(s)
        /\ "CONTRADICTION_MFS_WITH_EITC" \in violated => CONTRADICTION_MFS_WITH_EITC(s)
        /\ "INCOMPLETE_CHAIN_SCHEDULE_C_WITHOUT_BUSINESS_INCOME" \in violated
             => INCOMPLETE_CHAIN_SCHEDULE_C_WITHOUT_BUSINESS_INCOME(s)
        /\ "THRESHOLD_EITC_ABOVE_QUALIFYING_AGI" \in violated
             => THRESHOLD_EITC_ABOVE_QUALIFYING_AGI(s)
        /\ "THRESHOLD_SE_NET_BELOW_400_WITH_SE" \in violated
             => THRESHOLD_SE_NET_BELOW_400_WITH_SE(s)
    BY RuleTable, Zenon
  <2> HIDE DEF violated
  <2>3. ~ (MISSING_SCHEDULE_SE(s) /\ THRESHOLD_SE_NET_BELOW_400_WITH_SE(s))
    BY IncomeIsNumber DEF MISSING_SCHEDULE_SE, THRESHOLD_SE_NET_BELOW_400_WITH_SE,
                          selfEmploymentThreshold
  <2>4. ~ (CONTRADICTION_MFS_WITH_EITC(s) /\ THRESHOLD_EITC_ABOVE_QUALIFYING_AGI(s))
    BY DEF CONTRADICTION_MFS_WITH_EITC, THRESHOLD_EITC_ABOVE_QUALIFYING_AGI
  <2>5. ~ (MISSING_SCHEDULE_C(s) /\ INCOMPLETE_CHAIN_SCHEDULE_C_WITHOUT_BUSINESS_INCOME(s))
    BY DEF MISSING_SCHEDULE_C, INCOMPLETE_CHAIN_SCHEDULE_C_WITHOUT_BUSINESS_INCOME
  <2>6. /\ CONTRADICTION_MFS_WITH_EITC(s) => s.filingStatus = "married_filing_separately"
        /\ CONTRADICTION_HOH_WITHOUT_QUALIFYING_DEPENDENT(s) => s.filingStatus = "head_of_household"
        /\ CONTRADICTION_SINGLE_WITH_DEPENDENT_SPOUSE(s) => s.filingStatus = "single"
    BY DEF CONTRADICTION_MFS_WITH_EITC, CONTRADICTION_HOH_WITHOUT_QUALIFYING_DEPENDENT,
           CONTRADICTION_SINGLE_WITH_DEPENDENT_SPOUSE
  <2>7. Exclusive({"MISSING_SCHEDULE_SE", "THRESHOLD_SE_NET_BELOW_400_WITH_SE"})
    BY <2>2, <2>3, Excluded
  <2>8. Exclusive({"CONTRADICTION_MFS_WITH_EITC", "THRESHOLD_EITC_ABOVE_QUALIFYING_AGI"})
    BY <2>2, <2>4, Excluded
  <2>9. Exclusive({"MISSING_SCHEDULE_C", "INCOMPLETE_CHAIN_SCHEDULE_C_WITHOUT_BUSINESS_INCOME"})
    BY <2>2, <2>5, Excluded
  <2>10. Exclusive({"CONTRADICTION_MFS_WITH_EITC", "CONTRADICTION_HOH_WITHOUT_QUALIFYING_DEPENDENT",
                    "CONTRADICTION_SINGLE_WITH_DEPENDENT_SPOUSE"})
    BY <2>2, <2>6, Excluded
  <2>11. MISSING_SCHEDULE_D(s) => INCOMPLETE_CHAIN_SCHEDULE_D_WITHOUT_FORM_8949(s)
    <3> SUFFICES ASSUME MISSING_SCHEDULE_D(s)
                 PROVE  INCOMPLETE_CHAIN_SCHEDULE_D_WITHOUT_FORM_8949(s)
      OBVIOUS
    <3>1. PICK i \in 1 .. Len(s.incomeStreams) : s.incomeStreams[i].type = "1099_b"
      BY DEF MISSING_SCHEDULE_D, hasIncomeType, Types
    <3> DEFINE line == s.incomeStreams[i]
    <3>2. line \in Range(s.incomeStreams)
      BY Arrays DEF IsDocument, IsArray, DocumentLists
    <3>3. ~ Has(form1099(line), {"proceeds"})
      BY <3>1, <3>2 DEF MISSING_SCHEDULE_D
    <3>4. ~ Has(form1099(line), {"proceeds", "costBasis"})
      BY <3>3 DEF Has
    <3> QED BY <3>1, <3>2, <3>4 DEF INCOMPLETE_CHAIN_SCHEDULE_D_WITHOUT_FORM_8949
  <2> QED BY <2>1, <2>7, <2>8, <2>9, <2>10, <2>11 DEF RulesAgree
<1> QED BY <1>1, StoredIsDocument, PTL

(* The limits of the earned income credit grow with the children, of whom  *)
(* there are finitely many.                                                *)
LEMMA EitcLimit ==
  ASSUME NEW doc, IsDocument(doc), hasCreditType(doc, "earned_income"),
         doc.filingStatus # "married_filing_separately",
         ~ THRESHOLD_EITC_ABOVE_QUALIFYING_AGI(doc)
  PROVE  totalIncome(doc) <= eitcLimits(doc.filingStatus)[4]
<1> DEFINE children == {i \in 1 .. Len(doc.dependents) : doc.dependents[i].qualifiesForEIC}
           limits == eitcLimits(doc.filingStatus)
           count == eitcQualifyingChildCount(doc)
           index == 1 + (IF count > 3 THEN 3 ELSE count)
<1>1. count \in Nat
  <2>1. Len(doc.dependents) \in Nat
    BY DEF IsDocument, IsArray, DocumentLists
  <2>2. IsFiniteSet(1 .. Len(doc.dependents))
    BY <2>1, FS_Interval
  <2>3. children \subseteq 1 .. Len(doc.dependents)
    OBVIOUS
  <2>4. IsFiniteSet(children)
    BY <2>2, <2>3, FS_Subset
  <2>5. Cardinality(children) \in Nat
    BY <2>4, FS_CardinalityType
  <2> QED BY <2>5 DEF eitcQualifyingChildCount
<1>2. ~ (approximateAGI(doc) > limits[index])
  BY DEF THRESHOLD_EITC_ABOVE_QUALIFYING_AGI
<1> HIDE DEF count
<1>3. index \in {1, 2, 3, 4}
  BY <1>1
<1>4. \A i \in {1, 2, 3, 4} : limits[i] \in Int /\ limits[i] <= limits[4]
  <2>1. limits \in {<<25511, 56004, 62688, 66819>>, <<18591, 49084, 55768, 59899>>}
    BY DEF eitcLimits
  <2> HIDE DEF limits
  <2> QED BY <2>1
<1> HIDE DEF limits, index
<1> QED BY <1>2, <1>3, <1>4, IncomeIsNumber DEF limits

(* A return that validation calls valid is one whose forms can be filled   *)
(* in: validate of validation-engine.ts, for every document.               *)
THEOREM ValidReturns == EvaluationSpec => []ValidCanBeFiled
<1>1. DocumentStored => ValidCanBeFiled
  <2> SUFFICES ASSUME Stored, IsDocument(situation_data), Review.valid PROVE ValidCanBeFiled
    BY DEF ValidCanBeFiled, DocumentStored
  <2> DEFINE s == situation_data
  <2>1. validate(s).valid
    BY DEF Review, ValidateReturn, Stored
  <2>2. /\ ~ MISSING_SCHEDULE_E(s)
        /\ ~ INCOMPLETE_CHAIN_SCHEDULE_D_WITHOUT_FORM_8949(s)
        /\ ~ CONTRADICTION_MFS_WITH_EITC(s)
        /\ ~ THRESHOLD_EITC_ABOVE_QUALIFYING_AGI(s)
    <3> DEFINE rules == VALIDATION_RULES(s)
    <3>1. \A r \in DOMAIN rules : rules[r].severity = "error" => ~ rules[r].violated
      BY <2>1, IssuesOfRules
    <3> QED BY <3>1, RuleTable, Zenon
  <2>3. ASSUME NEW line \in Range(s.incomeStreams), line.type = "1099_b"
        PROVE  Has(form1099(line), {"proceeds", "costBasis"})
    BY <2>2, <2>3 DEF INCOMPLETE_CHAIN_SCHEDULE_D_WITHOUT_FORM_8949
  <2>4. hasIncomeType(s, "rental") => Types(s.deductions) \ {"standard"} # {}
    BY <2>2 DEF MISSING_SCHEDULE_E
  <2>5. hasCreditType(s, "earned_income") =>
          totalIncome(s) <= eitcLimits(s.filingStatus)[4]
    BY <2>2, EitcLimit DEF CONTRADICTION_MFS_WITH_EITC
  <2> QED BY <2>3, <2>4, <2>5 DEF ValidCanBeFiled
<1> QED BY <1>1, StoredIsDocument, PTL

-----------------------------------------------------------------------------
(* More lines, no higher a rung.                                           *)
LEMMA MoreLinesHigherTier ==
  ASSUME NEW less, NEW more,
         Types(less.incomeStreams) \subseteq Types(more.incomeStreams),
         Types(less.deductions) \subseteq Types(more.deductions),
         NEW p \in GatingProviders,
         Rung(less, Basic[p]) # 0, Rung(more, Basic[p]) # 0
  PROVE  Rung(more, Basic[p]) <= Rung(less, Basic[p])
<1>1. /\ hasSelfEmploymentIncome(less) => hasSelfEmploymentIncome(more)
      /\ InvestmentRentalOrK1(less) => InvestmentRentalOrK1(more)
      /\ ItemizedDeduction(less) => ItemizedDeduction(more)
  BY DEF hasSelfEmploymentIncome, InvestmentRentalOrK1, ItemizedDeduction, hasInvestmentIncome,
         hasRentalIncome, hasK1Income, hasAnyIncomeType
<1> QED BY <1>1 DEF Rung

(* One more income or deduction line is an edit that leaves the rest.      *)
LEMMA GrowingEdits ==
  ASSUME NEW doc, IsDocument(doc), NEW edited \in Edits(doc),
         \/ Len(edited["incomeStreams"]) > Len(doc["incomeStreams"])
         \/ Len(edited["deductions"]) > Len(doc["deductions"])
  PROVE  /\ Types(doc.incomeStreams) \subseteq Types(edited.incomeStreams)
         /\ Types(doc.deductions) \subseteq Types(edited.deductions)
<1> DEFINE Alike(list) == /\ Len(doc[list]) \in Nat /\ Len(edited[list]) \in Nat
                          /\ Len(doc[list]) <= Len(edited[list])
                          /\ \A i \in 1 .. Len(doc[list]) : edited[list][i] = doc[list][i]
<1>1. \A list \in DocumentLists : IsArray(doc[list]) /\ Len(doc[list]) \in Nat /\ list \in DOMAIN doc
  BY DEF IsDocument, IsArray
<1>2. ASSUME NEW list \in DocumentLists, NEW lines, edited \in WithLine(doc, list, lines)
      PROVE  \A l \in DocumentLists : Alike(l)
  <2>1. PICK i \in 1 .. Len(lines) : edited = [doc EXCEPT ![list] = Append(@, lines[i])]
    BY <1>2 DEF WithLine
  <2>2. Alike(list)
    BY <1>1, <2>1 DEF IsArray
  <2>3. \A l \in DocumentLists \ {list} : edited[l] = doc[l]
    BY <1>1, <2>1
  <2> QED BY <1>1, <2>2, <2>3
<1>3. ASSUME NEW list \in DocumentLists, edited \in WithoutLine(doc, list)
      PROVE  \A l \in DocumentLists : ~ (Len(edited[l]) > Len(doc[l]))
  <2>1. PICK i \in 1 .. Len(doc[list]) : edited = [doc EXCEPT ![list] = RemoveAt(@, i)]
    BY <1>3 DEF WithoutLine
  <2>2. Len(edited[list]) = Len(doc[list]) - 1
    BY <1>1, <2>1, RemovesOne DEF IsArray
  <2>3. \A l \in DocumentLists \ {list} : edited[l] = doc[l]
    BY <1>1, <2>1
  <2> QED BY <1>1, <2>2, <2>3
<1>4. CASE \/ \E f : edited = [doc EXCEPT !.filingStatus = f]
           \/ \E a : edited = [doc EXCEPT !.stateResidency.additional = a]
  <2>1. \A l \in DocumentLists : edited[l] = doc[l]
    BY <1>1, <1>4 DEF DocumentLists
  <2> QED BY <1>1, <2>1 DEF DocumentLists
<1>5. {"incomeStreams", "deductions", "credits", "dependents"} \subseteq DocumentLists
  BY DEF DocumentLists
<1>6. (\A l \in DocumentLists : Alike(l))
        => /\ Types(doc.incomeStreams) \subseteq Types(edited.incomeStreams)
           /\ Types(doc.deductions) \subseteq Types(edited.deductions)
  <2> SUFFICES ASSUME \A l \in DocumentLists : Alike(l)
               PROVE  /\ Types(doc.incomeStreams) \subseteq Types(edited.incomeStreams)
                      /\ Types(doc.deductions) \subseteq Types(edited.deductions)
    OBVIOUS
  <2>1. ASSUME NEW l \in DocumentLists PROVE Types(doc[l]) \subseteq Types(edited[l])
    <3>1. Alike(l)
      OBVIOUS
    <3>2. \A i \in 1 .. Len(doc[l]) : i \in 1 .. Len(edited[l])
      BY <3>1
    <3> QED BY <3>1, <3>2 DEF Types
  <2> QED BY <1>5, <2>1
<1> HIDE DEF Alike
<1>7. CASE \/ edited \in WithLine(doc, "incomeStreams", IncomeLines)
           \/ edited \in WithLine(doc, "deductions", DeductionLines)
           \/ edited \in WithLine(doc, "credits", CreditLines)
           \/ edited \in WithLine(doc, "dependents", DependentLines)
  BY <1>2, <1>5, <1>6, <1>7
<1>8. CASE edited \in UNION {WithoutLine(doc, list) : list \in DocumentLists}
  BY <1>3, <1>5, <1>8
<1> QED BY <1>4, <1>7, <1>8, Zenon DEF Edits

(* The tiers without a gate are free.                                      *)
LEMMA UngatedAreFree ==
  ASSUME NEW p \in DOMAIN providers \ GatingProviders, NEW met
  PROVE  Placement(providers[p], met).federalPrice \in {0, NULL}
<1> DEFINE tiers == providers[p]
<1>1. p \in {"freetaxusa", "cashapp"}
  BY DEF providers, GatingProviders
<1>2. Len(tiers) \in {1, 2} /\ \A i \in 1 .. Len(tiers) : tiers[i].federalPrice = 0
  BY <1>1 DEF providers, freeTaxUSA, cashAppTaxes, Tier
<1> HIDE DEF tiers
<1>3. Fitting(tiers, met) \subseteq 1 .. Len(tiers)
  BY DEF Fitting
<1>4. /\ Fitting(tiers, met) = {} => Placement(tiers, met).federalPrice = NULL
      /\ Fitting(tiers, met) # {} => /\ Placement(tiers, met).federalPrice
                                          = tiers[Min(Fitting(tiers, met))].federalPrice
                                     /\ Min(Fitting(tiers, met)) \in Fitting(tiers, met)
  BY <1>2, PlacedTier
<1> QED BY <1>2, <1>3, <1>4 DEF tiers

(* One more income or deduction line never makes the federal return        *)
(* cheaper: tier-mapping.ts, for every document and every line.            *)
THEOREM NeverCheaper == EvaluationSpec => MoreNeverCheaper
<1> DEFINE A == Stored /\ (Grows("incomeStreams") \/ Grows("deductions")) =>
                  \A p \in DOMAIN providers :
                    LET before == Placement(providers[p], Met(situation_data)).federalPrice
                        after  == Placement(providers[p], Met(situation_data')).federalPrice
                    IN  NULL \notin {before, after} => before <= after
<1>1. DocumentStored /\ [EvaluationNext]_situation_data => [A]_situation_data
  <2> SUFFICES ASSUME DocumentStored, PatchReturn, Stored,
                      Grows("incomeStreams") \/ Grows("deductions"),
                      NEW p \in DOMAIN providers
               PROVE  LET before == Placement(providers[p], Met(situation_data)).federalPrice
                          after  == Placement(providers[p], Met(situation_data')).federalPrice
                      IN  NULL \notin {before, after} => before <= after
    BY DEF EvaluationNext
  <2> DEFINE less == situation_data
             more == situation_data'
             before == Placement(providers[p], Met(less)).federalPrice
             after  == Placement(providers[p], Met(more)).federalPrice
  <2>1. IsDocument(less) /\ more \in Edits(less)
    BY DEF DocumentStored, PatchReturn, Stored
  <2>2. /\ Types(less.incomeStreams) \subseteq Types(more.incomeStreams)
        /\ Types(less.deductions) \subseteq Types(more.deductions)
    BY <2>1, GrowingEdits DEF Grows
  <2>3. CASE p \notin GatingProviders
    <3>1. before \in {0, NULL} /\ after \in {0, NULL}
      BY <2>3, UngatedAreFree
    <3> QED BY <3>1
  <2>4. CASE p \in GatingProviders
    <3> DEFINE r1 == Rung(less, Basic[p])
               r2 == Rung(more, Basic[p])
    <3>1. /\ r1 \in 0 .. 4 /\ r2 \in 0 .. 4
          /\ r1 = 0 => before = NULL
          /\ r2 = 0 => after = NULL
          /\ r1 # 0 => before = providers[p][r1].federalPrice
          /\ r2 # 0 => after = providers[p][r2].federalPrice
      BY <2>4, LadderPlaces
    <3>2. r1 # 0 /\ r2 # 0 => r2 <= r1
      BY <2>2, <2>4, MoreLinesHigherTier
    <3>3. IsPriced(providers[p])
      BY <2>4, Ladders
    <3> HIDE DEF before, after, r1, r2
    <3>4. r1 # 0 /\ r2 # 0 => before <= after
      BY <3>1, <3>2, <3>3 DEF IsPriced
    <3> QED BY <3>1, <3>4 DEF before, after
  <2> QED BY <2>3, <2>4
<1>2. EvaluationSpec => [][A]_situation_data
  BY <1>1, StoredIsDocument, PTL DEF EvaluationSpec
<1> QED BY <1>2 DEF MoreNeverCheaper

-----------------------------------------------------------------------------
(* What a filter keeps: lines at the positions, all of them or none.       *)
LEMMA KeptLines ==
  ASSUME NEW S, NEW lines \in Seq(S), NEW at
  PROVE  /\ Kept(lines, at) \in Seq({lines[i] : i \in at \cap (1 .. Len(lines))})
         /\ at \cap (1 .. Len(lines)) = {} => Kept(lines, at) = <<>>
         /\ 1 .. Len(lines) \subseteq at => Kept(lines, at) = lines
<1> DEFINE N == Len(lines)
           T == {lines[i] : i \in at \cap (1 .. N)}
           Next(f, n) == IF n \in at THEN Append(f[n - 1], lines[n]) ELSE f[n - 1]
           Keeps(kept, m) == kept = [n \in 0 .. m |-> IF n = 0 THEN <<>> ELSE Next(kept, n)]
           chosen == CHOOSE kept : Keeps(kept, N)
<1>1. N \in Nat /\ Kept(lines, at) = chosen[N]
  BY DEF Kept
<1>2. \E kept : Keeps(kept, N)
  <2> DEFINE Bad == {m \in 0 .. N : ~ \E kept : Keeps(kept, m)}
  <2>1. Bad # {} => Min(Bad) \in Bad /\ \A k \in Bad : Min(Bad) <= k
    <3>1. Bad \in SUBSET Nat
      BY <1>1
    <3> HIDE DEF Bad
    <3> QED BY <3>1, SmallestNumber
  <2>2. ASSUME NEW m \in Bad, \A k \in Bad : m <= k PROVE FALSE
    <3>1. CASE m = 0
      <4>1. Keeps([n \in 0 .. 0 |-> <<>>], 0)
        OBVIOUS
      <4> QED BY <3>1, <4>1
    <3>2. CASE m # 0
      <4>1. m \in 1 .. N /\ m - 1 \in 0 .. N
        BY <1>1, <2>2, <3>2
      <4>2. PICK kept : Keeps(kept, m - 1)
        <5> HIDE DEF Keeps
        <5>1. m - 1 \in Bad => m <= m - 1
          <6> HIDE DEF Bad
          <6> QED BY <2>2
        <5> QED BY <4>1, <5>1
      <4> DEFINE more == [n \in 0 .. m |-> IF n = m THEN Next(kept, m) ELSE kept[n]]
      <4>3. Keeps(more, m)
        <5>1. \A n \in 0 .. m : n # m => kept[n] = IF n = 0 THEN <<>> ELSE Next(kept, n)
          <6>1. \A n \in 0 .. m : n # m => n \in 0 .. m - 1
            BY <1>1, <4>1
          <6> HIDE DEF Next
          <6> QED BY <4>2, <6>1
        <5>2. \A n \in 0 .. m : n # 0 => n - 1 \in 0 .. m /\ n - 1 # m
          BY <1>1
        <5>3. \A n \in 0 .. m : more[n] = IF n = 0 THEN <<>> ELSE Next(more, n)
          BY <3>2, <5>1, <5>2
        <5> QED BY <5>3
      <4> QED BY <4>3
    <3> QED BY <3>1, <3>2
  <2>3. N \in 0 .. N /\ N \notin Bad
    <3>1. N \in 0 .. N
      BY <1>1
    <3> HIDE DEF Bad
    <3> QED BY <2>1, <2>2, <3>1
  <2> HIDE DEF Keeps
  <2> QED BY <2>3
<1>3. Keeps(chosen, N)
  BY <1>2
<1> DEFINE Right(m) == /\ chosen[m] \in Seq(T)
                       /\ at \cap (1 .. N) = {} => chosen[m] = <<>>
                       /\ 1 .. N \subseteq at =>
                            /\ Len(chosen[m]) = m
                            /\ \A k \in 1 .. m : chosen[m][k] = lines[k]
<1>4. \A m \in 0 .. N : Right(m)
  <2> DEFINE Bad == {m \in 0 .. N : ~ Right(m)}
  <2> HIDE DEF chosen
  <2>1. Bad # {} => Min(Bad) \in Bad /\ \A k \in Bad : Min(Bad) <= k
    <3>1. Bad \in SUBSET Nat
      BY <1>1
    <3> HIDE DEF Bad
    <3> QED BY <3>1, SmallestNumber
  <2>2. ASSUME NEW m \in Bad, \A k \in Bad : m <= k PROVE FALSE
    <3>1. m = 0 => Right(m)
      BY <1>1, <1>3
    <3>2. m # 0 => Right(m)
      <4> SUFFICES ASSUME m # 0 PROVE Right(m)
        OBVIOUS
      <4>1. m \in 1 .. N /\ m - 1 \in 0 .. N /\ Right(m - 1)
        BY <1>1, <2>2
      <4>2. chosen[m] = Next(chosen, m)
        BY <1>1, <1>3, <4>1
      <4> DEFINE before == chosen[m - 1]
      <4>3. CASE m \in at
        <5>1. lines[m] \in T /\ chosen[m] = Append(before, lines[m])
          BY <4>1, <4>2, <4>3
        <5>2. /\ before \in Seq(T)
              /\ 1 .. N \subseteq at => /\ Len(before) = m - 1
                                        /\ \A k \in 1 .. m - 1 : before[k] = lines[k]
          BY <4>1
        <5> HIDE DEF before, T
        <5>3. chosen[m] \in Seq(T)
          BY <5>1, <5>2
        <5>4. 1 .. N \subseteq at => /\ Len(chosen[m]) = m
                                     /\ \A k \in 1 .. m : chosen[m][k] = lines[k]
          BY <1>1, <4>1, <5>1, <5>2
        <5> QED BY <4>1, <4>3, <5>3, <5>4
      <4>4. CASE m \notin at
        <5>1. chosen[m] = before
          BY <4>2, <4>4
        <5> HIDE DEF T
        <5> QED BY <4>1, <4>4, <5>1
      <4> QED BY <4>3, <4>4
    <3> QED BY <3>1, <3>2
  <2> HIDE DEF Right
  <2> QED BY <2>1, <2>2
<1> HIDE DEF chosen
<1>5. Right(N)
  <2>1. N \in 0 .. N
    BY <1>1
  <2> HIDE DEF Right, N
  <2> QED BY <1>4, <2>1
<1>6. 1 .. N \subseteq at => chosen[N] = lines
  <2> HIDE DEF T
  <2> SUFFICES ASSUME 1 .. N \subseteq at PROVE chosen[N] = lines
    OBVIOUS
  <2>1. lines \in Seq(T)
    <3>1. \A i \in 1 .. N : lines[i] \in T
      BY DEF T
    <3>2. lines = [i \in 1 .. N |-> lines[i]]
      OBVIOUS
    <3> HIDE DEF N
    <3>3. [i \in 1 .. N |-> lines[i]] \in Seq(T)
      BY <1>1, <3>1
    <3> QED BY <3>2, <3>3
  <2> DEFINE last == chosen[N]
  <2>2. last \in Seq(T) /\ Len(last) = Len(lines) /\ \A i \in 1 .. Len(last) : last[i] = lines[i]
    BY <1>1, <1>5
  <2> HIDE DEF last
  <2>3. last = lines
    BY <2>1, <2>2, SeqEqual
  <2> QED BY <2>3 DEF last
<1> QED BY <1>1, <1>5, <1>6

(* What the operations on a list do to its lines.                          *)
LEMMA ListOperations ==
  ASSUME NEW lines, IsArray(lines)
  PROVE  /\ \A more : IsArray(more) => /\ IsArray(lines \o more)
                                       /\ Range(lines \o more) = Range(lines) \cup Range(more)
         /\ \A i \in 1 .. Len(lines) : /\ IsArray(Without(lines, i))
                                       /\ Range(Without(lines, i)) \subseteq Range(lines)
         /\ \A i \in 1 .. Len(lines) : \A row :
              /\ IsArray([lines EXCEPT ![i] = row])
              /\ Range([lines EXCEPT ![i] = row]) \subseteq Range(lines) \cup {row}
<1>0. /\ Len(lines) \in Nat /\ DOMAIN lines = 1 .. Len(lines)
      /\ \A x : x \in Range(lines) <=> \E i \in 1 .. Len(lines) : x = lines[i]
  BY Arrays DEF IsArray
<1>1. ASSUME NEW more, IsArray(more)
      PROVE  IsArray(lines \o more) /\ Range(lines \o more) = Range(lines) \cup Range(more)
  <2> DEFINE S == Range(lines) \cup Range(more)
  <2>1. lines \in Seq(S) /\ more \in Seq(S)
    BY <1>1 DEF IsArray
  <2>2. /\ lines \o more \in Seq(S)
        /\ Len(lines \o more) = Len(lines) + Len(more)
        /\ \A i \in 1 .. Len(lines) + Len(more) :
             (lines \o more)[i] = IF i <= Len(lines) THEN lines[i] ELSE more[i - Len(lines)]
    BY <2>1, ConcatProperties
  <2>3. /\ IsArray(lines \o more)
        /\ \A x : x \in Range(lines \o more) <=> \E i \in 1 .. Len(lines \o more) : x = (lines \o more)[i]
    BY <2>2, Arrays
  <2>4. /\ Len(more) \in Nat
        /\ \A x : x \in Range(more) <=> \E i \in 1 .. Len(more) : x = more[i]
    BY <1>1, Arrays DEF IsArray
  <2>5. Range(lines \o more) \subseteq S
    BY <2>1, <2>2, <2>3, ElementOfSeq
  <2>6. ASSUME NEW i \in 1 .. Len(lines) PROVE lines[i] \in Range(lines \o more)
    BY <1>0, <2>2, <2>3, <2>4
  <2>7. ASSUME NEW i \in 1 .. Len(more) PROVE more[i] \in Range(lines \o more)
    <3>1. /\ i + Len(lines) \in 1 .. Len(lines) + Len(more)
          /\ ~ (i + Len(lines) <= Len(lines)) /\ i + Len(lines) - Len(lines) = i
      BY <1>0, <2>4
    <3>2. (lines \o more)[i + Len(lines)] = more[i]
      BY <2>2, <3>1
    <3> QED BY <2>2, <2>3, <3>1, <3>2
  <2> QED BY <1>0, <2>3, <2>4, <2>5, <2>6, <2>7
<1>2. ASSUME NEW i \in 1 .. Len(lines)
      PROVE  IsArray(Without(lines, i)) /\ Range(Without(lines, i)) \subseteq Range(lines)
  <2>1. Without(lines, i) \in Seq(Range(lines))
    BY RemovesOne DEF IsArray, Without
  <2> QED BY <2>1, Arrays, ElementOfSeq
<1>3. ASSUME NEW i \in 1 .. Len(lines), NEW row
      PROVE  /\ IsArray([lines EXCEPT ![i] = row])
             /\ Range([lines EXCEPT ![i] = row]) \subseteq Range(lines) \cup {row}
  <2> DEFINE new == [lines EXCEPT ![i] = row]
  <2>1. new \in Seq(Range(lines) \cup {row})
    BY DEF IsArray
  <2> HIDE DEF new
  <2>2. \A k \in 1 .. Len(new) : new[k] \in Range(lines) \cup {row}
    BY <2>1, ElementOfSeq
  <2>3. IsArray(new) /\ Range(new) \subseteq Range(lines) \cup {row}
    BY <2>1, <2>2, Arrays
  <2> QED BY <2>3 DEF new
<1> QED BY <1>1, <1>2, <1>3

-----------------------------------------------------------------------------
(* What the rows of the form's lists are, filled in or not: what a schema  *)
(* refuses of them is blank, or as it was read.                            *)
BlankAt(k, at, row) == k = at /\ k \in DOMAIN row /\ row[k] = ""

IsRow(read, list, row) ==
  CASE list = "dependents" ->
         HasKeys(row, {"firstName", "lastName", "relationship", "dateOfBirth",
                       "qualifiesForChildTaxCredit", "qualifiesForEIC"}, {"ssn_last4"})
    [] list = "incomeStreams" ->
         \A k \in incomeStreamErrors(row) :
           BlankAt(k, "source", row) \/ AsIn(k, row, read.incomeStreams)
    [] list = "itemizedDeductions" -> deductionSchema(row) /\ row.type # "standard"
    [] list = "lifeEvents" ->
         \A k \in lifeEventErrors(row) :
           BlankAt(k, "date", row) \/ AsIn(k, row, read.lifeEvents)
    [] list = "additionalStates" -> row \in StateCode \cup Range(read.additionalStates)

AreRows(read, list, rows) == IsArray(rows) /\ \A row \in Range(rows) : IsRow(read, list, row)

(* The inductive invariant of SituationForm.                               *)
FormTyped ==
  /\ DOMAIN form = Lists \cup {"filingStatus", "deductionMode", "priorYearContext", "primaryState"}
  /\ \A list \in Lists : AreRows(Extracted, list, form[list])
  /\ form.filingStatus \in FilingStatus \cup {Extracted.filingStatus}
  /\ form.deductionMode \in {"standard", "itemized"}
  /\ form.priorYearContext \in PriorYearContext
  /\ form.primaryState \in StateCode \cup {Extracted.primaryState}
  /\ opened.w2Data \in Extractions /\ opened.parsedFields \in Descriptions

(* An input that writes one property leaves the others as they are.        *)
WritesOne(row, k, v, new, rows) ==
  /\ DOMAIN new = DOMAIN row \cup {k} /\ new[k] = v
  /\ \A j \in DOMAIN row : j # k => new[j] = row[j]
  /\ \A j : j # k /\ AsIn(j, row, rows) => AsIn(j, new, rows)

LEMMA OthersAsTheyAre ==
  ASSUME NEW row, NEW k, NEW v, NEW new, new = With(row, k, v), NEW rows
  PROVE  WritesOne(row, k, v, new, rows)
<1>1. /\ DOMAIN new = DOMAIN row \cup {k} /\ new[k] = v
      /\ \A j \in DOMAIN row : j # k => new[j] = row[j]
  BY DEF With
<1>2. ASSUME NEW j, j # k, AsIn(j, row, rows) PROVE AsIn(j, new, rows)
  <2>1. PICK r \in Range(rows) :
          IF j \in DOMAIN row THEN j \in DOMAIN r /\ r[j] = row[j] ELSE j \notin DOMAIN r
    BY <1>2 DEF AsIn
  <2>2. IF j \in DOMAIN new THEN j \in DOMAIN r /\ r[j] = new[j] ELSE j \notin DOMAIN r
    BY <1>1, <1>2, <2>1
  <2> QED BY <2>2 DEF AsIn
<1> QED BY <1>1, <1>2 DEF WritesOne

(* What the inputs of a row make of it is a row of that list.              *)
LEMMA RewrittenRows ==
  ASSUME NEW read, NEW list \in Lists, NEW row, IsRow(read, list, row), NEW new \in Rewritten(list, row)
  PROVE  IsRow(read, list, new)
<1>1. CASE list = "dependents"
  <2>1. new \in DependentInputs(row)
    BY <1>1 DEF Rewritten
  <2>2. DOMAIN row \subseteq DOMAIN new /\ DOMAIN new \subseteq DOMAIN row \cup {"qualifiesForChildTaxCredit", "qualifiesForEIC"}
    <3>1. CASE \E t \in Texts :
                 new = [row EXCEPT !.firstName = t, !.lastName = t, !.relationship = t, !.dateOfBirth = t]
      <4>1. DOMAIN new = DOMAIN row
        BY <3>1
      <4> QED BY <4>1
    <3>2. CASE new \in Typed(row, {"qualifiesForChildTaxCredit", "qualifiesForEIC"}, BOOLEAN)
      BY <3>2 DEF Typed, With
    <3> QED BY <2>1, <3>1, <3>2 DEF DependentInputs
  <2> QED BY <1>1, <2>2 DEF IsRow, HasKeys
<1>2. CASE list = "incomeStreams"
  <2>1. new \in IncomeInputs(row)
    BY <1>2 DEF Rewritten
  <2>2. PICK k, v :
          /\ k \in {"type", "source", "amount", "employerEIN"} /\ new = With(row, k, v)
          /\ k = "type" => v \in INCOME_STREAM_TYPES
          /\ v \in Texts \cup {0, 1} \cup INCOME_STREAM_TYPES
    BY <2>1 DEF IncomeInputs, Typed
  <2> DEFINE rows == read.incomeStreams
  <2> HIDE DEF rows
  <2>3. WritesOne(row, k, v, new, rows)
    BY <2>2, OthersAsTheyAre
  <2>4. v # NULL /\ (k = "type" => v \in IncomeStreamType)
    BY <2>2, NullAssumption DEF INCOME_STREAM_TYPES, IncomeStreamType
  <2>5. ASSUME NEW j \in incomeStreamErrors(new)
        PROVE  BlankAt(j, "source", new) \/ AsIn(j, new, rows)
    <3>1. CASE j = k
      <4>1. j \in DOMAIN new /\ new[j] = v
        BY <2>3, <3>1 DEF WritesOne
      <4>2. k = "type" \/ (k = "source" /\ v = "")
        BY <2>2, <2>4, <2>5, <3>1, <4>1 DEF incomeStreamErrors, KeyErrors, WritesOne
      <4>3. k # "type"
        BY <2>2, <2>4, <2>5, <3>1, <4>1 DEF incomeStreamErrors, KeyErrors, WritesOne
      <4> QED BY <3>1, <4>1, <4>2, <4>3 DEF BlankAt
    <3>2. CASE j # k
      <4>1. j \in DOMAIN new => j \in DOMAIN row /\ new[j] = row[j]
        BY <2>3, <3>2 DEF WritesOne
      <4>2. j \in incomeStreamErrors(row)
        BY <2>3, <2>5, <3>2, <4>1 DEF WritesOne, incomeStreamErrors, KeyErrors
      <4>3. BlankAt(j, "source", row) \/ AsIn(j, row, rows)
        BY <1>2, <4>2 DEF IsRow, rows
      <4>4. CASE AsIn(j, row, rows)
        BY <2>3, <3>2, <4>4 DEF WritesOne
      <4>5. CASE BlankAt(j, "source", row)
        BY <2>3, <3>2, <4>5 DEF BlankAt, WritesOne
      <4> QED BY <4>3, <4>4, <4>5
    <3> QED BY <3>1, <3>2
  <2> QED BY <1>2, <2>5 DEF IsRow, rows
<1>3. CASE list = "itemizedDeductions"
  <2>1. new \in DeductionInputs(row)
    BY <1>3 DEF Rewritten
  <2>2. PICK k, v :
          k \in {"type", "amount"} /\ new = With(row, k, v) /\ (k = "type" => v \in DEDUCTION_TYPES)
    BY <2>1 DEF DeductionInputs, Typed
  <2>3. /\ DOMAIN new = DOMAIN row \cup {k}
        /\ new[k] = v /\ \A j \in DOMAIN row : j # k => new[j] = row[j]
    BY <2>2 DEF With
  <2>4. \A type \in DEDUCTION_TYPES : type \in DeductionType /\ type # "standard"
    BY DEF DEDUCTION_TYPES, DeductionType
  <2>5. deductionSchema(row) /\ row.type # "standard"
    BY <1>3 DEF IsRow
  <2>6. deductionSchema(new) /\ new.type # "standard"
    BY <2>2, <2>3, <2>4, <2>5 DEF deductionSchema, HasKeys
  <2> QED BY <1>3, <2>6 DEF IsRow
<1>4. CASE list = "lifeEvents"
  <2>1. new \in LifeEventInputs(row)
    BY <1>4 DEF Rewritten
  <2>2. PICK k, v :
          /\ k \in {"type", "date", "details"} /\ new = With(row, k, v)
          /\ k = "type" => v \in LIFE_EVENT_TYPES
          /\ v \in Texts \cup LIFE_EVENT_TYPES
    BY <2>1 DEF LifeEventInputs, Typed
  <2> DEFINE rows == read.lifeEvents
  <2> HIDE DEF rows
  <2>3. WritesOne(row, k, v, new, rows)
    BY <2>2, OthersAsTheyAre
  <2>4. v # NULL /\ (k = "type" => v \in LifeEventType)
    BY <2>2, NullAssumption DEF LIFE_EVENT_TYPES, LifeEventType
  <2>5. ASSUME NEW j \in lifeEventErrors(new)
        PROVE  BlankAt(j, "date", new) \/ AsIn(j, new, rows)
    <3>1. CASE j = k
      <4>1. j \in DOMAIN new /\ new[j] = v
        BY <2>3, <3>1 DEF WritesOne
      <4>2. k = "type" \/ (k = "date" /\ v = "")
        BY <2>2, <2>4, <2>5, <3>1, <4>1 DEF lifeEventErrors, KeyErrors, WritesOne
      <4>3. k # "type"
        BY <2>2, <2>4, <2>5, <3>1, <4>1 DEF lifeEventErrors, KeyErrors, WritesOne
      <4> QED BY <3>1, <4>1, <4>2, <4>3 DEF BlankAt
    <3>2. CASE j # k
      <4>1. j \in DOMAIN new => j \in DOMAIN row /\ new[j] = row[j]
        BY <2>3, <3>2 DEF WritesOne
      <4>2. j \in lifeEventErrors(row)
        BY <2>3, <2>5, <3>2, <4>1 DEF WritesOne, lifeEventErrors, KeyErrors
      <4>3. BlankAt(j, "date", row) \/ AsIn(j, row, rows)
        BY <1>4, <4>2 DEF IsRow, rows
      <4>4. CASE AsIn(j, row, rows)
        BY <2>3, <3>2, <4>4 DEF WritesOne
      <4>5. CASE BlankAt(j, "date", row)
        BY <2>3, <3>2, <4>5 DEF BlankAt, WritesOne
      <4> QED BY <4>3, <4>4, <4>5
    <3> QED BY <3>1, <3>2
  <2> QED BY <1>4, <2>5 DEF IsRow, rows
<1>5. CASE list = "additionalStates"
  <2>1. \E i \in 1 .. 3 : new = US_STATES[i]
    BY <1>5 DEF Rewritten, StateInputs, US_STATES, Range
  <2>2. new \in StateCode
    BY <2>1 DEF US_STATES, StateCode
  <2> QED BY <1>5, <2>2 DEF IsRow
<1> QED BY <1>1, <1>2, <1>3, <1>4, <1>5 DEF Lists

(* Lists of no and of one line.                                            *)
LEMMA ShortLists ==
  /\ IsArray(<<>>) /\ Range(<<>>) = {}
  /\ \A x : IsArray(<<x>>) /\ Range(<<x>>) = {x}
<1>1. IsArray(<<>>) /\ Range(<<>>) = {}
  BY DEF IsArray, Range
<1>2. ASSUME NEW x PROVE IsArray(<<x>>) /\ Range(<<x>>) = {x}
  <2> DEFINE one == <<x>>
  <2>1. one \in Seq({x}) /\ Len(one) = 1 /\ one[1] = x
    OBVIOUS
  <2> HIDE DEF one
  <2>2. IsArray(one) /\ \A y : y \in Range(one) <=> \E i \in 1 .. Len(one) : y = one[i]
    BY <2>1, Arrays
  <2>3. Range(one) = {x}
    BY <2>1, <2>2
  <2> QED BY <2>2, <2>3 DEF one
<1> QED BY <1>1, <1>2

(* A row that was read is as it was read.                                  *)
LEMMA AsRead == \A rows : \A row \in Range(rows) : \A k : AsIn(k, row, rows)
BY DEF AsIn

(* The line that a W-2 is made into, if there is none in the list.         *)
LEMMA W2Rows ==
  ASSUME NEW w2Data, NEW existing
  PROVE  /\ IsArray(w2Streams(w2Data, existing))
         /\ Range(w2Streams(w2Data, existing)) \subseteq Range(w2Streams(w2Data, <<>>))
<1> DEFINE line == [type |-> "w2",
                    source |-> Given(w2Data, "employerName", ""),
                    amount |-> Given(w2Data, "wages", 0),
                    documentation |-> <<>>,
                    w2Data |-> [box \in DOMAIN w2Data \cap FormBoxes |-> w2Data[box]]]
           made == IF "employerEIN" \in DOMAIN w2Data THEN With(line, "employerEIN", w2Data.employerEIN) ELSE line
<1>1. CASE w2Data = <<>> \/ "w2" \in Types(existing)
  BY <1>1, ShortLists DEF w2Streams
<1>2. CASE ~ (w2Data = <<>> \/ "w2" \in Types(existing))
  <2>1. w2Streams(w2Data, existing) = <<made>>
    BY <1>2 DEF w2Streams
  <2>2. "w2" \notin Types(<<>>)
    BY DEF Types
  <2>3. w2Streams(w2Data, <<>>) = <<made>>
    BY <1>2, <2>2 DEF w2Streams
  <2> HIDE DEF made
  <2> QED BY <2>1, <2>3, ShortLists
<1> QED BY <1>1, <1>2

(* The lines of a filtered list.                                           *)
LEMMA KeptRows ==
  ASSUME NEW lines, IsArray(lines), NEW at
  PROVE  /\ IsArray(Kept(lines, at))
         /\ \A row \in Range(Kept(lines, at)) : \E i \in at \cap (1 .. Len(lines)) : row = lines[i]
<1> DEFINE T == {lines[i] : i \in at \cap (1 .. Len(lines))}
<1>1. Kept(lines, at) \in Seq(T)
  BY KeptLines DEF IsArray
<1> HIDE DEF T
<1>2. /\ IsArray(Kept(lines, at))
      /\ \A row \in Range(Kept(lines, at)) : row \in T
  BY <1>1, Arrays, ElementOfSeq
<1> QED BY <1>2 DEF T

(* The lines that a description is made into: some of its own, and all of  *)
(* them where the list has none.                                           *)
LEMMA ParsedRows ==
  ASSUME NEW d \in Descriptions, NEW existing
  PROVE  LET parsed == Get(d, "incomeStreams", <<>>)
         IN  /\ IsArray(parsed)
             /\ IsArray(parsedStreams(d, existing))
             /\ \A row \in Range(parsedStreams(d, existing)) :
                  \E n \in 1 .. Len(parsed) : row = parsedLine(parsed[n])
             /\ existing = <<>> => \A n \in 1 .. Len(parsed) :
                  parsedLine(parsed[n]) \in Range(parsedStreams(d, existing))
<1> DEFINE parsed == Get(d, "incomeStreams", <<>>)
           at == {n \in 1 .. Len(parsed) :
                    ~ \E i \in 1 .. Len(existing) : SameLine(existing[i], parsed[n])}
           lines == Kept(parsed, at)
           rows == [i \in 1 .. Len(lines) |-> parsedLine(lines[i])]
           S == {parsedLine(lines[i]) : i \in 1 .. Len(lines)}
<1>1. IsArray(parsed)
  BY OriginsAssumption, Zenon
<1>2. parsedStreams(d, existing) = rows
  BY DEF parsedStreams
<1>3. existing = <<>> => 1 .. Len(parsed) \subseteq at
  BY DEF at
<1> HIDE DEF parsed, at
<1>4. IsArray(lines) /\ \A row \in Range(lines) : \E i \in at \cap (1 .. Len(parsed)) : row = parsed[i]
  BY <1>1, KeptRows
<1>5. existing = <<>> => lines = parsed
  BY <1>1, <1>3, KeptLines DEF IsArray
<1> HIDE DEF lines
<1>6. Len(lines) \in Nat /\ \A i \in 1 .. Len(lines) : lines[i] \in Range(lines)
  BY <1>4, Arrays DEF IsArray
<1>7. ASSUME NEW row \in S PROVE \E n \in 1 .. Len(parsed) : row = parsedLine(parsed[n])
  BY <1>4, <1>6
<1>8. /\ rows \in Seq(S) /\ Len(rows) = Len(lines)
      /\ \A i \in 1 .. Len(lines) : rows[i] = parsedLine(lines[i])
  BY <1>6
<1> HIDE DEF rows, S
<1>9. /\ IsArray(rows) /\ \A row \in Range(rows) : row \in S
      /\ \A i \in 1 .. Len(rows) : rows[i] \in Range(rows)
  BY <1>8, Arrays, ElementOfSeq
<1>10. existing = <<>> => \A n \in 1 .. Len(parsed) : parsedLine(parsed[n]) \in Range(rows)
  BY <1>5, <1>8, <1>9
<1> QED BY <1>1, <1>2, <1>7, <1>9, <1>10 DEF parsed

(* The life events of a description.                                       *)
LEMMA ParsedEvents ==
  ASSUME NEW d \in Descriptions
  PROVE  IsArray(parsedLifeEvents(d))
<1> DEFINE events == Get(d, "lifeEvents", <<>>)
           Row(i) == [type |-> events[i].type, date |-> events[i].date,
                      details |-> Given(events[i], "details", "")]
           rows == [i \in 1 .. Len(events) |-> Row(i)]
<1>1. IsArray(events)
  BY OriginsAssumption, Zenon
<1>2. parsedLifeEvents(d) = rows
  BY DEF parsedLifeEvents
<1> HIDE DEF events
<1>3. Len(events) \in Nat
  BY <1>1 DEF IsArray
<1> HIDE DEF Row
<1>4. rows \in Seq({Row(i) : i \in 1 .. Len(events)})
  BY <1>3
<1> HIDE DEF rows
<1> QED BY <1>2, <1>4, Arrays

(* What the form makes of an extraction alone.                             *)
LEMMA ExtractedForm ==
  ASSUME NEW w2Data \in Extractions, NEW d \in Descriptions
  PROVE  LET read   == InitialForm(<<>>, w2Data, d)
             states == Get(d, "stateResidency", <<>>)
         IN  /\ read.filingStatus = Get(d, "filingStatus", "single")
             /\ IsArray(read.incomeStreams)
             /\ Range(read.incomeStreams)
                  = Range(w2Streams(w2Data, <<>>)) \cup Range(parsedStreams(d, <<>>))
             /\ read.lifeEvents = parsedLifeEvents(d)
             /\ read.primaryState = Get(states, "primary", "CA")
             /\ read.additionalStates = Get(states, "additional", <<>>)
<1> DEFINE read == InitialForm(<<>>, w2Data, d)
           states == Get(d, "stateResidency", <<>>)
           fromW2 == w2Streams(w2Data, <<>>)
           described == parsedStreams(d, <<>>)
           events == parsedLifeEvents(d)
<1>1. \A key, default : Get(<<>>, key, default) = default
  BY DEF Get
<1>2. /\ read.filingStatus = Get(d, "filingStatus", "single")
      /\ read.incomeStreams = (fromW2 \o described) \o <<>>
      /\ read.lifeEvents = <<>> \o events
      /\ read.primaryState = Get(states, "primary", "CA")
      /\ read.additionalStates = Get(states, "additional", <<>>)
  BY <1>1 DEF InitialForm
<1>3. IsArray(fromW2) /\ IsArray(described) /\ IsArray(events)
  BY W2Rows, ParsedRows, ParsedEvents
<1> HIDE DEF fromW2, described, events, read
<1>4. IsArray(fromW2 \o described) /\ Range(fromW2 \o described) = Range(fromW2) \cup Range(described)
  BY <1>3, ListOperations
<1>5. read.incomeStreams = fromW2 \o described
  BY <1>2, <1>4, ConcatEmptySeq DEF IsArray
<1>6. read.lifeEvents = events
  BY <1>2, <1>3, ConcatEmptySeq DEF IsArray
<1> QED BY <1>2, <1>4, <1>5, <1>6 DEF read, fromW2, described, events

(* What the form shows of the stored deductions.                           *)
LEMMA ItemizedRows ==
  ASSUME NEW deductions, IsArray(deductions)
  PROVE  /\ IsArray(Itemized(deductions))
         /\ \A row \in Range(Itemized(deductions)) :
              row \in Range(deductions) /\ row.type # "standard"
         /\ (\A row \in Range(deductions) : row.type # "standard") => Itemized(deductions) = deductions
         /\ (\A row \in Range(deductions) : row.type = "standard") => Itemized(deductions) = <<>>
<1> DEFINE at == {i \in 1 .. Len(deductions) : deductions[i].type # "standard"}
<1>1. Itemized(deductions) = Kept(deductions, at)
  BY DEF Itemized
<1>2. \A i \in 1 .. Len(deductions) : deductions[i] \in Range(deductions)
  BY Arrays DEF IsArray
<1>3. (\A row \in Range(deductions) : row.type # "standard") => 1 .. Len(deductions) \subseteq at
  BY <1>2
<1>4. (\A row \in Range(deductions) : row.type = "standard") => at \cap (1 .. Len(deductions)) = {}
  BY <1>2
<1>5. \A i \in at : i \in 1 .. Len(deductions) /\ deductions[i].type # "standard"
  OBVIOUS
<1> HIDE DEF at
<1>6. /\ IsArray(Kept(deductions, at))
      /\ \A row \in Range(Kept(deductions, at)) : \E i \in at \cap (1 .. Len(deductions)) : row = deductions[i]
  BY KeptRows
<1>7. /\ at \cap (1 .. Len(deductions)) = {} => Kept(deductions, at) = <<>>
      /\ 1 .. Len(deductions) \subseteq at => Kept(deductions, at) = deductions
  BY KeptLines DEF IsArray
<1> QED BY <1>1, <1>2, <1>3, <1>4, <1>5, <1>6, <1>7

(* The states of a return.                                                 *)
LEMMA Residency ==
  ASSUME NEW parsed, IsArray(Get(parsed, "additional", <<>>)), NEW saved, IsResidency(saved)
  PROVE  LET states == Get(parsed, "additional", Get(saved, "additional", <<>>))
         IN  /\ Get(parsed, "primary", Get(saved, "primary", "CA"))
                  \in StateCode \cup {Get(parsed, "primary", "CA")}
             /\ IsArray(states)
             /\ \A s \in Range(states) : s \in StateCode \cup Range(Get(parsed, "additional", <<>>))
<1> DEFINE given  == Get(saved, "additional", <<>>)
           states == Get(parsed, "additional", given)
<1>1. Get(saved, "primary", "CA") \in StateCode /\ given \in Seq(StateCode)
  BY DEF IsResidency
<1>2. IsArray(given) /\ \A s \in Range(given) : s \in StateCode
  <2> HIDE DEF given
  <2> QED BY <1>1, Arrays, ElementOfSeq
<1>3. states = given \/ states = Get(parsed, "additional", <<>>)
  BY DEF Get
<1>4. Get(parsed, "primary", Get(saved, "primary", "CA")) \in StateCode \cup {Get(parsed, "primary", "CA")}
  BY <1>1 DEF Get
<1> HIDE DEF states, given
<1> QED BY <1>2, <1>3, <1>4 DEF states, given

(* The form as it is opened.                                               *)
LEMMA FormOpens == FormInit => FormTyped
<1> SUFFICES ASSUME FormInit PROVE FormTyped
  OBVIOUS
<1>1. PICK initial \in Situations, w2Data \in Extractions, parsedFields \in Descriptions :
        /\ opened = [situation |-> initial, w2Data |-> w2Data, parsedFields |-> parsedFields]
        /\ form = InitialForm(initial, w2Data, parsedFields)
  BY DEF FormInit
<1> DEFINE dependents == Get(initial, "dependents", <<>>)
           existing   == Get(initial, "incomeStreams", <<>>)
           deductions == Get(initial, "deductions", <<>>)
           events     == Get(initial, "lifeEvents", <<>>)
           saved      == Get(initial, "stateResidency", <<>>)
           parsed     == Get(parsedFields, "stateResidency", <<>>)
           read       == InitialForm(<<>>, w2Data, parsedFields)
<1>2. /\ IsArray(dependents) /\ IsArray(existing) /\ IsArray(deductions) /\ IsArray(events)
      /\ Get(initial, "filingStatus", "single") \in FilingStatus
      /\ Given(initial, "priorYearContext", emptyPriorYearContext) \in PriorYearContext
      /\ IsResidency(saved)
  BY OriginsAssumption, Zenon
<1>3. /\ \A row \in Range(dependents) : dependentSchema(row)
      /\ \A row \in Range(existing) : incomeStreamSchema(row)
      /\ \A row \in Range(deductions) : deductionSchema(row)
      /\ \A row \in Range(events) : lifeEventSchema(row)
  BY OriginsAssumption, Zenon DEF Every
<1>4. IsArray(Get(parsed, "additional", <<>>))
  BY OriginsAssumption, Zenon
<1>5. /\ form.filingStatus = Get(parsedFields, "filingStatus", Get(initial, "filingStatus", "single"))
      /\ form.dependents = dependents
      /\ form.incomeStreams = w2Streams(w2Data, existing) \o parsedStreams(parsedFields, existing) \o existing
      /\ form.deductionMode = deductionMode(deductions)
      /\ form.itemizedDeductions = Itemized(deductions)
      /\ form.lifeEvents = events \o parsedLifeEvents(parsedFields)
      /\ form.priorYearContext = Given(initial, "priorYearContext", emptyPriorYearContext)
      /\ form.primaryState = Get(parsed, "primary", Get(saved, "primary", "CA"))
      /\ form.additionalStates = Get(parsed, "additional", Get(saved, "additional", <<>>))
      /\ DOMAIN form = Lists \cup {"filingStatus", "deductionMode", "priorYearContext", "primaryState"}
  BY <1>1 DEF InitialForm, Lists
<1>6. /\ read.filingStatus = Get(parsedFields, "filingStatus", "single")
      /\ Range(read.incomeStreams)
           = Range(w2Streams(w2Data, <<>>)) \cup Range(parsedStreams(parsedFields, <<>>))
      /\ read.lifeEvents = parsedLifeEvents(parsedFields)
      /\ read.primaryState = Get(parsed, "primary", "CA")
      /\ read.additionalStates = Get(parsed, "additional", <<>>)
  BY ExtractedForm
<1>7. Extracted = read
  BY <1>1 DEF Extracted
<1> HIDE DEF dependents, existing, deductions, events, saved, parsed, read
<1>8. form.filingStatus \in FilingStatus \cup {read.filingStatus}
  BY <1>2, <1>5, <1>6 DEF Get
<1>9. form.deductionMode \in {"standard", "itemized"}
  BY <1>5 DEF deductionMode
<1>10. AreRows(read, "dependents", form.dependents)
  BY <1>2, <1>3, <1>5 DEF AreRows, IsRow, dependentSchema
<1>11. AreRows(read, "incomeStreams", form.incomeStreams)
  <2> DEFINE fromW2 == w2Streams(w2Data, existing)
             described == parsedStreams(parsedFields, existing)
             lines == Get(parsedFields, "incomeStreams", <<>>)
  <2>1. \A row \in Range(existing) : IsRow(read, "incomeStreams", row)
    BY <1>3 DEF IsRow, incomeStreamSchema
  <2>2. IsArray(fromW2) /\ \A row \in Range(fromW2) : row \in Range(read.incomeStreams)
    BY <1>6, W2Rows
  <2>3. IsArray(described) /\ \A row \in Range(described) : row \in Range(read.incomeStreams)
    <3>1. /\ IsArray(described)
          /\ \A row \in Range(described) : \E n \in 1 .. Len(lines) : row = parsedLine(lines[n])
          /\ \A n \in 1 .. Len(lines) : parsedLine(lines[n]) \in Range(parsedStreams(parsedFields, <<>>))
      BY ParsedRows
    <3> HIDE DEF described, lines
    <3> QED BY <1>6, <3>1
  <2>4. \A row \in Range(read.incomeStreams) : IsRow(read, "incomeStreams", row)
    BY AsRead DEF IsRow
  <2> HIDE DEF fromW2, described
  <2>5. IsArray(fromW2 \o described) /\ Range(fromW2 \o described) = Range(fromW2) \cup Range(described)
    BY <2>2, <2>3, ListOperations
  <2> DEFINE both == fromW2 \o described
  <2> HIDE DEF both
  <2>6. IsArray(both \o existing) /\ Range(both \o existing) = Range(both) \cup Range(existing)
    BY <1>2, <2>5, ListOperations DEF both
  <2>7. form.incomeStreams = both \o existing
    BY <1>5 DEF both, fromW2, described
  <2> QED BY <2>1, <2>2, <2>3, <2>4, <2>5, <2>6, <2>7 DEF both, AreRows
<1>12. AreRows(read, "itemizedDeductions", form.itemizedDeductions)
  BY <1>2, <1>3, <1>5, ItemizedRows DEF AreRows, IsRow
<1>13. AreRows(read, "lifeEvents", form.lifeEvents)
  <2> DEFINE told == parsedLifeEvents(parsedFields)
  <2>1. \A row \in Range(events) : IsRow(read, "lifeEvents", row)
    BY <1>3 DEF IsRow, lifeEventSchema
  <2>2. IsArray(told)
    BY ParsedEvents
  <2>3. form.lifeEvents = events \o told /\ read.lifeEvents = told
    BY <1>5, <1>6
  <2> HIDE DEF told
  <2>4. \A row \in Range(told) : IsRow(read, "lifeEvents", row)
    BY <2>3, AsRead DEF IsRow
  <2>5. IsArray(events \o told) /\ Range(events \o told) = Range(events) \cup Range(told)
    BY <1>2, <2>2, ListOperations
  <2> QED BY <2>1, <2>3, <2>4, <2>5 DEF AreRows
<1>14. /\ form.primaryState \in StateCode \cup {read.primaryState}
       /\ AreRows(read, "additionalStates", form.additionalStates)
  BY <1>2, <1>4, <1>5, <1>6, Residency DEF AreRows, IsRow
<1>15. ASSUME NEW list \in Lists PROVE AreRows(read, list, form[list])
  BY <1>10, <1>11, <1>12, <1>13, <1>14, Zenon DEF Lists
<1>16. opened.w2Data \in Extractions /\ opened.parsedFields \in Descriptions
  BY <1>1
<1> QED BY <1>2, <1>5, <1>7, <1>8, <1>9, <1>14, <1>15, <1>16 DEF FormTyped

(* The rows that Add puts at the end of a list.                            *)
LEMMA NewRows ==
  ASSUME NEW read, NEW list \in Lists
  PROVE  AreRows(read, list, NewRow(list))
<1>1. CASE list = "dependents"
  <2>1. IsRow(read, list, emptyDependent)
    BY <1>1 DEF IsRow, HasKeys, emptyDependent
  <2> QED BY <1>1, <2>1, ShortLists DEF AreRows, NewRow
<1>2. CASE list = "incomeStreams"
  <2> DEFINE row == emptyIncomeStream
  <2>1. /\ DOMAIN row = {"type", "source", "amount", "documentation"}
        /\ row.type = "1099_nec" /\ row.source = "" /\ row.amount = 0 /\ row.documentation = <<>>
    BY DEF emptyIncomeStream
  <2>2. NULL \notin {"1099_nec", ""} /\ NULL # 0 /\ NULL # <<>>
    BY NullAssumption DEF INCOME_STREAM_TYPES, Texts
  <2> HIDE DEF row
  <2>3. "1099_nec" \in IncomeStreamType
    BY DEF IncomeStreamType
  <2>4. \A k \in incomeStreamErrors(row) : BlankAt(k, "source", row)
    BY <2>1, <2>2, <2>3 DEF incomeStreamErrors, KeyErrors, BlankAt
  <2>5. IsRow(read, list, row)
    BY <1>2, <2>4 DEF IsRow
  <2> QED BY <1>2, <2>5, ShortLists DEF AreRows, NewRow, row
<1>3. CASE list = "itemizedDeductions"
  <2>1. IsRow(read, list, emptyDeduction)
    BY <1>3 DEF IsRow, HasKeys, emptyDeduction, deductionSchema, DeductionType
  <2> QED BY <1>3, <2>1, ShortLists DEF AreRows, NewRow
<1>4. CASE list = "lifeEvents"
  <2> DEFINE row == emptyLifeEvent
  <2>1. /\ DOMAIN row = {"type", "date", "details"}
        /\ row.type = "marriage" /\ row.date = "" /\ row.details = ""
    BY DEF emptyLifeEvent
  <2>2. NULL \notin {"marriage", ""}
    BY NullAssumption DEF LIFE_EVENT_TYPES, Texts
  <2> HIDE DEF row
  <2>3. "marriage" \in LifeEventType
    BY DEF LifeEventType
  <2>4. \A k \in lifeEventErrors(row) : BlankAt(k, "date", row)
    BY <2>1, <2>2, <2>3 DEF lifeEventErrors, KeyErrors, BlankAt
  <2>5. IsRow(read, list, row)
    BY <1>4, <2>4 DEF IsRow
  <2> QED BY <1>4, <2>5, ShortLists DEF AreRows, NewRow, row
<1>5. CASE list = "additionalStates"
  <2> DEFINE I == {j \in 1 .. Len(US_STATES) : US_STATES[j] \notin Range(form.additionalStates)}
             i == IF I # {} THEN Min(I) ELSE 0
  <2>1. NewRow(list) = IF i = 0 THEN <<>> ELSE <<US_STATES[i]>>
    BY <1>5 DEF NewRow, SelectInSeq
  <2>2. Len(US_STATES) = 3 /\ \A j \in 1 .. 3 : US_STATES[j] \in StateCode
    BY DEF US_STATES, StateCode
  <2>3. i # 0 => i \in 1 .. 3
    <3>1. I \in SUBSET Nat
      BY <2>2
    <3>2. I # {} => Min(I) \in I
      <4> HIDE DEF I
      <4> QED BY <3>1, SmallestNumber
    <3> QED BY <2>2, <3>2
  <2> HIDE DEF i
  <2>4. i # 0 => IsRow(read, list, US_STATES[i])
    BY <1>5, <2>2, <2>3 DEF IsRow
  <2> QED BY <2>1, <2>4, ShortLists DEF AreRows
<1> QED BY <1>1, <1>2, <1>3, <1>4, <1>5 DEF Lists

(* An input writes one property of the form.                               *)
LEMMA UpdatesAreTyped ==
  ASSUME FormTyped, NEW key, NEW value, update(key, value),
         key \in Lists => AreRows(Extracted, key, value),
         key = "filingStatus" => value \in FilingStatus,
         key = "deductionMode" => value \in {"standard", "itemized"},
         key = "priorYearContext" => value \in PriorYearContext,
         key = "primaryState" => value \in StateCode
  PROVE  FormTyped'
<1>1. form' = [form EXCEPT ![key] = value] /\ opened' = opened
  BY DEF update
<1>2. DOMAIN form' = DOMAIN form
  BY <1>1
<1>3. \A k \in DOMAIN form : form'[k] = IF k = key THEN value ELSE form[k]
  BY <1>1
<1>4. Extracted' = Extracted
  BY <1>1 DEF Extracted
<1>5. PICK read : read = Extracted
  OBVIOUS
<1>6. ASSUME NEW list \in Lists PROVE AreRows(read, list, form'[list])
  <2>1. list \in DOMAIN form
    BY DEF FormTyped
  <2>2. AreRows(read, list, form[list])
    BY <1>5 DEF FormTyped
  <2> QED BY <1>3, <1>5, <2>1, <2>2
<1>7. {"filingStatus", "deductionMode", "priorYearContext", "primaryState"} \subseteq DOMAIN form
  BY DEF FormTyped
<1>8. /\ form'.filingStatus \in FilingStatus \cup {read.filingStatus}
      /\ form'.deductionMode \in {"standard", "itemized"}
      /\ form'.priorYearContext \in PriorYearContext
      /\ form'.primaryState \in StateCode \cup {read.primaryState}
  BY <1>3, <1>5, <1>7 DEF FormTyped
<1>9. Extracted' = read
  BY <1>4, <1>5
<1> QED BY <1>1, <1>2, <1>6, <1>8, <1>9 DEF FormTyped

(* Every step keeps the types.                                             *)
LEMMA FormStaysTyped == FormTyped /\ [FormNext]_formVars => FormTyped'
<1> SUFFICES ASSUME FormTyped, [FormNext]_formVars PROVE FormTyped'
  OBVIOUS
<1>1. \A list \in Lists :
        /\ list \in DOMAIN form /\ list \notin {"filingStatus", "deductionMode", "priorYearContext", "primaryState"}
        /\ IsArray(form[list]) /\ \A row \in Range(form[list]) : IsRow(Extracted, list, row)
  BY DEF FormTyped, AreRows, Lists
<1>2. ASSUME NEW list \in Lists, AddRow(list) PROVE FormTyped'
  <2> DEFINE value == form[list] \o NewRow(list)
  <2>1. IsArray(NewRow(list)) /\ \A row \in Range(NewRow(list)) : IsRow(Extracted, list, row)
    BY NewRows DEF AreRows
  <2>2. IsArray(value) /\ Range(value) = Range(form[list]) \cup Range(NewRow(list))
    BY <1>1, <2>1, ListOperations
  <2>3. update(list, value)
    BY <1>2 DEF AddRow
  <2> HIDE DEF value
  <2>4. \A row \in Range(value) : IsRow(Extracted, list, row)
    BY <1>1, <2>1, <2>2
  <2> QED BY <1>1, <2>2, <2>3, <2>4, UpdatesAreTyped DEF AreRows
<1>3. ASSUME NEW list \in Lists, RemoveRow(list) PROVE FormTyped'
  <2>1. PICK i \in 1 .. Len(form[list]) : update(list, Without(form[list], i))
    BY <1>3 DEF RemoveRow
  <2>2. /\ IsArray(Without(form[list], i))
        /\ Range(Without(form[list], i)) \subseteq Range(form[list])
    BY <1>1, ListOperations
  <2> QED BY <1>1, <2>1, <2>2, UpdatesAreTyped DEF AreRows
<1>4. ASSUME NEW list \in Lists, UpdateRow(list) PROVE FormTyped'
  <2>0. PICK i \in 1 .. Len(form[list]) :
          \E row \in Rewritten(list, form[list][i]) : update(list, [form[list] EXCEPT ![i] = row])
    BY <1>4 DEF UpdateRow
  <2>1. PICK row \in Rewritten(list, form[list][i]) : update(list, [form[list] EXCEPT ![i] = row])
    BY <2>0
  <2> DEFINE value == [form[list] EXCEPT ![i] = row]
  <2>2. IsArray(value) /\ Range(value) \subseteq Range(form[list]) \cup {row}
    BY <1>1, ListOperations
  <2>3. form[list][i] \in Range(form[list])
    BY <1>1, Arrays DEF IsArray
  <2>4. IsRow(Extracted, list, row)
    BY <1>1, <2>3, RewrittenRows
  <2>5. update(list, value)
    BY <2>1
  <2> HIDE DEF value
  <2>6. \A r \in Range(value) : IsRow(Extracted, list, r)
    BY <1>1, <2>2, <2>4
  <2> QED BY <1>1, <2>2, <2>5, <2>6, UpdatesAreTyped DEF AreRows
<1>5. ASSUME UpdateField PROVE FormTyped'
  <2>1. CASE \E s \in FILING_STATUS_OPTIONS : update("filingStatus", s)
    <3>1. PICK s \in FILING_STATUS_OPTIONS : update("filingStatus", s)
      BY <2>1
    <3>2. s \in FilingStatus /\ "filingStatus" \notin Lists
      BY DEF FILING_STATUS_OPTIONS, FilingStatus, Lists
    <3> QED BY <3>1, <3>2, UpdatesAreTyped
  <2>2. CASE \E m \in {"standard", "itemized"} : update("deductionMode", m)
    <3>1. "deductionMode" \notin Lists
      BY DEF Lists
    <3> QED BY <2>2, <3>1, UpdatesAreTyped
  <2>3. CASE \E s \in StateInputs : update("primaryState", s)
    <3>1. PICK s \in StateInputs : update("primaryState", s)
      BY <2>3
    <3>2. \E i \in 1 .. 3 : s = US_STATES[i]
      BY DEF StateInputs, US_STATES, Range
    <3>3. s \in StateCode /\ "primaryState" \notin Lists
      BY <3>2 DEF US_STATES, StateCode, Lists
    <3> QED BY <3>1, <3>3, UpdatesAreTyped
  <2>4. CASE \E c \in PriorYearInputs(form.priorYearContext) : update("priorYearContext", c)
    <3>1. PICK c \in PriorYearInputs(form.priorYearContext) : update("priorYearContext", c)
      BY <2>4
    <3> DEFINE context == form.priorYearContext
    <3>2. context \in PriorYearContext
      BY DEF FormTyped
    <3>3. PICK k, v :
            /\ k \in {"estimatedAGI", "provider", "filingMethod"}
            /\ c = With(context, k, v)
            /\ k = "estimatedAGI" => v \in Int \cup {NULL}
            /\ k = "provider" => v \in Texts \cup {NULL}
            /\ k = "filingMethod" => v \in PriorYearFilingMethod
      <4>1. 0 \in Int /\ 1 \in Int /\ "text" \in Texts /\ PRIOR_FILING_METHOD_OPTIONS = PriorYearFilingMethod
        BY DEF Texts, PRIOR_FILING_METHOD_OPTIONS, PriorYearFilingMethod
      <4> HIDE DEF context
      <4>2. c \in PriorYearInputs(context)
        BY <3>1 DEF context
      <4> QED BY <4>1, <4>2 DEF PriorYearInputs, Typed
    <3> HIDE DEF context
    <3>4. c \in PriorYearContext
      BY <3>2, <3>3 DEF With, PriorYearContext
    <3>5. "priorYearContext" \notin Lists
      BY DEF Lists
    <3> QED BY <3>1, <3>4, <3>5, UpdatesAreTyped
  <2> QED BY <1>5, <2>1, <2>2, <2>3, <2>4 DEF UpdateField
<1>6. ASSUME UNCHANGED <<form, opened>> PROVE FormTyped'
  BY <1>6 DEF FormTyped, Extracted
<1> QED BY <1>2, <1>3, <1>4, <1>5, <1>6 DEF FormNext, HandleSave, Answer, RequestFails, formVars

(* The form is typed in every state.                                       *)
LEMMA FormIsTyped == FormSpec => []FormTyped
BY FormOpens, FormStaysTyped, PTL DEF FormSpec

(* Of a form that is filled in, the schemas of the server refuse nothing   *)
(* that the user chose or that TaxSituationForm.tsx put there itself: what *)
(* they refuse is as the language model wrote it.  That holds for any      *)
(* extraction that the form can be opened on, with types, states, boxes    *)
(* and properties that no schema knows, and however often it is edited.    *)
THEOREM SectionsFit == FormSpec => []SectionsFitSchema
<1>1. FormTyped => SectionsFitSchema
  <2> SUFFICES ASSUME FormTyped, Filled(situationData) PROVE SectionsFitSchema
    BY DEF SectionsFitSchema
  <2> DEFINE doc == situationData
  <2>1. /\ doc.filingStatus = form.filingStatus /\ doc.dependents = form.dependents
        /\ doc.incomeStreams = form.incomeStreams /\ doc.deductions = Deductions
        /\ doc.lifeEvents = form.lifeEvents /\ doc.priorYearContext = form.priorYearContext
        /\ doc.stateResidency.primary = form.primaryState
        /\ doc.stateResidency.additional = form.additionalStates
    BY DEF situationData
  <2>2. \A list \in Lists : /\ IsArray(form[list]) /\ \A row \in Range(form[list]) : IsRow(Extracted, list, row)
                            /\ \A row \in Range(form[list]) : \E i \in 1 .. Len(form[list]) : row = form[list][i]
    BY Arrays DEF FormTyped, AreRows, IsArray
  <2>3. ASSUME NEW row \in Range(form.dependents) PROVE dependentSchema(row)
    <3>1. IsRow(Extracted, "dependents", row) /\ \E i \in 1 .. Len(form.dependents) : row = form.dependents[i]
      BY <2>2 DEF Lists
    <3>2. "" \notin {row.firstName, row.lastName, row.relationship, row.dateOfBirth}
      BY <2>1, <3>1 DEF Filled
    <3> QED BY <3>1, <3>2 DEF IsRow, dependentSchema
  <2>4. ASSUME NEW row \in Range(form.incomeStreams), NEW k \in incomeStreamErrors(row)
        PROVE  AsIn(k, row, Extracted.incomeStreams)
    <3>1. IsRow(Extracted, "incomeStreams", row) /\ \E i \in 1 .. Len(form.incomeStreams) : row = form.incomeStreams[i]
      BY <2>2 DEF Lists
    <3>2. row.source # ""
      BY <2>1, <3>1 DEF Filled
    <3>3. BlankAt(k, "source", row) \/ AsIn(k, row, Extracted.incomeStreams)
      BY <2>4, <3>1 DEF IsRow
    <3> QED BY <3>2, <3>3 DEF BlankAt
  <2>5. ASSUME NEW row \in Range(Deductions) PROVE deductionSchema(row)
    <3>1. CASE form.deductionMode = "standard"
      <4> DEFINE standard == [type |-> "standard", amount |-> 0, documentation |-> <<>>]
      <4>1. deductionSchema(standard)
        BY DEF deductionSchema, HasKeys, DeductionType
      <4> HIDE DEF standard
      <4>2. Deductions = <<standard>>
        BY <3>1 DEF Deductions, standard
      <4>3. Range(Deductions) = {standard}
        BY <4>2, ShortLists
      <4> QED BY <4>1, <4>3
    <3>2. CASE form.deductionMode # "standard"
      BY <2>2, <3>2 DEF Deductions, IsRow, Lists
    <3> QED BY <3>1, <3>2
  <2>6. ASSUME NEW row \in Range(form.lifeEvents), NEW k \in lifeEventErrors(row)
        PROVE  AsIn(k, row, Extracted.lifeEvents)
    <3>1. IsRow(Extracted, "lifeEvents", row) /\ \E i \in 1 .. Len(form.lifeEvents) : row = form.lifeEvents[i]
      BY <2>2 DEF Lists
    <3>2. row.date # ""
      BY <2>1, <3>1 DEF Filled
    <3>3. BlankAt(k, "date", row) \/ AsIn(k, row, Extracted.lifeEvents)
      BY <2>6, <3>1 DEF IsRow
    <3> QED BY <3>2, <3>3 DEF BlankAt
  <2>7. Every(dependentSchema, doc.dependents) /\ Every(deductionSchema, doc.deductions)
    BY <2>1, <2>3, <2>5, Zenon DEF Every
  <2>8. priorYearContextSchema(doc.priorYearContext)
    <3>1. form.priorYearContext \in PriorYearContext
      BY DEF FormTyped
    <3> QED BY <2>1, <3>1 DEF PriorYearContext, priorYearContextSchema, HasKeys
  <2>9. /\ doc.filingStatus \in FilingStatus \cup {Extracted.filingStatus}
        /\ doc.stateResidency.primary \in StateCode \cup {Extracted.primaryState}
    BY <2>1 DEF FormTyped
  <2>10. Range(doc.stateResidency.additional) \subseteq StateCode \cup Range(Extracted.additionalStates)
    BY <2>1, <2>2 DEF Lists, IsRow
  <2>11. /\ \A s \in Range(doc.incomeStreams) :
              \A k \in incomeStreamErrors(s) : AsIn(k, s, Extracted.incomeStreams)
         /\ \A e \in Range(doc.lifeEvents) :
              \A k \in lifeEventErrors(e) : AsIn(k, e, Extracted.lifeEvents)
    BY <2>1, <2>4, <2>6
  <2> QED BY <2>7, <2>8, <2>9, <2>10, <2>11, Zenon DEF SectionsFitSchema
<1> QED BY <1>1, FormIsTyped, PTL

-----------------------------------------------------------------------------
(* A form that is opened without an extraction is given no lines of one.   *)
LEMMA NothingExtracted ==
  ASSUME NEW existing, NEW nothing, nothing = <<>>
  PROVE  /\ w2Streams(nothing, existing) = <<>>
         /\ parsedStreams(nothing, existing) = <<>>
         /\ parsedLifeEvents(nothing) = <<>>
<1>1. \A key : Get(nothing, key, <<>>) = <<>>
  BY DEF Get
<1>2. ASSUME NEW lines, lines = <<>>, NEW at PROVE Kept(lines, at) = <<>>
  <2>1. lines \in Seq({}) /\ at \cap (1 .. Len(lines)) = {}
    BY <1>2
  <2> QED BY <2>1, KeptLines
<1>3. w2Streams(nothing, existing) = <<>>
  BY DEF w2Streams
<1>4. parsedStreams(nothing, existing) = <<>>
  <2> DEFINE parsed == Get(nothing, "incomeStreams", <<>>)
             at == {n \in 1 .. Len(parsed) :
                      ~ \E i \in 1 .. Len(existing) : SameLine(existing[i], parsed[n])}
             lines == Kept(parsed, at)
             Row(i) == parsedLine(lines[i])
  <2>1. parsedStreams(nothing, existing) = [i \in 1 .. Len(lines) |-> Row(i)]
    BY DEF parsedStreams
  <2> HIDE DEF at
  <2>2. lines = <<>>
    BY <1>1, <1>2
  <2> HIDE DEF lines, Row
  <2> QED BY <2>1, <2>2
<1>5. parsedLifeEvents(nothing) = <<>>
  <2> DEFINE events == Get(nothing, "lifeEvents", <<>>)
             Row(i) == [type |-> events[i].type, date |-> events[i].date,
                        details |-> Given(events[i], "details", "")]
  <2>1. parsedLifeEvents(nothing) = [i \in 1 .. Len(events) |-> Row(i)]
    BY DEF parsedLifeEvents
  <2>2. events = <<>>
    BY <1>1
  <2> HIDE DEF events, Row
  <2> QED BY <2>1, <2>2
<1> QED BY <1>3, <1>4, <1>5

(* What a form opened on nothing makes of the extractions has a line for   *)
(* each of their incomes, and nothing else.                                *)
LEMMA ExtractedLines ==
  ASSUME NEW w2Data \in Extractions, NEW d \in Descriptions
  PROVE  LET extracted == InitialForm(<<>>, w2Data, d).incomeStreams
             parsed    == Get(d, "incomeStreams", <<>>)
         IN  /\ w2Data # <<>> => \E i \in 1 .. Len(extracted) : extracted[i].type = "w2"
             /\ \A n \in 1 .. Len(parsed) :
                  \E i \in 1 .. Len(extracted) : SameLine(extracted[i], parsed[n])
<1> DEFINE extracted == InitialForm(<<>>, w2Data, d).incomeStreams
           parsed == Get(d, "incomeStreams", <<>>)
           fromW2 == w2Streams(w2Data, <<>>)
           described == parsedStreams(d, <<>>)
<1>1. IsArray(extracted) /\ Range(extracted) = Range(fromW2) \cup Range(described)
  BY ExtractedForm
<1> HIDE DEF extracted
<1>2. \A row \in Range(fromW2) \cup Range(described) : \E i \in 1 .. Len(extracted) : extracted[i] = row
  BY <1>1, Arrays DEF IsArray
<1>3. ASSUME w2Data # <<>> PROVE \E i \in 1 .. Len(extracted) : extracted[i].type = "w2"
  <2>1. "w2" \notin Types(<<>>)
    BY DEF Types
  <2> DEFINE line == [type |-> "w2",
                      source |-> Given(w2Data, "employerName", ""),
                      amount |-> Given(w2Data, "wages", 0),
                      documentation |-> <<>>,
                      w2Data |-> [box \in DOMAIN w2Data \cap FormBoxes |-> w2Data[box]]]
             line2 == With(line, "employerEIN", w2Data.employerEIN)
  <2>2. fromW2 \in {<<line2>>, <<line>>}
    BY <1>3, <2>1 DEF w2Streams, fromW2
  <2>3. line.type = "w2" /\ "type" \in DOMAIN line
    OBVIOUS
  <2> HIDE DEF line, fromW2
  <2>4. line2.type = "w2"
    BY <2>3 DEF With
  <2> HIDE DEF line2
  <2>5. PICK row : row \in Range(fromW2) /\ row.type = "w2"
    BY <2>2, <2>3, <2>4, ShortLists
  <2> QED BY <1>2, <2>5
<1>4. ASSUME NEW n \in 1 .. Len(parsed)
      PROVE  \E i \in 1 .. Len(extracted) : SameLine(extracted[i], parsed[n])
  <2>1. IsArray(parsed) /\ \A i \in 1 .. Len(parsed) : parsedLine(parsed[i]) \in Range(described)
    BY ParsedRows
  <2>2. \A line \in Range(parsed) : {"type", "source"} \subseteq DOMAIN line
    BY OriginsAssumption, Zenon
  <2> HIDE DEF parsed, described
  <2>3. {"type", "source"} \subseteq DOMAIN parsed[n]
    BY <2>1, <2>2, Arrays DEF IsArray
  <2> DEFINE line == parsed[n]
  <2> HIDE DEF line
  <2>4. parsedLine(line).type = line.type /\ parsedLine(line).source = line.source
    BY <2>3 DEF parsedLine, With, line
  <2> QED BY <1>2, <2>1, <2>4 DEF SameLine, line
<1> QED BY <1>3, <1>4 DEF extracted

(* A form that is opened on what another one sent shows the same, and      *)
(* opened again with the extraction that it came from it counts no income  *)
(* twice: the initialiser of TaxSituationForm.tsx and its handleSave,      *)
(* written apart, are inverse to each other on every form.                 *)
THEOREM ReopenKeeps == FormSpec => []ReopenKeepsForm
<1>1. FormTyped => ReopenKeepsForm
  <2> SUFFICES ASSUME FormTyped PROVE ReopenKeepsForm
    OBVIOUS
  <2> DEFINE doc == situationData
  <2>1. /\ Get(doc, "filingStatus", "single") = form.filingStatus
        /\ Get(doc, "dependents", <<>>) = form.dependents
        /\ Get(doc, "incomeStreams", <<>>) = form.incomeStreams
        /\ Get(doc, "deductions", <<>>) = Deductions
        /\ Get(doc, "lifeEvents", <<>>) = form.lifeEvents
        /\ Given(doc, "priorYearContext", emptyPriorYearContext) = form.priorYearContext
        /\ Get(doc, "stateResidency", <<>>) = [primary |-> form.primaryState, additional |-> form.additionalStates]
    <3>1. form.priorYearContext # NULL
      BY NullAssumption, Zenon DEF FormTyped
    <3> QED BY <3>1 DEF situationData, Get, Given
  <2>2. \A list \in Lists : IsArray(form[list]) /\ \A row \in Range(form[list]) : IsRow(Extracted, list, row)
    BY DEF FormTyped, AreRows
  <2> HIDE DEF doc
  <2> DEFINE again == InitialForm(doc, <<>>, <<>>)
  <2>3. /\ again.filingStatus = form.filingStatus
        /\ again.dependents = form.dependents
        /\ again.incomeStreams = form.incomeStreams
        /\ again.deductionMode = deductionMode(Deductions)
        /\ again.itemizedDeductions = Itemized(Deductions)
        /\ again.lifeEvents = form.lifeEvents
        /\ again.priorYearContext = form.priorYearContext
        /\ again.primaryState = form.primaryState
        /\ again.additionalStates = form.additionalStates
    <3> DEFINE none == w2Streams(<<>>, form.incomeStreams) \o parsedStreams(<<>>, form.incomeStreams)
    <3>1. none = <<>>
      BY NothingExtracted
    <3>2. <<>> \o form.incomeStreams = form.incomeStreams /\ form.lifeEvents \o <<>> = form.lifeEvents
      BY <2>2, ConcatEmptySeq DEF IsArray, Lists
    <3>3. form.lifeEvents \o parsedLifeEvents(<<>>) = form.lifeEvents
      BY <3>2, NothingExtracted
    <3> HIDE DEF none
    <3>4. \A key, default : Get(<<>>, key, default) = default
      BY DEF Get
    <3>5. LET r == [primary |-> form.primaryState, additional |-> form.additionalStates]
          IN  /\ Get(r, "primary", "CA") = form.primaryState
              /\ Get(r, "additional", <<>>) = form.additionalStates
      BY DEF Get
    <3>6. /\ again.filingStatus = Get(doc, "filingStatus", "single")
          /\ again.dependents = form.dependents
          /\ again.incomeStreams = none \o form.incomeStreams
          /\ again.deductionMode = deductionMode(Deductions)
          /\ again.itemizedDeductions = Itemized(Deductions)
          /\ again.lifeEvents = form.lifeEvents \o parsedLifeEvents(<<>>)
          /\ again.priorYearContext = form.priorYearContext
          /\ again.primaryState = Get(Get(doc, "stateResidency", <<>>), "primary", "CA")
          /\ again.additionalStates = Get(Get(doc, "stateResidency", <<>>), "additional", <<>>)
      BY <2>1, <3>4 DEF InitialForm, none
    <3> HIDE DEF again
    <3> QED BY <2>1, <3>1, <3>2, <3>3, <3>5, <3>6
  <2>4. form.deductionMode = "standard" => again.deductionMode = "standard"
    <3> SUFFICES ASSUME form.deductionMode = "standard" PROVE deductionMode(Deductions) = "standard"
      BY <2>3
    <3> DEFINE line == [type |-> "standard", amount |-> 0, documentation |-> <<>>]
    <3>1. Deductions = <<line>> /\ line.type = "standard"
      BY DEF Deductions
    <3> HIDE DEF line
    <3>2. "standard" \in Types(Deductions)
      BY <3>1 DEF Types
    <3> QED BY <3>2 DEF deductionMode
  <2>5. ASSUME form.deductionMode = "itemized", form.itemizedDeductions # <<>>
        PROVE  again.deductionMode = "itemized" /\ again.itemizedDeductions = form.itemizedDeductions
    <3>1. Deductions = form.itemizedDeductions
      BY <2>5 DEF Deductions
    <3>2. IsArray(Deductions) /\ \A row \in Range(Deductions) : row.type # "standard"
      BY <2>2, <3>1 DEF Lists, IsRow
    <3>3. Itemized(Deductions) = Deductions
      BY <3>2, ItemizedRows
    <3>4. "standard" \notin Types(Deductions)
      BY <3>2, Arrays DEF Types, IsArray
    <3>5. deductionMode(Deductions) = "itemized"
      BY <2>5, <3>1, <3>3, <3>4 DEF deductionMode
    <3> HIDE DEF again
    <3> QED BY <2>3, <3>1, <3>3, <3>5
  <2>6. \A k \in DOMAIN form \ {"deductionMode", "itemizedDeductions"} : again[k] = form[k]
    <3> HIDE DEF again
    <3> QED BY <2>3 DEF FormTyped, Lists
  <2> DEFINE w2Data == opened.w2Data
             d == opened.parsedFields
             extracted == Extracted.incomeStreams
             streams == form.incomeStreams
  <2>7. ASSUME \A i \in 1 .. Len(extracted) : \E j \in 1 .. Len(streams) : SameLine(extracted[i], streams[j])
        PROVE  InitialForm(doc, w2Data, d).incomeStreams = streams
    <3> DEFINE parsed == Get(d, "incomeStreams", <<>>)
               at == {n \in 1 .. Len(parsed) :
                        ~ \E i \in 1 .. Len(streams) : SameLine(streams[i], parsed[n])}
               lines == Kept(parsed, at)
    <3>1. w2Data \in Extractions /\ d \in Descriptions
      BY DEF FormTyped
    <3>2. /\ w2Data # <<>> => \E i \in 1 .. Len(extracted) : extracted[i].type = "w2"
          /\ \A n \in 1 .. Len(parsed) : \E i \in 1 .. Len(extracted) : SameLine(extracted[i], parsed[n])
      BY <3>1, ExtractedLines DEF Extracted
    <3>3. InitialForm(doc, w2Data, d).incomeStreams
            = (w2Streams(w2Data, streams) \o parsedStreams(d, streams)) \o streams
      BY <2>1 DEF InitialForm
    <3> HIDE DEF extracted
    <3>4. w2Streams(w2Data, streams) = <<>>
      <4>1. w2Data # <<>> => "w2" \in Types(streams)
        BY <2>7, <3>2 DEF SameLine, Types
      <4> HIDE DEF w2Data, streams
      <4> QED BY <4>1 DEF w2Streams
    <3>5. parsedStreams(d, streams) = <<>>
      <4>1. \A n \in 1 .. Len(parsed) : \E j \in 1 .. Len(streams) : SameLine(streams[j], parsed[n])
        <5> HIDE DEF parsed, streams
        <5> TAKE n \in 1 .. Len(parsed)
        <5>1. PICK i \in 1 .. Len(extracted) : SameLine(extracted[i], parsed[n])
          BY <3>2
        <5>2. PICK j \in 1 .. Len(streams) : SameLine(extracted[i], streams[j])
          BY <2>7
        <5> QED BY <5>1, <5>2 DEF SameLine
      <4>2. at \cap (1 .. Len(parsed)) = {}
        BY <4>1
      <4>3. IsArray(parsed)
        BY <3>1, OriginsAssumption, Zenon
      <4>4. parsedStreams(d, streams) = [i \in 1 .. Len(lines) |-> parsedLine(lines[i])]
        BY DEF parsedStreams
      <4> HIDE DEF at, parsed
      <4>5. lines = <<>>
        BY <4>2, <4>3, KeptLines DEF IsArray
      <4> HIDE DEF lines
      <4> QED BY <4>4, <4>5
    <3>6. <<>> \o streams = streams /\ (<<>> \o <<>>) = <<>>
      BY <2>2, ConcatEmptySeq DEF IsArray, Lists
    <3> HIDE DEF streams, w2Data, d
    <3> QED BY <3>3, <3>4, <3>5, <3>6
  <2> HIDE DEF again
  <2>8. /\ \A k \in DOMAIN form \ {"deductionMode", "itemizedDeductions"} : again[k] = form[k]
        /\ form.deductionMode = "standard" => again.deductionMode = "standard"
        /\ form.deductionMode = "itemized" /\ form.itemizedDeductions # <<>> =>
             /\ again.deductionMode = "itemized"
             /\ again.itemizedDeductions = form.itemizedDeductions
    BY <2>4, <2>5, <2>6
  <2> HIDE DEF extracted
  <2> QED BY <2>7, <2>8, Zenon DEF ReopenKeepsForm, Reopened, again, doc, extracted
<1> QED BY <1>1, FormIsTyped, PTL

-----------------------------------------------------------------------------
(* The requests of the tabs that show server data.                         *)
IsFlight(f) ==
  /\ DOMAIN f = {"tab", "kind", "of", "id", "attribute", "read", "at", "answer", "overtaken", "gone"}
  /\ f.tab \in Tab /\ f.gone \in BOOLEAN /\ f.overtaken \in BOOLEAN
  /\ f.kind \in {"list", "set", "unset", "remove", "register"}
  /\ f.kind \in {"set", "unset"} => f.tab = "users"
  /\ f.kind \in {"remove", "register"} => f.tab = "passkeys"
  /\ f.at \in {"sent", "read", "answered"}
  /\ f.gone => f.kind # "list" /\ f.at # "answered"

AreFlights(fs) == IsArray(fs) /\ \A i \in 1 .. Len(fs) : IsFlight(fs[i])

(* The state of a component.                                               *)
IsTab(v) ==
  /\ DOMAIN v = {"page", "query", "typed", "loading", "error", "rows", "crossed", "deleting"}
  /\ v.rows = [of |-> v.rows.of, has |-> v.rows.has]
  /\ {v.loading, v.error, v.crossed} \subseteq BOOLEAN

(* A list of the tab is on its way; a change is answered that will be      *)
(* followed by one; the passkey is removed and still on the screen.        *)
ToList(f, t)   == f.tab = t /\ f.kind = "list"
ToReread(f, t) == f.tab = t /\ f.at = "answered" /\ f.kind \in {"set", "unset", "register"}
ToDrop(f, t, id) == f.tab = t /\ f.at = "answered" /\ f.kind = "remove" /\ f.id = id

Listed(fs, t)     == \E i \in 1 .. Len(fs) : ToList(fs[i], t)
Unsettled(fs, t)  == \E i \in 1 .. Len(fs) : ToReread(fs[i], t)
Dropped(fs, t, id) == \E i \in 1 .. Len(fs) : ToDrop(fs[i], t, id)

(* What has lists of the server's rows is so, but for the passkeys whose   *)
(* removal will be heard of.                                               *)
Current(rows, fs, t, of, has) ==
  {r \in has : ~ Dropped(fs, t, r[1])} = {r \in rows : r[1] \in IdsOn(t, of)}

(* The answer that will be on the screen when its list is the last.        *)
Trusted(fs, i) ==
  /\ fs[i].kind = "list" /\ fs[i].at = "answered" /\ ~ fs[i].overtaken
  /\ \A j \in 1 .. Len(fs) : i < j => ~ ToList(fs[j], fs[i].tab)

(* What a tab shows is current, or will be replaced.                       *)
RowsOfTab(t) ==
  \/ tab[t].error \/ tab[t].crossed \/ Listed(flights, t) \/ Unsettled(flights, t)
  \/ tab[t].rows.of = Displayed(t) /\ Current(stored[t], flights, t, tab[t].rows.of, tab[t].rows.has)

(* The types, as far as the proof needs them.                              *)
PanelTypes ==
  /\ AreFlights(flights)
  /\ DOMAIN tab = Tab /\ \A t \in Tab : IsTab(tab[t])
  /\ Tab \subseteq DOMAIN stored

(* What a component waits for is for a tab of the section.                 *)
FlightsOfOpenTabs ==
  \A i \in 1 .. Len(flights) : flights[i].gone \/ flights[i].tab \in TabsOf(section)

(* A tab stops loading with its last list at the latest.                   *)
LoadingIsListed == \A t \in TabsOf(section) : tab[t].loading => Listed(flights, t)

(* So it is of every tab that is on the screen,                            *)
RowsAreCurrent == \A t \in TabsOf(section) : RowsOfTab(t)

(* and of every answer that will be the last one, unless a change is read  *)
(* again.                                                                  *)
AnswersAreCurrent ==
  \A i \in 1 .. Len(flights) : Trusted(flights, i) =>
    \/ Unsettled(flights, flights[i].tab)
    \/ Current(stored[flights[i].tab], flights, flights[i].tab, flights[i].of, flights[i].answer)

(* A passkey that was removed does not come back.                          *)
KeysAreMinted ==
  /\ \A r \in stored["passkeys"] : r[1] \in minted /\ ~ Dropped(flights, "passkeys", r[1])
  /\ \A id : Dropped(flights, "passkeys", id) => id \in minted

(* The inductive invariant.                                                *)
PanelsInv ==
  /\ PanelTypes /\ FlightsOfOpenTabs /\ LoadingIsListed
  /\ RowsAreCurrent /\ AnswersAreCurrent /\ KeysAreMinted

-----------------------------------------------------------------------------
(* The tabs of a section are tabs.                                         *)
LEMMA Sections ==
  /\ \A s : TabsOf(s) \subseteq Tab
  /\ TabsOf(Nothing) = {}
BY PanelsAssumption DEF TabsOf

(* What is left when a request is over, some lists being overtaken.        *)
LEMMA RestIs ==
  ASSUME NEW fs, AreFlights(fs), NEW i \in 1 .. Len(fs), NEW t, NEW outdated, NEW gs,
         gs = Outdate(RemoveAt(fs, i), t, outdated)
  PROVE  /\ Len(gs) = Len(fs) - 1 /\ AreFlights(gs)
         /\ \A k \in 1 .. Len(gs) : \E j \in 1 .. Len(fs) \ {i} :
              /\ j = (IF k < i THEN k ELSE k + 1)
              /\ gs[k] = IF ToList(fs[j], t) /\ k \in outdated
                           THEN [fs[j] EXCEPT !.overtaken = TRUE] ELSE fs[j]
         /\ \A j \in 1 .. Len(fs) \ {i} : \E k \in 1 .. Len(gs) : j = (IF k < i THEN k ELSE k + 1)
<1> DEFINE rest == RemoveAt(fs, i)
           old(k) == IF k < i THEN k ELSE k + 1
<1>1. /\ rest \in Seq(Range(fs)) /\ Len(rest) = Len(fs) - 1 /\ Len(fs) \in Nat
      /\ \A k \in 1 .. Len(fs) - 1 : rest[k] = fs[old(k)]
  BY RemovesOne DEF AreFlights, IsArray
<1> HIDE DEF rest
<1>2. ASSUME NEW k \in 1 .. Len(fs) - 1 PROVE old(k) \in 1 .. Len(fs) \ {i}
  <2>1. old(k) \in 1 .. Len(fs)
    BY <1>1
  <2> QED BY <1>1, <2>1
<1>3. ASSUME NEW j \in 1 .. Len(fs) \ {i} PROVE \E k \in 1 .. Len(fs) - 1 : j = old(k)
  <2>1. CASE j < i
    BY <1>1, <2>1
  <2>2. CASE j > i
    <3>1. j - 1 \in 1 .. Len(fs) - 1 /\ old(j - 1) = j
      BY <1>1, <2>2
    <3> QED BY <3>1
  <2> QED BY <1>1, <2>1, <2>2
<1> DEFINE New(k) == IF ToList(rest[k], t) /\ k \in outdated
                       THEN [rest[k] EXCEPT !.overtaken = TRUE] ELSE rest[k]
<1>4. gs = [k \in 1 .. Len(rest) |-> New(k)]
  BY <1>1 DEF Outdate, ToList, rest
<1> HIDE DEF old
<1>5. ASSUME NEW k \in 1 .. Len(rest) PROVE IsFlight(New(k))
  <2>1. IsFlight(rest[k])
    BY <1>1, <1>2 DEF AreFlights
  <2>2. IsFlight([rest[k] EXCEPT !.overtaken = TRUE])
    BY <2>1 DEF IsFlight
  <2> QED BY <2>1, <2>2
<1>6. ASSUME NEW k \in 1 .. Len(rest)
      PROVE  New(k) = IF ToList(fs[old(k)], t) /\ k \in outdated
                        THEN [fs[old(k)] EXCEPT !.overtaken = TRUE] ELSE fs[old(k)]
  <2>1. rest[k] = fs[old(k)]
    BY <1>1
  <2> QED BY <2>1, Zenon
<1> HIDE DEF New
<1>7. gs \in Seq({New(k) : k \in 1 .. Len(rest)}) /\ Len(gs) = Len(rest) /\ \A k \in 1 .. Len(rest) : gs[k] = New(k)
  <2> DEFINE N == Len(rest)
  <2>1. N \in Nat
    BY <1>1
  <2> HIDE DEF N
  <2>2. gs = [k \in 1 .. N |-> New(k)]
    BY <1>4 DEF N
  <2>3. gs \in Seq({New(k) : k \in 1 .. N}) /\ Len(gs) = N /\ \A k \in 1 .. N : gs[k] = New(k)
    BY <2>1, <2>2
  <2> QED BY <2>3 DEF N
<1>8. AreFlights(gs)
  BY <1>5, <1>7, Arrays DEF AreFlights
<1> QED BY <1>1, <1>2, <1>3, <1>6, <1>7, <1>8 DEF old

(* No list is overtaken by the end of a request alone.                     *)
LEMMA PlainRest ==
  ASSUME NEW fs, AreFlights(fs), NEW i \in 1 .. Len(fs), NEW t
  PROVE  RemoveAt(fs, i) = Outdate(RemoveAt(fs, i), t, {})
<1> DEFINE rest == RemoveAt(fs, i)
<1>1. rest \in Seq(Range(fs))
  BY RemovesOne DEF AreFlights, IsArray
<1> HIDE DEF rest
<1>2. rest = [k \in DOMAIN rest |-> rest[k]]
  BY <1>1
<1>3. Outdate(rest, t, {}) = [k \in DOMAIN rest |-> rest[k]]
  BY DEF Outdate
<1> QED BY <1>2, <1>3 DEF rest

(* So what was on its way for a tab is on its way, and what can be trusted *)
(* could be trusted before, or its list is the last one only now.          *)
Survive(fs, i, t, outdated, gs) ==
  /\ AreFlights(gs) /\ Len(gs) = Len(fs) - 1
  /\ \A u : Listed(gs, u) <=> \E j \in 1 .. Len(fs) \ {i} : ToList(fs[j], u)
  /\ \A u : Unsettled(gs, u) <=> \E j \in 1 .. Len(fs) \ {i} : ToReread(fs[j], u)
  /\ \A u, id : Dropped(gs, u, id) <=> \E j \in 1 .. Len(fs) \ {i} : ToDrop(fs[j], u, id)
  /\ \A k \in 1 .. Len(gs) : \E j \in 1 .. Len(fs) : gs[k].gone = fs[j].gone /\ gs[k].tab = fs[j].tab
  /\ \A k \in 1 .. Len(gs) : Trusted(gs, k) =>
       \E j \in 1 .. Len(fs) \ {i} :
         /\ gs[k] = fs[j] /\ j = (IF k < i THEN k ELSE k + 1)
         /\ ~ (ToList(fs[j], t) /\ k \in outdated)
         /\ Trusted(fs, j) \/ (ToList(fs[i], fs[j].tab) /\ j < i)

(* What Outdate and RemoveAt leave is such.                                *)
LEMMA AfterRest ==
  ASSUME NEW fs, AreFlights(fs), NEW i \in 1 .. Len(fs), NEW t, NEW outdated, NEW gs,
         gs = Outdate(RemoveAt(fs, i), t, outdated)
  PROVE  Survive(fs, i, t, outdated, gs)
<1> DEFINE old(k) == IF k < i THEN k ELSE k + 1
<1>1. Len(gs) = Len(fs) - 1 /\ AreFlights(gs)
  BY RestIs
<1>2. ASSUME NEW k \in 1 .. Len(gs)
       PROVE  /\ old(k) \in 1 .. Len(fs) \ {i}
              /\ gs[k] = IF ToList(fs[old(k)], t) /\ k \in outdated
                           THEN [fs[old(k)] EXCEPT !.overtaken = TRUE] ELSE fs[old(k)]
  <2>1. \E j \in 1 .. Len(fs) \ {i} :
          /\ j = old(k)
          /\ gs[k] = IF ToList(fs[j], t) /\ k \in outdated
                       THEN [fs[j] EXCEPT !.overtaken = TRUE] ELSE fs[j]
    BY RestIs
  <2> HIDE DEF old
  <2> QED BY <2>1
<1>3. \A j \in 1 .. Len(fs) \ {i} : \E k \in 1 .. Len(gs) : j = old(k)
  BY RestIs
<1>4. Len(fs) \in Nat /\ \A j \in 1 .. Len(fs) : IsFlight(fs[j])
  BY DEF AreFlights, IsArray
<1>5. ASSUME NEW k \in 1 .. Len(gs), NEW l \in 1 .. Len(gs) PROVE k < l <=> old(k) < old(l)
  <2>1. i \in Int /\ k \in Int /\ l \in Int
    BY <1>1, <1>4
  <2> QED BY <2>1 DEF old
<1> HIDE DEF old
<1>6. ASSUME NEW k \in 1 .. Len(gs)
      PROVE  /\ gs[k].tab = fs[old(k)].tab /\ gs[k].kind = fs[old(k)].kind
             /\ gs[k].at = fs[old(k)].at /\ gs[k].id = fs[old(k)].id /\ gs[k].gone = fs[old(k)].gone
             /\ ~ gs[k].overtaken => gs[k] = fs[old(k)] /\ ~ (ToList(fs[old(k)], t) /\ k \in outdated)
  <2>1. IsFlight(fs[old(k)])
    BY <1>4, <1>2
  <2>2. \/ gs[k] = fs[old(k)] /\ ~ (ToList(fs[old(k)], t) /\ k \in outdated)
        \/ gs[k] = [fs[old(k)] EXCEPT !.overtaken = TRUE]
    BY <1>2
  <2> QED BY <2>1, <2>2 DEF IsFlight
<1>7. ASSUME NEW k \in 1 .. Len(gs)
      PROVE  /\ \A u : ToList(gs[k], u) <=> ToList(fs[old(k)], u)
             /\ \A u : ToReread(gs[k], u) <=> ToReread(fs[old(k)], u)
             /\ \A u, id : ToDrop(gs[k], u, id) <=> ToDrop(fs[old(k)], u, id)
  BY <1>6 DEF ToList, ToReread, ToDrop
<1>8. \A u : Listed(gs, u) <=> \E j \in 1 .. Len(fs) \ {i} : ToList(fs[j], u)
  BY <1>7, <1>2, <1>3, Zenon DEF Listed
<1>9. \A u : Unsettled(gs, u) <=> \E j \in 1 .. Len(fs) \ {i} : ToReread(fs[j], u)
  BY <1>7, <1>2, <1>3, Zenon DEF Unsettled
<1>10. \A u, id : Dropped(gs, u, id) <=> \E j \in 1 .. Len(fs) \ {i} : ToDrop(fs[j], u, id)
  BY <1>7, <1>2, <1>3, Zenon DEF Dropped
<1>11. ASSUME NEW k \in 1 .. Len(gs), Trusted(gs, k)
      PROVE  /\ gs[k] = fs[old(k)] /\ ~ (ToList(fs[old(k)], t) /\ k \in outdated)
             /\ Trusted(fs, old(k)) \/ (ToList(fs[i], fs[old(k)].tab) /\ old(k) < i)
  <2>1. gs[k] = fs[old(k)] /\ ~ (ToList(fs[old(k)], t) /\ k \in outdated)
    BY <1>6, <1>11 DEF Trusted
  <2>2. ASSUME NEW j \in 1 .. Len(fs) \ {i}, old(k) < j PROVE ~ ToList(fs[j], fs[old(k)].tab)
    <3>1. PICK l \in 1 .. Len(gs) : j = old(l)
      BY <1>3
    <3>2. k < l
      BY <1>5, <2>2, <3>1
    <3>3. ~ ToList(gs[l], gs[k].tab)
      BY <1>11, <3>2 DEF Trusted
    <3> QED BY <1>7, <2>1, <3>1, <3>3
  <2>3. fs[old(k)].kind = "list" /\ fs[old(k)].at = "answered" /\ ~ fs[old(k)].overtaken
    BY <1>11, <2>1 DEF Trusted
  <2>4. CASE ToList(fs[i], fs[old(k)].tab) /\ old(k) < i
    BY <2>1, <2>4
  <2>5. CASE ~ (ToList(fs[i], fs[old(k)].tab) /\ old(k) < i)
    <3>1. \A j \in 1 .. Len(fs) : old(k) < j => ~ ToList(fs[j], fs[old(k)].tab)
      BY <2>2, <2>5
    <3> QED BY <2>1, <2>3, <3>1 DEF Trusted
  <2> QED BY <2>4, <2>5
<1>12. \A k \in 1 .. Len(gs) : Trusted(gs, k) =>
         \E j \in 1 .. Len(fs) \ {i} :
           /\ gs[k] = fs[j] /\ j = old(k)
           /\ ~ (ToList(fs[j], t) /\ k \in outdated)
           /\ Trusted(fs, j) \/ (ToList(fs[i], fs[j].tab) /\ j < i)
  BY <1>11, <1>2
<1>13. \A k \in 1 .. Len(gs) : \E j \in 1 .. Len(fs) : gs[k].gone = fs[j].gone /\ gs[k].tab = fs[j].tab
  BY <1>6, <1>2
<1> QED BY <1>1, <1>8, <1>9, <1>10, <1>12, <1>13 DEF old, Survive

(* A request that is sent settles nothing.                                 *)
Sent(fs, f, gs) ==
  /\ AreFlights(gs) /\ Len(gs) = Len(fs) + 1 /\ gs[Len(gs)] = f
  /\ \A k \in 1 .. Len(fs) : k \in 1 .. Len(gs) /\ gs[k] = fs[k]
  /\ \A u : Listed(gs, u) <=> Listed(fs, u) \/ ToList(f, u)
  /\ \A u : Unsettled(gs, u) <=> Unsettled(fs, u)
  /\ \A u, id : Dropped(gs, u, id) <=> Dropped(fs, u, id)
  /\ \A k \in 1 .. Len(gs) : Trusted(gs, k) =>
       k \in 1 .. Len(fs) /\ Trusted(fs, k) /\ ~ ToList(f, fs[k].tab)

(* What Append leaves is such.                                             *)
LEMMA AfterSend ==
  ASSUME NEW fs, AreFlights(fs), NEW f, IsFlight(f), f.at = "sent", NEW gs, gs = Append(fs, f)
  PROVE  Sent(fs, f, gs)
<1>1. Len(fs) \in Nat /\ fs \in Seq(Range(fs)) /\ \A k \in 1 .. Len(fs) : IsFlight(fs[k])
  BY DEF AreFlights, IsArray
<1>2. /\ gs \in Seq(Range(fs) \cup {f}) /\ Len(gs) = Len(fs) + 1
      /\ gs[Len(fs) + 1] = f /\ \A k \in 1 .. Len(fs) : gs[k] = fs[k]
  BY <1>1
<1>3. \A k \in 1 .. Len(gs) : k \in 1 .. Len(fs) \/ k = Len(fs) + 1
  BY <1>1, <1>2
<1>4. \A k \in 1 .. Len(fs) : k \in 1 .. Len(gs) /\ k < Len(gs)
  BY <1>1, <1>2
<1>5. AreFlights(gs)
  BY <1>1, <1>2, <1>3, Arrays DEF AreFlights
<1>6. Len(gs) = Len(fs) + 1 /\ Len(gs) \in 1 .. Len(gs)
  BY <1>1, <1>2
<1>7. \A u : Listed(gs, u) <=> Listed(fs, u) \/ ToList(f, u)
  BY <1>2, <1>3, <1>4, <1>6 DEF Listed
<1>8. \A u, id : ~ ToReread(f, u) /\ ~ ToDrop(f, u, id)
  BY DEF ToReread, ToDrop
<1>9. \A u : Unsettled(gs, u) <=> Unsettled(fs, u)
  BY <1>2, <1>3, <1>4, <1>8 DEF Unsettled
<1>10. \A u, id : Dropped(gs, u, id) <=> Dropped(fs, u, id)
  BY <1>2, <1>3, <1>4, <1>8 DEF Dropped
<1>11. ASSUME NEW k \in 1 .. Len(gs), Trusted(gs, k)
       PROVE  k \in 1 .. Len(fs) /\ Trusted(fs, k) /\ ~ ToList(f, fs[k].tab)
  <2>1. k # Len(gs)
    BY <1>2, <1>11 DEF Trusted
  <2>2. k \in 1 .. Len(fs) /\ gs[k] = fs[k] /\ k < Len(gs)
    BY <1>2, <1>3, <1>4, <2>1
  <2>3. \A j \in 1 .. Len(fs) : gs[j] = fs[j] /\ j \in 1 .. Len(gs)
    BY <1>2, <1>4
  <2>4. Trusted(fs, k)
    BY <1>11, <2>2, <2>3 DEF Trusted
  <2>5. ~ ToList(gs[Len(gs)], gs[k].tab)
    BY <1>6, <1>11, <2>2 DEF Trusted
  <2> QED BY <1>2, <2>2, <2>4, <2>5
<1> QED BY <1>2, <1>4, <1>5, <1>6, <1>7, <1>9, <1>10, <1>11 DEF Sent

(* A request that gets on.                                                 *)
Progressed(fs, i, f, gs) ==
  /\ AreFlights(gs) /\ Len(gs) = Len(fs) /\ gs[i] = f
  /\ \A k \in 1 .. Len(fs) : k # i => gs[k] = fs[k]
  /\ \A u : Listed(gs, u) <=> Listed(fs, u)
  /\ \A u : Unsettled(gs, u) <=> Unsettled(fs, u) \/ ToReread(f, u)
  /\ \A u, id : Dropped(gs, u, id) <=> Dropped(fs, u, id) \/ ToDrop(f, u, id)
  /\ \A k \in 1 .. Len(gs) : k # i => (Trusted(gs, k) <=> Trusted(fs, k))

(* What an update of one request leaves is such.                           *)
LEMMA AfterProgress ==
  ASSUME NEW fs, AreFlights(fs), NEW i \in 1 .. Len(fs), NEW f, IsFlight(f),
         f.tab = fs[i].tab, f.kind = fs[i].kind, f.gone = fs[i].gone, f.id = fs[i].id,
         fs[i].at # "answered", NEW gs, gs = [fs EXCEPT ![i] = f]
  PROVE  Progressed(fs, i, f, gs)
<1>1. Len(fs) \in Nat /\ fs \in Seq(Range(fs)) /\ \A k \in 1 .. Len(fs) : IsFlight(fs[k])
  BY DEF AreFlights, IsArray
<1>2. /\ gs \in Seq(Range(fs) \cup {f}) /\ Len(gs) = Len(fs)
      /\ gs[i] = f /\ \A k \in 1 .. Len(fs) : k # i => gs[k] = fs[k]
  BY <1>1
<1>3. AreFlights(gs)
  BY <1>1, <1>2, Arrays DEF AreFlights
<1>4. \A k \in 1 .. Len(fs) : \A u : ToList(gs[k], u) <=> ToList(fs[k], u)
  BY <1>2 DEF ToList
<1>5. \A u, id : ~ ToReread(fs[i], u) /\ ~ ToDrop(fs[i], u, id)
  BY DEF ToReread, ToDrop
<1>6. \A u : Listed(gs, u) <=> Listed(fs, u)
  BY <1>2, <1>4, Zenon DEF Listed
<1>7. \A u : Unsettled(gs, u) <=> Unsettled(fs, u) \/ ToReread(f, u)
  BY <1>2, <1>5 DEF Unsettled
<1>8. \A u, id : Dropped(gs, u, id) <=> Dropped(fs, u, id) \/ ToDrop(f, u, id)
  BY <1>2, <1>5 DEF Dropped
<1>9. \A k \in 1 .. Len(gs) : k # i => (Trusted(gs, k) <=> Trusted(fs, k))
  BY <1>2, <1>4 DEF Trusted
<1> QED BY <1>2, <1>3, <1>6, <1>7, <1>8, <1>9 DEF Progressed

-----------------------------------------------------------------------------
(* What the conjuncts need of a step that leaves the server alone.         *)
LEMMA SameCurrent ==
  ASSUME NEW fs, NEW gs, NEW t, \A id : Dropped(gs, t, id) <=> Dropped(fs, t, id)
  PROVE  \A rows, of, has : Current(rows, gs, t, of, has) <=> Current(rows, fs, t, of, has)
BY DEF Current

Seen(v) == <<v.page, v.query, v.loading, v.error, v.rows, v.crossed>>

(* Rows stay as current as they were.                                      *)
LEMMA SameRows ==
  ASSUME NEW t, RowsOfTab(t), stored'[t] = stored[t], Seen(tab'[t]) = Seen(tab[t]),
         Listed(flights, t) => Listed(flights', t), Unsettled(flights, t) => Unsettled(flights', t),
         \A id : Dropped(flights', t, id) <=> Dropped(flights, t, id)
  PROVE  RowsOfTab(t)'
<1>1. \A rows, of, has : Current(rows, flights', t, of, has) <=> Current(rows, flights, t, of, has)
  BY SameCurrent
<1>2. /\ tab'[t].error = tab[t].error /\ tab'[t].crossed = tab[t].crossed
      /\ tab'[t].rows = tab[t].rows /\ Displayed(t)' = Displayed(t)
  BY DEF Seen, Displayed
<1> QED BY <1>1, <1>2 DEF RowsOfTab

(* An answer that could be trusted can be trusted.                         *)
SameAnswer(k) ==
  LET t == flights'[k].tab
  IN  /\ stored'[t] = stored[t]
      /\ \E j \in 1 .. Len(flights) : flights'[k] = flights[j] /\ Trusted(flights, j)
      /\ Unsettled(flights, t) => Unsettled(flights', t)
      /\ \A id : Dropped(flights', t, id) <=> Dropped(flights, t, id)

(* So it stays as current as it was.                                       *)
LEMMA SameAnswers ==
  ASSUME AnswersAreCurrent, NEW k \in 1 .. Len(flights'), SameAnswer(k)
  PROVE  LET f == flights'[k]
         IN  Unsettled(flights', f.tab) \/ Current(stored'[f.tab], flights', f.tab, f.of, f.answer)
<1> DEFINE f == flights'[k]
<1>1. PICK j \in 1 .. Len(flights) : f = flights[j] /\ Trusted(flights, j)
  BY DEF SameAnswer
<1>2. Unsettled(flights, f.tab) \/ Current(stored[f.tab], flights, f.tab, f.of, f.answer)
  BY <1>1 DEF AnswersAreCurrent
<1>3. /\ stored'[f.tab] = stored[f.tab]
      /\ Unsettled(flights, f.tab) => Unsettled(flights', f.tab)
      /\ \A id : Dropped(flights', f.tab, id) <=> Dropped(flights, f.tab, id)
  BY DEF SameAnswer
<1> HIDE DEF f
<1>4. \A rows, of, has : Current(rows, flights', f.tab, of, has) <=> Current(rows, flights, f.tab, of, has)
  BY <1>3, SameCurrent
<1> QED BY <1>2, <1>3, <1>4 DEF f

(* No passkey comes or goes.                                               *)
LEMMA SameKeys ==
  ASSUME KeysAreMinted, UNCHANGED <<stored, minted>>,
         \A id : Dropped(flights', "passkeys", id) => Dropped(flights, "passkeys", id)
  PROVE  KeysAreMinted'
BY DEF KeysAreMinted

-----------------------------------------------------------------------------
(* The steps of a component and of its user.                               *)
LEMMA NewFlights ==
  ASSUME NEW t \in Tab, NEW of
  PROVE  /\ IsFlight(List(t, of)) /\ List(t, of).at = "sent" /\ List(t, of).tab = t
         /\ List(t, of).kind = "list"
BY DEF IsFlight, List, NewFlight

(* What a tab shows stays.                                                 *)
LEMMA QuietKeeps ==
  ASSUME PanelsInv, UNCHANGED <<section, stored, minted>>,
         AreFlights(flights'), DOMAIN tab' = Tab,
         \A t \in Tab : IsTab(tab'[t]) /\ Seen(tab'[t]) = Seen(tab[t]),
         \A k \in 1 .. Len(flights') : flights'[k].gone \/ flights'[k].tab \in TabsOf(section),
         \A t : Listed(flights, t) => Listed(flights', t),
         \A t : Unsettled(flights, t) => Unsettled(flights', t),
         \A t, id : Dropped(flights', t, id) <=> Dropped(flights, t, id),
         \A k \in 1 .. Len(flights') : Trusted(flights', k) =>
           (\E j \in 1 .. Len(flights) : flights'[k] = flights[j] /\ Trusted(flights, j))
  PROVE  PanelsInv'
<1>1. PanelTypes'
  BY DEF PanelsInv, PanelTypes
<1>2. FlightsOfOpenTabs'
  BY DEF FlightsOfOpenTabs
<1>3. LoadingIsListed'
  BY Sections DEF PanelsInv, LoadingIsListed, Seen
<1>4. RowsAreCurrent'
  BY Sections, SameRows DEF PanelsInv, RowsAreCurrent
<1>5. AnswersAreCurrent'
  <2> SUFFICES ASSUME NEW k \in 1 .. Len(flights'), Trusted(flights', k)
               PROVE  \/ Unsettled(flights', flights'[k].tab)
                      \/ Current(stored'[flights'[k].tab], flights', flights'[k].tab,
                                 flights'[k].of, flights'[k].answer)
    BY DEF AnswersAreCurrent
  <2>1. SameAnswer(k)
    BY DEF SameAnswer
  <2> QED BY <2>1, SameAnswers DEF PanelsInv
<1>6. KeysAreMinted'
  BY SameKeys DEF PanelsInv
<1> QED BY <1>1, <1>2, <1>3, <1>4, <1>5, <1>6 DEF PanelsInv

(* Nothing is on its way that was not.                                     *)
LEMMA TabOnly ==
  ASSUME PanelsInv, UNCHANGED <<section, flights, stored, minted>>,
         NEW t \in Tab, NEW v, IsTab(v), Seen(v) = Seen(tab[t]), tab' = [tab EXCEPT ![t] = v]
  PROVE  PanelsInv'
<1>1. DOMAIN tab' = Tab /\ \A u \in Tab : IsTab(tab'[u]) /\ Seen(tab'[u]) = Seen(tab[u])
  BY DEF PanelsInv, PanelTypes
<1>2. AreFlights(flights') /\ \A k \in 1 .. Len(flights') : flights'[k].gone \/ flights'[k].tab \in TabsOf(section)
  BY DEF PanelsInv, PanelTypes, FlightsOfOpenTabs
<1> QED BY <1>1, <1>2, QuietKeeps

(* TypeSearch.                                                             *)
LEMMA TypeSearchKeeps == ASSUME PanelsInv, NEW q, TypeSearch(q) PROVE PanelsInv'
<1> DEFINE v == [tab["users"] EXCEPT !.typed = q]
<1>1. "users" \in Tab /\ IsTab(tab["users"])
  BY PanelsAssumption DEF PanelsInv, PanelTypes
<1>2. IsTab(v) /\ Seen(v) = Seen(tab["users"])
  BY <1>1 DEF IsTab, Seen
<1>3. tab' = [tab EXCEPT !["users"] = v] /\ UNCHANGED <<section, flights, stored, minted>>
  BY <1>1 DEF TypeSearch, PanelsInv, PanelTypes
<1> HIDE DEF v
<1> QED BY <1>1, <1>2, <1>3, TabOnly

(* A change that is sent.                                                  *)
LEMMA SendKeeps ==
  ASSUME PanelsInv, NEW f, IsFlight(f), f.at = "sent", f.kind # "list", f.tab \in TabsOf(section),
         SendChange(f), DOMAIN tab' = Tab,
         \A t \in Tab : IsTab(tab'[t]) /\ Seen(tab'[t]) = Seen(tab[t])
  PROVE  PanelsInv'
<1>1. flights' = Append(flights, f) /\ UNCHANGED <<section, stored, minted>>
  BY DEF SendChange
<1>2. AreFlights(flights)
  BY DEF PanelsInv, PanelTypes
<1>3. \A u : ~ ToList(f, u)
  BY DEF ToList
<1>4. /\ AreFlights(flights') /\ Len(flights') = Len(flights) + 1 /\ flights'[Len(flights')] = f
      /\ \A k \in 1 .. Len(flights) : flights'[k] = flights[k]
      /\ \A u : Listed(flights', u) <=> Listed(flights, u)
      /\ \A u : Unsettled(flights', u) <=> Unsettled(flights, u)
      /\ \A u, id : Dropped(flights', u, id) <=> Dropped(flights, u, id)
      /\ \A k \in 1 .. Len(flights') : Trusted(flights', k) => k \in 1 .. Len(flights) /\ Trusted(flights, k)
  <2>1. Sent(flights, f, flights')
    BY <1>1, <1>2, AfterSend
  <2> QED BY <1>3, <2>1 DEF Sent
<1>5. Len(flights) \in Nat
  BY <1>2 DEF AreFlights, IsArray
<1>6. \A k \in 1 .. Len(flights') : k \in 1 .. Len(flights) \/ k = Len(flights')
  BY <1>4, <1>5
<1>7. \A k \in 1 .. Len(flights') : flights'[k].gone \/ flights'[k].tab \in TabsOf(section)
  BY <1>4, <1>6 DEF PanelsInv, FlightsOfOpenTabs
<1>8. \A k \in 1 .. Len(flights') : Trusted(flights', k) =>
        \E j \in 1 .. Len(flights) : flights'[k] = flights[j] /\ Trusted(flights, j)
  BY <1>4
<1> QED BY <1>1, <1>4, <1>7, <1>8, QuietKeeps

(* RegisterKey, PatchUser and RemoveKey.                                   *)
LEMMA ChangesKeep ==
  ASSUME PanelsInv,
         RegisterKey \/ (\E u, a : PatchUser(u, a)) \/ (\E k : RemoveKey(k))
  PROVE  PanelsInv'
<1>1. {"users", "passkeys"} \subseteq Tab /\ \A t \in Tab : IsTab(tab[t])
  BY PanelsAssumption DEF PanelsInv, PanelTypes
<1>2. DOMAIN tab = Tab
  BY DEF PanelsInv, PanelTypes
<1>3. CASE RegisterKey
  <2> DEFINE f == NewFlight("passkeys", "register")
  <2>1. IsFlight(f) /\ f.at = "sent" /\ f.kind # "list" /\ f.tab = "passkeys"
    BY <1>1 DEF IsFlight, NewFlight
  <2>2. SendChange(f) /\ tab' = tab /\ "passkeys" \in TabsOf(section)
    BY <1>3 DEF RegisterKey, IsOpen
  <2> HIDE DEF f
  <2> QED BY <1>1, <1>2, <2>1, <2>2, SendKeeps
<1>4. ASSUME NEW u, NEW a, PatchUser(u, a) PROVE PanelsInv'
  <2> DEFINE kind == IF <<u, a>> \in tab["users"].rows.has THEN "unset" ELSE "set"
             f == [NewFlight("users", kind) EXCEPT !.of = Displayed("users"), !.id = u, !.attribute = a]
  <2>0. kind \in {"set", "unset"}
    OBVIOUS
  <2>2. SendChange(f) /\ tab' = tab /\ "users" \in TabsOf(section)
    BY <1>4 DEF PatchUser, Usable, IsOpen
  <2> HIDE DEF kind
  <2>1. IsFlight(f) /\ f.at = "sent" /\ f.kind # "list" /\ f.tab = "users"
    BY <1>1, <2>0 DEF IsFlight, NewFlight
  <2> HIDE DEF f
  <2> QED BY <1>1, <1>2, <2>1, <2>2, SendKeeps
<1>5. ASSUME NEW k, RemoveKey(k) PROVE PanelsInv'
  <2> DEFINE f == [NewFlight("passkeys", "remove") EXCEPT !.id = k]
  <2>1. IsFlight(f) /\ f.at = "sent" /\ f.kind # "list" /\ f.tab = "passkeys"
    BY <1>1 DEF IsFlight, NewFlight
  <2>2. SendChange(f) /\ tab' = [tab EXCEPT !["passkeys"].deleting = k] /\ "passkeys" \in TabsOf(section)
    BY <1>5 DEF RemoveKey, IsOpen
  <2>3. DOMAIN tab' = Tab /\ \A t \in Tab : IsTab(tab'[t]) /\ Seen(tab'[t]) = Seen(tab[t])
    BY <1>1, <1>2, <2>2 DEF IsTab, Seen
  <2> HIDE DEF f
  <2> QED BY <2>1, <2>2, <2>3, SendKeeps
<1> QED BY <1>3, <1>4, <1>5

(* A list is asked for, perhaps because a change was answered.             *)
LEMMA ListingKeeps ==
  ASSUME PanelsInv, UNCHANGED <<section, stored, minted>>, NEW fs, AreFlights(fs),
         NEW t \in TabsOf(section), NEW of, NEW v, IsTab(v),
         flights' = Append(fs, List(t, of)), tab' = [tab EXCEPT ![t] = v],
         \A k \in 1 .. Len(fs) : fs[k].gone \/ fs[k].tab \in TabsOf(section),
         \A u : u # t => (Listed(flights, u) => Listed(fs, u)) /\ (Unsettled(flights, u) => Unsettled(fs, u)),
         \A u, id : Dropped(fs, u, id) <=> Dropped(flights, u, id),
         \A k \in 1 .. Len(fs) : Trusted(fs, k) /\ fs[k].tab # t =>
           (\E j \in 1 .. Len(flights) : fs[k] = flights[j] /\ Trusted(flights, j))
  PROVE  PanelsInv'
<1> DEFINE f == List(t, of)
<1>1. t \in Tab
  BY Sections
<1>2. IsFlight(f) /\ f.at = "sent" /\ f.tab = t /\ f.kind = "list"
  BY <1>1, NewFlights
<1> HIDE DEF f
<1>3. \A u : ToList(f, u) <=> u = t
  BY <1>2 DEF ToList
<1>4. flights' = Append(fs, f)
  BY DEF f
<1>5. /\ AreFlights(flights') /\ Len(flights') = Len(fs) + 1 /\ flights'[Len(flights')] = f
      /\ \A k \in 1 .. Len(fs) : flights'[k] = fs[k]
      /\ \A u : Listed(flights', u) <=> Listed(fs, u) \/ u = t
      /\ \A u : Unsettled(flights', u) <=> Unsettled(fs, u)
      /\ \A u, id : Dropped(flights', u, id) <=> Dropped(fs, u, id)
      /\ \A k \in 1 .. Len(flights') : Trusted(flights', k) =>
           k \in 1 .. Len(fs) /\ Trusted(fs, k) /\ fs[k].tab # t
  <2>1. Sent(fs, f, flights')
    BY <1>2, <1>4, AfterSend
  <2> QED BY <1>3, <2>1 DEF Sent
<1>6. Len(fs) \in Nat
  BY DEF AreFlights, IsArray
<1>7. \A k \in 1 .. Len(flights') : k \in 1 .. Len(fs) \/ k = Len(flights')
  BY <1>5, <1>6
<1>8. /\ DOMAIN tab' = Tab /\ tab'[t] = v /\ \A u \in Tab : u # t => tab'[u] = tab[u]
      /\ \A u \in Tab : IsTab(tab'[u])
  BY <1>1 DEF PanelsInv, PanelTypes
<1>9. PanelTypes'
  BY <1>5, <1>8 DEF PanelsInv, PanelTypes
<1>10. FlightsOfOpenTabs'
  BY <1>2, <1>5, <1>7 DEF FlightsOfOpenTabs
<1>11. LoadingIsListed'
  BY <1>5, <1>8, Sections DEF PanelsInv, LoadingIsListed
<1>12. RowsAreCurrent'
  <2> SUFFICES ASSUME NEW u \in TabsOf(section) PROVE RowsOfTab(u)'
    BY DEF RowsAreCurrent
  <2>1. CASE u = t
    BY <1>5, <2>1 DEF RowsOfTab
  <2>2. CASE u # t
    <3>1. RowsOfTab(u) /\ tab'[u] = tab[u]
      BY <1>8, <2>2, Sections DEF PanelsInv, RowsAreCurrent
    <3> QED BY <1>5, <2>2, <3>1, SameRows
  <2> QED BY <2>1, <2>2
<1>13. AnswersAreCurrent'
  <2> SUFFICES ASSUME NEW k \in 1 .. Len(flights'), Trusted(flights', k)
               PROVE  \/ Unsettled(flights', flights'[k].tab)
                      \/ Current(stored'[flights'[k].tab], flights', flights'[k].tab,
                                 flights'[k].of, flights'[k].answer)
    BY DEF AnswersAreCurrent
  <2>1. k \in 1 .. Len(fs) /\ Trusted(fs, k) /\ fs[k].tab # t /\ flights'[k] = fs[k]
    BY <1>5
  <2>2. SameAnswer(k)
    BY <1>5, <2>1 DEF SameAnswer
  <2> QED BY <2>2, SameAnswers DEF PanelsInv
<1>14. KeysAreMinted'
  BY <1>5, SameKeys DEF PanelsInv
<1> QED BY <1>9, <1>10, <1>11, <1>12, <1>13, <1>14 DEF PanelsInv

(* A component that fetches is one.                                        *)
LEMMA FetchingTab == ASSUME NEW t, NEW v, IsTab(v) PROVE IsTab(Fetching(t, v))
BY DEF IsTab, Fetching

(* Refetch, for whatever the component has become.                         *)
LEMMA RefetchKeeps ==
  ASSUME PanelsInv, UNCHANGED <<section, stored, minted>>,
         NEW t \in TabsOf(section), NEW v, IsTab(v), Refetch(t, v, flights)
  PROVE  PanelsInv'
<1>1. /\ flights' = Append(flights, List(t, <<v.page, v.query>>))
      /\ tab' = [tab EXCEPT ![t] = Fetching(t, v)]
  BY DEF Refetch
<1>2. /\ AreFlights(flights)
      /\ \A k \in 1 .. Len(flights) : flights[k].gone \/ flights[k].tab \in TabsOf(section)
  BY DEF PanelsInv, PanelTypes, FlightsOfOpenTabs
<1>3. IsTab(Fetching(t, v))
  BY FetchingTab
<1> QED BY <1>1, <1>2, <1>3, ListingKeeps

(* SearchTimer, Refresh and TurnPage.                                      *)
LEMMA ReadsKeep ==
  ASSUME PanelsInv,
         SearchTimer \/ (\E t \in Tab : Refresh(t) \/ \E p : TurnPage(t, p))
  PROVE  PanelsInv'
<1>1. "users" \in Tab /\ \A t \in Tab : IsTab(tab[t])
  BY PanelsAssumption DEF PanelsInv, PanelTypes
<1>2. CASE SearchTimer
  <2> DEFINE v == [tab["users"] EXCEPT !.query = tab["users"].typed, !.page = 1, !.typed = Nothing]
  <2>1. IsTab(v)
    BY <1>1 DEF IsTab
  <2>2. UNCHANGED <<section, stored, minted>> /\ "users" \in TabsOf(section)
    BY <1>2 DEF SearchTimer, IsOpen
  <2>3. /\ v.loading = tab["users"].loading /\ v.error = tab["users"].error
        /\ v.rows = tab["users"].rows /\ v.crossed = tab["users"].crossed
    BY <1>1 DEF IsTab
  <2>4. \/ /\ <<v.page, v.query>> = Displayed("users")
           /\ tab' = [tab EXCEPT !["users"] = v] /\ UNCHANGED flights
        \/ Refetch("users", v, flights)
    BY <1>2 DEF SearchTimer
  <2> HIDE DEF v
  <2>5. CASE /\ <<v.page, v.query>> = Displayed("users")
             /\ tab' = [tab EXCEPT !["users"] = v] /\ UNCHANGED flights
    <3>1. Seen(v) = Seen(tab["users"])
      BY <2>3, <2>5 DEF Seen, Displayed
    <3> QED BY <1>1, <2>1, <2>2, <2>5, <3>1, TabOnly
  <2>6. CASE Refetch("users", v, flights)
    BY <2>1, <2>2, <2>6, RefetchKeeps
  <2> QED BY <2>4, <2>5, <2>6
<1>3. ASSUME NEW t \in Tab, Refresh(t) PROVE PanelsInv'
  BY <1>1, <1>3, RefetchKeeps DEF Refresh, Usable, IsOpen
<1>4. ASSUME NEW t \in Tab, NEW p, TurnPage(t, p) PROVE PanelsInv'
  <2> DEFINE v == [tab[t] EXCEPT !.page = p]
  <2>1. IsTab(v)
    BY <1>1 DEF IsTab
  <2>2. UNCHANGED <<section, stored, minted>> /\ t \in TabsOf(section) /\ Refetch(t, v, flights)
    BY <1>4 DEF TurnPage, Usable, IsOpen
  <2> HIDE DEF v
  <2> QED BY <2>1, <2>2, RefetchKeeps
<1> QED BY <1>2, <1>3, <1>4

(* The answer to a change that the tab follows by a list.                  *)
LEMMA RereadKeeps ==
  ASSUME PanelsInv, NEW i \in DOMAIN flights, HandlePatch(i) \/ HandleRegister(i)
  PROVE  PanelsInv'
<1> DEFINE f == flights[i]
           t == f.tab
           rest == RemoveAt(flights, i)
<1>1. AreFlights(flights) /\ i \in 1 .. Len(flights) /\ IsFlight(f)
  BY DEF PanelsInv, PanelTypes, AreFlights, IsArray
<1>2. f.at = "answered" /\ f.kind \in {"set", "unset", "register"} /\ UNCHANGED <<section, stored, minted>>
  BY DEF HandlePatch, HandleRegister
<1>3. t \in TabsOf(section)
  BY <1>1, <1>2 DEF IsFlight, PanelsInv, FlightsOfOpenTabs
<1>4. \E of, v : IsTab(v) /\ flights' = Append(rest, List(t, of)) /\ tab' = [tab EXCEPT ![t] = v]
  <2>1. IsTab(tab[t])
    BY <1>1 DEF IsFlight, PanelsInv, PanelTypes
  <2>2. IsTab(Fetching(t, tab[t]))
    BY <2>1, FetchingTab
  <2>3. CASE HandlePatch(i)
    <3>1. t = "users"
      BY <1>1, <2>3 DEF HandlePatch, IsFlight
    <3>2. flights' = Append(rest, List(t, f.of)) /\ tab' = [tab EXCEPT ![t] = Fetching(t, tab[t])]
      BY <2>3, <3>1 DEF HandlePatch, Rest, PanelsInv, PanelTypes
    <3> HIDE DEF t, rest
    <3> QED BY <2>2, <3>2
  <2>4. CASE HandleRegister(i)
    <3>1. t = "passkeys"
      BY <1>1, <2>4 DEF HandleRegister, IsFlight
    <3>2. /\ flights' = Append(rest, List(t, <<tab[t].page, tab[t].query>>))
          /\ tab' = [tab EXCEPT ![t] = Fetching(t, tab[t])]
      BY <2>4, <3>1 DEF HandleRegister, Refetch, Rest
    <3> HIDE DEF t, rest
    <3> QED BY <2>2, <3>2
  <2> QED BY <2>3, <2>4
<1>5. PICK of, v : IsTab(v) /\ flights' = Append(rest, List(t, of)) /\ tab' = [tab EXCEPT ![t] = v]
  BY <1>4
<1>6. rest = Outdate(RemoveAt(flights, i), t, {})
  BY <1>1, PlainRest
<1> HIDE DEF rest
<1>7. /\ \A u : ~ ToList(f, u) /\ (ToReread(f, u) => u = t)
      /\ \A u, id : ~ ToDrop(f, u, id)
  BY <1>2 DEF ToList, ToReread, ToDrop
<1>8. Survive(flights, i, t, {}, rest)
  BY <1>1, <1>6, AfterRest
<1> HIDE DEF t
<1>13. ASSUME NEW k \in 1 .. Len(rest), Trusted(rest, k)
       PROVE  \E j \in 1 .. Len(flights) : rest[k] = flights[j] /\ Trusted(flights, j)
  <2>1. \E j \in 1 .. Len(flights) \ {i} :
          rest[k] = flights[j] /\ (Trusted(flights, j) \/ (ToList(flights[i], flights[j].tab) /\ j < i))
    BY <1>8, <1>13 DEF Survive
  <2> QED BY <1>7, <2>1
<1>14. \A u : u # t => (Listed(flights, u) => Listed(rest, u)) /\ (Unsettled(flights, u) => Unsettled(rest, u))
  BY <1>7, <1>8 DEF Survive, Listed, Unsettled
<1>15. \A u, id : Dropped(rest, u, id) <=> Dropped(flights, u, id)
  BY <1>7, <1>8 DEF Survive, Dropped
<1>16. \A k \in 1 .. Len(rest) : rest[k].gone \/ rest[k].tab \in TabsOf(section)
  BY <1>8 DEF Survive, PanelsInv, FlightsOfOpenTabs
<1>17. AreFlights(rest)
  BY <1>8 DEF Survive
<1> QED BY <1>2, <1>3, <1>5, <1>13, <1>14, <1>15, <1>16, <1>17, ListingKeeps

(* A request that gets on to the server and changes nothing there.         *)
LEMMA ProgressKeeps ==
  ASSUME PanelsInv, NEW i \in DOMAIN flights, AnswerList(i) \/ ReadUser(i)
  PROVE  PanelsInv'
<1> DEFINE f == flights[i]
           g == IF f.kind = "list" THEN [f EXCEPT !.at = "answered", !.answer = Served(f.tab, f.of).has]
                ELSE [f EXCEPT !.at = "read", !.read = {r \in stored["users"] : r[1] = f.id}]
<1>1. AreFlights(flights) /\ i \in 1 .. Len(flights) /\ IsFlight(f)
  BY DEF PanelsInv, PanelTypes, AreFlights, IsArray
<1>2. /\ f.at = "sent" /\ f.kind \in {"list", "set", "unset"} /\ UNCHANGED <<section, tab, stored, minted>>
      /\ flights' = [flights EXCEPT ![i] = g]
  <2>1. CASE AnswerList(i)
    BY <1>1, <2>1 DEF AnswerList, AreFlights, IsArray
  <2>2. CASE ReadUser(i)
    BY <1>1, <2>2 DEF ReadUser, AreFlights, IsArray
  <2> QED BY <2>1, <2>2
<1>3. /\ IsFlight(g) /\ g.tab = f.tab /\ g.kind = f.kind /\ g.gone = f.gone /\ g.id = f.id /\ g.of = f.of
      /\ g.kind = "list" => g.answer = Served(f.tab, f.of).has
      /\ \A u, id : ~ ToReread(g, u) /\ ~ ToDrop(g, u, id)
  <2>1. CASE f.kind = "list"
    BY <1>1, <1>2, <2>1 DEF IsFlight, ToReread, ToDrop
  <2>2. CASE f.kind # "list"
    BY <1>1, <1>2, <2>2 DEF IsFlight, ToReread, ToDrop
  <2> QED BY <2>1, <2>2
<1> HIDE DEF g
<1>4. Progressed(flights, i, g, flights')
  BY <1>1, <1>2, <1>3, AfterProgress
<1>5. /\ AreFlights(flights') /\ Len(flights') = Len(flights) /\ flights'[i] = g
      /\ \A k \in 1 .. Len(flights) : k # i => flights'[k] = flights[k]
      /\ \A u : (Listed(flights', u) <=> Listed(flights, u))
      /\ \A u : (Unsettled(flights', u) <=> Unsettled(flights, u))
      /\ \A u, id : (Dropped(flights', u, id) <=> Dropped(flights, u, id))
      /\ \A k \in 1 .. Len(flights') : k # i => (Trusted(flights', k) <=> Trusted(flights, k))
  BY <1>3, <1>4 DEF Progressed
<1>10. PanelTypes'
  BY <1>2, <1>5 DEF PanelsInv, PanelTypes
<1>11. FlightsOfOpenTabs'
  BY <1>2, <1>3, <1>5 DEF PanelsInv, FlightsOfOpenTabs
<1>12. LoadingIsListed'
  BY <1>2, <1>5 DEF PanelsInv, LoadingIsListed
<1>13. RowsAreCurrent'
  BY <1>2, <1>5, SameRows DEF PanelsInv, RowsAreCurrent
<1>14. AnswersAreCurrent'
  <2> SUFFICES ASSUME NEW k \in 1 .. Len(flights'), Trusted(flights', k)
               PROVE  \/ Unsettled(flights', flights'[k].tab)
                      \/ Current(stored'[flights'[k].tab], flights', flights'[k].tab,
                                 flights'[k].of, flights'[k].answer)
    BY DEF AnswersAreCurrent
  <2>1. CASE k # i
    <3>1. SameAnswer(k)
      BY <1>2, <1>5, <2>1 DEF SameAnswer
    <3> QED BY <3>1, SameAnswers DEF PanelsInv
  <2>2. CASE k = i
    <3>1. g.kind = "list"
      BY <1>5, <2>2 DEF Trusted
    <3>2. g.answer = {r \in stored[f.tab] : r[1] \in IdsOn(f.tab, f.of)}
      BY <1>3, <3>1 DEF Served
    <3>3. \A r \in stored[f.tab] : ~ Dropped(flights', f.tab, r[1])
      <4>1. \A id : Dropped(flights, f.tab, id) => f.tab = "passkeys"
        BY <1>1 DEF Dropped, ToDrop, AreFlights, IsFlight
      <4> QED BY <1>5, <4>1 DEF PanelsInv, KeysAreMinted
    <3>4. {r \in g.answer : ~ Dropped(flights', f.tab, r[1])} = g.answer
      BY <3>2, <3>3
    <3>5. Current(stored[f.tab], flights', f.tab, f.of, g.answer)
      BY <3>2, <3>4 DEF Current
    <3> QED BY <1>2, <1>3, <1>5, <2>2, <3>5
  <2> QED BY <2>1, <2>2
<1>15. KeysAreMinted'
  BY <1>2, <1>5, SameKeys DEF PanelsInv
<1> QED BY <1>10, <1>11, <1>12, <1>13, <1>14, <1>15 DEF PanelsInv

-----------------------------------------------------------------------------
(* The steps of the server that change rows.                               *)
LEMMA ChangedTypes ==
  ASSUME PanelsInv, NEW i \in DOMAIN flights
  PROVE  /\ AreFlights(flights) /\ i \in 1 .. Len(flights) /\ IsFlight(flights[i])
         /\ \A u : u # flights[i].tab => ~ ToReread(flights[i], u)
         /\ flights[i].kind # "list" => \A u : ~ ToList(flights[i], u)
         /\ flights[i].at # "answered" => \A u, id : ~ ToReread(flights[i], u) /\ ~ ToDrop(flights[i], u, id)
BY DEF PanelsInv, PanelTypes, AreFlights, IsArray, ToReread, ToList, ToDrop

(* Of a change that no component waits for, the tab sees nothing.          *)
LEMMA UnnoticedKeeps ==
  ASSUME PanelsInv, NEW i \in DOMAIN flights, flights[i].gone, flights[i].at # "answered",
         flights[i].kind # "list", NEW rows, Changed(i, rows),
         \A r \in rows : r \in stored[flights[i].tab] \/ (r[1] \notin minted /\ r[1] \in minted')
                                                      \/ flights[i].tab # "passkeys",
         minted \subseteq minted'
  PROVE  PanelsInv'
<1> DEFINE f == flights[i]
           t == f.tab
           rest == RemoveAt(flights, i)
<1>1. /\ AreFlights(flights) /\ i \in 1 .. Len(flights) /\ IsFlight(f)
      /\ \A u : ~ ToList(f, u)
      /\ \A u, id : ~ ToReread(f, u) /\ ~ ToDrop(f, u, id)
  BY ChangedTypes
<1>2. t \in Tab /\ t \in DOMAIN stored /\ t \in DOMAIN tab
  BY <1>1 DEF IsFlight, PanelsInv, PanelTypes
<1>3. /\ section' = section /\ stored' = [stored EXCEPT ![t] = rows]
      /\ flights' = Outdate(RemoveAt(flights, i), t, Answered(rest))
      /\ tab' = [tab EXCEPT ![t].crossed = @ \/ IsOpen(t)]
  BY DEF Changed, Unnoticed
<1>4. Survive(flights, i, t, Answered(rest), flights')
  BY <1>1, <1>3, AfterRest
<1>5. /\ DOMAIN stored' = DOMAIN stored /\ stored'[t] = rows
      /\ \A u \in DOMAIN stored : u # t => stored'[u] = stored[u]
  BY <1>2, <1>3
<1>6. /\ DOMAIN tab' = Tab /\ \A u \in Tab : u # t => tab'[u] = tab[u]
      /\ \A u \in Tab : IsTab(tab'[u]) /\ tab'[u].loading = tab[u].loading
      /\ t \in TabsOf(section) => tab'[t].crossed
  <2>1. /\ DOMAIN tab' = Tab /\ \A u \in Tab : u # t => tab'[u] = tab[u]
        /\ tab'[t] = [tab[t] EXCEPT !.crossed = @ \/ IsOpen(t)]
    BY <1>2, <1>3 DEF PanelsInv, PanelTypes
  <2>2. \A u \in Tab : IsTab(tab[u])
    BY DEF PanelsInv, PanelTypes
  <2>3. ASSUME NEW open \in BOOLEAN, NEW w, w = [tab[t] EXCEPT !.crossed = @ \/ open]
        PROVE  IsTab(w) /\ w.loading = tab[t].loading /\ (open => w.crossed)
    <3>1. IsTab(tab[t])
      BY <1>2, <2>2
    <3>2. (tab[t].crossed \/ open) \in BOOLEAN
      OBVIOUS
    <3>3. w.crossed = (tab[t].crossed \/ open) /\ DOMAIN w = DOMAIN tab[t]
      BY <2>3, <3>1 DEF IsTab
    <3>4. /\ w.loading = tab[t].loading /\ w.error = tab[t].error /\ w.rows = tab[t].rows
      BY <2>3, <3>1 DEF IsTab
    <3> QED BY <3>1, <3>2, <3>3, <3>4 DEF IsTab
  <2>4. IsTab(tab'[t]) /\ tab'[t].loading = tab[t].loading /\ (IsOpen(t) => tab'[t].crossed)
    BY <2>1, <2>3 DEF IsOpen
  <2> QED BY <2>1, <2>2, <2>4 DEF IsOpen
<1>7. \A u : Listed(flights, u) <=> Listed(flights', u)
  BY <1>1, <1>4 DEF Survive, Listed
<1>8. \A u : Unsettled(flights, u) <=> Unsettled(flights', u)
  BY <1>1, <1>4 DEF Survive, Unsettled
<1>9. \A u, id : Dropped(flights', u, id) <=> Dropped(flights, u, id)
  <2>1. \A u, id : Dropped(flights', u, id) <=> \E j \in 1 .. Len(flights) \ {i} : ToDrop(flights[j], u, id)
    BY <1>4 DEF Survive
  <2>2. \A u, id : ~ ToDrop(flights[i], u, id)
    BY <1>1
  <2> HIDE DEF f, t, rest
  <2> QED BY <2>1, <2>2 DEF Dropped
<1>10. PanelTypes'
  BY <1>4, <1>5, <1>6 DEF Survive, PanelsInv, PanelTypes
<1>11. FlightsOfOpenTabs'
  BY <1>3, <1>4 DEF Survive, PanelsInv, FlightsOfOpenTabs
<1>12. LoadingIsListed'
  BY <1>3, <1>6, <1>7, Sections DEF PanelsInv, LoadingIsListed
<1>13. RowsAreCurrent'
  <2> SUFFICES ASSUME NEW u \in TabsOf(section) PROVE RowsOfTab(u)'
    BY <1>3 DEF RowsAreCurrent
  <2>1. CASE u = t
    BY <1>6, <2>1 DEF RowsOfTab
  <2>2. CASE u # t
    <3>1. RowsOfTab(u) /\ tab'[u] = tab[u] /\ stored'[u] = stored[u]
      BY <1>5, <1>6, <2>2, Sections DEF PanelsInv, PanelTypes, RowsAreCurrent
    <3> QED BY <1>7, <1>8, <1>9, <3>1, SameRows
  <2> QED BY <2>1, <2>2
<1>14. AnswersAreCurrent'
  <2> SUFFICES ASSUME NEW k \in 1 .. Len(flights'), Trusted(flights', k)
               PROVE  \/ Unsettled(flights', flights'[k].tab)
                      \/ Current(stored'[flights'[k].tab], flights', flights'[k].tab,
                                 flights'[k].of, flights'[k].answer)
    BY DEF AnswersAreCurrent
  <2>1. PICK j \in 1 .. Len(flights) \ {i} :
          /\ flights'[k] = flights[j] /\ j = (IF k < i THEN k ELSE k + 1)
          /\ ~ (ToList(flights[j], t) /\ k \in Answered(rest))
          /\ Trusted(flights, j) \/ (ToList(flights[i], flights[j].tab) /\ j < i)
    BY <1>4 DEF Survive
  <2>2. Trusted(flights, j)
    BY <1>1, <2>1
  <2>3. k \in Answered(rest)
    <3>1. Len(flights') = Len(flights) - 1
      BY <1>4 DEF Survive
    <3>2. /\ rest \in Seq(Range(flights)) /\ Len(rest) = Len(flights) - 1
          /\ \A l \in 1 .. Len(flights) - 1 : rest[l] = IF l < i THEN flights[l] ELSE flights[l + 1]
      BY <1>1, RemovesOne DEF AreFlights, IsArray
    <3>3. k \in DOMAIN rest /\ rest[k] = flights[j]
      BY <2>1, <3>1, <3>2
    <3> QED BY <2>2, <3>3 DEF Answered, Trusted
  <2>4. flights[j].tab # t /\ flights[j].tab \in Tab
    BY <1>1, <2>1, <2>2, <2>3 DEF ToList, Trusted, AreFlights, IsFlight
  <2>5. stored'[flights[j].tab] = stored[flights[j].tab]
    BY <1>5, <2>4 DEF PanelsInv, PanelTypes
  <2>6. SameAnswer(k)
    BY <1>8, <1>9, <2>1, <2>2, <2>5 DEF SameAnswer
  <2> QED BY <2>6, SameAnswers DEF PanelsInv
<1>15. KeysAreMinted'
  <2>1. "passkeys" \in DOMAIN stored
    BY PanelsAssumption DEF PanelsInv, PanelTypes
  <2>2. \A r \in stored'["passkeys"] : r \in stored["passkeys"] \/ (r[1] \notin minted /\ r[1] \in minted')
    BY <1>5, <2>1
  <2> QED BY <1>9, <2>2 DEF PanelsInv, KeysAreMinted
<1> QED BY <1>10, <1>11, <1>12, <1>13, <1>14, <1>15 DEF PanelsInv

(* Of one that a component waits for, the tab will hear: it reads again,   *)
(* or drops the row.                                                       *)
LEMMA NoticedKeeps ==
  ASSUME PanelsInv, NEW i \in DOMAIN flights, ~ flights[i].gone, flights[i].at # "answered",
         flights[i].kind # "list", NEW rows, Changed(i, rows),
         \A r \in rows : r \in stored[flights[i].tab] \/ (r[1] \notin minted /\ r[1] \in minted')
                                                      \/ flights[i].tab # "passkeys",
         minted \subseteq minted',
         flights[i].kind = "remove" =>
           /\ rows = {r \in stored[flights[i].tab] : r[1] # flights[i].id}
           /\ \E r \in stored[flights[i].tab] : r[1] = flights[i].id
  PROVE  PanelsInv'
<1> DEFINE f == flights[i]
           t == f.tab
           g == [f EXCEPT !.at = "answered"]
<1>1. AreFlights(flights) /\ i \in 1 .. Len(flights) /\ IsFlight(f)
  BY ChangedTypes
<1>2. t \in Tab /\ t \in DOMAIN stored /\ t \in TabsOf(section)
  BY <1>1 DEF IsFlight, PanelsInv, PanelTypes, FlightsOfOpenTabs
<1>3. /\ section' = section /\ tab' = tab /\ stored' = [stored EXCEPT ![t] = rows]
      /\ flights' = [flights EXCEPT ![i].at = "answered"]
  BY DEF Changed
<1>4. /\ IsFlight(g) /\ g.tab = f.tab /\ g.kind = f.kind /\ g.gone = f.gone /\ g.id = f.id
      /\ g.at = "answered" /\ flights' = [flights EXCEPT ![i] = g]
  BY <1>1, <1>3 DEF IsFlight, AreFlights, IsArray
<1> HIDE DEF g
<1>5. Progressed(flights, i, g, flights')
  BY <1>1, <1>4, AfterProgress
<1>6. /\ DOMAIN stored' = DOMAIN stored /\ stored'[t] = rows
      /\ \A u \in DOMAIN stored : u # t => stored'[u] = stored[u]
  BY <1>2, <1>3
<1>7. /\ \A u : ToReread(g, u) <=> (u = t /\ f.kind # "remove")
      /\ \A u, id : ToDrop(g, u, id) <=> (u = t /\ f.kind = "remove" /\ id = f.id)
  BY <1>1, <1>4 DEF ToReread, ToDrop, IsFlight
<1>8. /\ AreFlights(flights') /\ Len(flights') = Len(flights) /\ flights'[i] = g
      /\ \A k \in 1 .. Len(flights) : k # i => flights'[k] = flights[k]
      /\ \A u : (Listed(flights', u) <=> Listed(flights, u))
      /\ \A u : (Unsettled(flights', u) <=> Unsettled(flights, u) \/ (u = t /\ f.kind # "remove"))
      /\ \A u, id : (Dropped(flights', u, id) <=> Dropped(flights, u, id)
                                                   \/ (u = t /\ f.kind = "remove" /\ id = f.id))
      /\ \A k \in 1 .. Len(flights') : k # i => (Trusted(flights', k) <=> Trusted(flights, k))
  BY <1>5, <1>7 DEF Progressed
<1>9. ASSUME f.kind = "remove", NEW of, NEW has, Current(stored[t], flights, t, of, has)
      PROVE  Current(stored'[t], flights', t, of, has)
  <2>1. rows = {r \in stored[t] : r[1] # f.id}
    BY <1>9
  <2>2. \A id : Dropped(flights', t, id) <=> Dropped(flights, t, id) \/ id = f.id
    BY <1>8, <1>9
  <2> HIDE DEF t, f
  <2>3. {r \in has : ~ Dropped(flights', t, r[1])} = {r \in rows : r[1] \in IdsOn(t, of)}
    BY <1>9, <2>1, <2>2 DEF Current
  <2> QED BY <1>6, <2>3 DEF Current
<1>10. PanelTypes'
  BY <1>3, <1>6, <1>8 DEF PanelsInv, PanelTypes
<1>11. FlightsOfOpenTabs'
  BY <1>2, <1>3, <1>4, <1>8 DEF PanelsInv, FlightsOfOpenTabs
<1>12. LoadingIsListed'
  BY <1>3, <1>8 DEF PanelsInv, LoadingIsListed
<1>13. RowsAreCurrent'
  <2> SUFFICES ASSUME NEW u \in TabsOf(section) PROVE RowsOfTab(u)'
    BY <1>3 DEF RowsAreCurrent
  <2>1. RowsOfTab(u)
    BY DEF PanelsInv, RowsAreCurrent
  <2>2. CASE u = t /\ f.kind # "remove"
    BY <1>8, <2>2 DEF RowsOfTab
  <2>3. CASE u = t /\ f.kind = "remove"
    <3>1. CASE tab[t].error \/ tab[t].crossed \/ Listed(flights, t) \/ Unsettled(flights, t)
      BY <1>3, <1>8, <2>3, <3>1 DEF RowsOfTab
    <3>2. CASE tab[t].rows.of = Displayed(t) /\ Current(stored[t], flights, t, tab[t].rows.of, tab[t].rows.has)
      <4>1. Current(stored'[t], flights', t, tab[t].rows.of, tab[t].rows.has)
        BY <1>9, <2>3, <3>2
      <4> QED BY <1>3, <2>3, <3>2, <4>1 DEF RowsOfTab, Displayed
    <3> QED BY <2>1, <2>3, <3>1, <3>2 DEF RowsOfTab
  <2>4. CASE u # t
    <3>1. stored'[u] = stored[u]
      BY <1>6, <2>4, Sections DEF PanelsInv, PanelTypes
    <3> QED BY <1>3, <1>8, <2>1, <2>4, <3>1, SameRows
  <2> QED BY <2>2, <2>3, <2>4
<1>14. AnswersAreCurrent'
  <2> SUFFICES ASSUME NEW k \in 1 .. Len(flights'), Trusted(flights', k)
               PROVE  \/ Unsettled(flights', flights'[k].tab)
                      \/ Current(stored'[flights'[k].tab], flights', flights'[k].tab,
                                 flights'[k].of, flights'[k].answer)
    BY DEF AnswersAreCurrent
  <2>1. k # i
    BY <1>4, <1>8 DEF Trusted
  <2>2. k \in 1 .. Len(flights) /\ flights'[k] = flights[k] /\ Trusted(flights, k) /\ flights[k].tab \in Tab
    BY <1>1, <1>8, <2>1 DEF AreFlights, IsFlight
  <2>3. CASE flights[k].tab = t /\ f.kind # "remove"
    BY <1>8, <2>2, <2>3
  <2>4. CASE flights[k].tab = t /\ f.kind = "remove"
    <3>1. Unsettled(flights, t) \/ Current(stored[t], flights, t, flights[k].of, flights[k].answer)
      BY <2>2, <2>4 DEF PanelsInv, AnswersAreCurrent
    <3>2. Unsettled(flights', t) \/ Current(stored'[t], flights', t, flights[k].of, flights[k].answer)
      BY <1>8, <1>9, <2>4, <3>1
    <3> QED BY <2>2, <2>4, <3>2
  <2>5. CASE flights[k].tab # t
    <3>1. stored'[flights[k].tab] = stored[flights[k].tab]
      BY <1>6, <2>2, <2>5 DEF PanelsInv, PanelTypes
    <3>2. SameAnswer(k)
      BY <1>8, <2>2, <2>5, <3>1 DEF SameAnswer
    <3> QED BY <3>2, SameAnswers DEF PanelsInv
  <2> QED BY <2>3, <2>4, <2>5
<1>15. KeysAreMinted'
  <2>1. "passkeys" \in DOMAIN stored
    BY PanelsAssumption DEF PanelsInv, PanelTypes
  <2>2. \A r \in stored'["passkeys"] : r \in stored["passkeys"] \/ (r[1] \notin minted /\ r[1] \in minted')
    BY <1>6, <2>1
  <2>3. f.kind = "remove" => t = "passkeys"
    BY <1>1 DEF IsFlight
  <2>4. f.kind = "remove" => f.id \in minted /\ \A r \in stored'["passkeys"] : r[1] # f.id
    BY <1>6, <2>3 DEF PanelsInv, KeysAreMinted
  <2>5. \A id : Dropped(flights', "passkeys", id) => id \in minted
    BY <1>8, <2>4 DEF PanelsInv, KeysAreMinted
  <2>6. \A r \in stored'["passkeys"] : ~ Dropped(flights', "passkeys", r[1])
    <3> SUFFICES ASSUME NEW r \in stored'["passkeys"], Dropped(flights', "passkeys", r[1]) PROVE FALSE
      OBVIOUS
    <3>1. r[1] \in minted
      BY <2>5
    <3>2. r \in stored["passkeys"]
      BY <2>2, <3>1
    <3>3. ~ Dropped(flights, "passkeys", r[1])
      BY <3>2 DEF PanelsInv, KeysAreMinted
    <3> QED BY <1>8, <2>4, <3>3
  <2>7. \A r \in stored'["passkeys"] : r[1] \in minted'
    BY <2>2 DEF PanelsInv, KeysAreMinted
  <2> QED BY <2>5, <2>6, <2>7 DEF KeysAreMinted
<1> QED BY <1>10, <1>11, <1>12, <1>13, <1>14, <1>15 DEF PanelsInv

(* WriteUser, DeleteKey and InsertKey.                                     *)
LEMMA ServerKeeps ==
  ASSUME PanelsInv, NEW i \in DOMAIN flights, WriteUser(i) \/ DeleteKey(i) \/ InsertKey(i)
  PROVE  PanelsInv'
<1>1. IsFlight(flights[i]) /\ flights[i].gone \in BOOLEAN
  BY ChangedTypes DEF IsFlight
<1>2. CASE WriteUser(i)
  <2>1. PICK rows : Changed(i, rows)
    BY <1>2 DEF WriteUser
  <2>2. /\ flights[i].at # "answered" /\ flights[i].kind \notin {"list", "remove"}
        /\ flights[i].tab # "passkeys" /\ minted' = minted
    BY <1>1, <1>2 DEF WriteUser, IsFlight
  <2> QED BY <2>1, <2>2, UnnoticedKeeps, NoticedKeeps
<1>3. CASE DeleteKey(i)
  <2> DEFINE rows == {r \in stored["passkeys"] : r[1] # flights[i].id}
  <2>1. Changed(i, rows) /\ \E r \in stored["passkeys"] : r[1] = flights[i].id
    BY <1>3 DEF DeleteKey
  <2>2. /\ flights[i].at # "answered" /\ flights[i].kind = "remove"
        /\ flights[i].tab = "passkeys" /\ minted' = minted
    BY <1>1, <1>3 DEF DeleteKey, IsFlight
  <2>3. \A r \in rows : r \in stored["passkeys"]
    OBVIOUS
  <2>4. rows = {r \in stored["passkeys"] : r[1] # flights[i].id}
    OBVIOUS
  <2> HIDE DEF rows
  <2> QED BY <2>1, <2>2, <2>3, <2>4, UnnoticedKeeps, NoticedKeeps
<1>4. CASE InsertKey(i)
  <2>1. PICK k : /\ k \notin minted /\ minted' = minted \cup {k}
                 /\ Changed(i, stored["passkeys"] \cup {<<k, "row">>})
    BY <1>4 DEF InsertKey
  <2>2. /\ flights[i].at # "answered" /\ flights[i].kind = "register" /\ flights[i].tab = "passkeys"
    BY <1>1, <1>4 DEF InsertKey, IsFlight
  <2> DEFINE rows == stored["passkeys"] \cup {<<k, "row">>}
  <2>3. \A r \in rows : r \in stored["passkeys"] \/ (r[1] \notin minted /\ r[1] \in minted')
    BY <2>1
  <2>4. Changed(i, rows) /\ minted \subseteq minted'
    BY <2>1
  <2> HIDE DEF rows
  <2> QED BY <2>2, <2>3, <2>4, UnnoticedKeeps, NoticedKeeps
<1> QED BY <1>2, <1>3, <1>4

-----------------------------------------------------------------------------
(* The answers.  After a list is over its tab loads no longer; the lists   *)
(* sent before it are overtaken.                                           *)
LEMMA ListOver ==
  ASSUME PanelsInv, UNCHANGED <<section, stored, minted>>, NEW i \in DOMAIN flights,
         flights[i].kind = "list", flights' = RestOvertaken(i),
         NEW t, t = flights[i].tab, NEW w, IsTab(w), ~ w.loading, tab' = [tab EXCEPT ![t] = w],
         RowsOfTab(t)'
  PROVE  PanelsInv'
<1> DEFINE f == flights[i]
<1>1. AreFlights(flights) /\ i \in 1 .. Len(flights) /\ IsFlight(f)
  BY ChangedTypes
<1>2. /\ \A u : ~ ToReread(f, u) /\ (ToList(f, u) => u = t)
      /\ \A u, id : ~ ToDrop(f, u, id)
  BY DEF ToReread, ToDrop, ToList
<1>3. t \in Tab
  BY <1>1 DEF IsFlight
<1>4. flights' = Outdate(RemoveAt(flights, i), t, 1 .. i - 1)
  BY DEF RestOvertaken, Rest
<1>5. Survive(flights, i, t, 1 .. i - 1, flights')
  BY <1>1, <1>4, AfterRest
<1>6. /\ DOMAIN tab' = Tab /\ tab'[t] = w /\ \A u \in Tab : u # t => tab'[u] = tab[u]
      /\ \A u \in Tab : IsTab(tab'[u])
  BY <1>3 DEF PanelsInv, PanelTypes
<1>7. \A u : u # t => (Listed(flights, u) <=> Listed(flights', u))
  BY <1>2, <1>5 DEF Survive, Listed
<1>8. \A u : Unsettled(flights, u) <=> Unsettled(flights', u)
  BY <1>2, <1>5 DEF Survive, Unsettled
<1>9. \A u, id : Dropped(flights', u, id) <=> Dropped(flights, u, id)
  BY <1>2, <1>5 DEF Survive, Dropped
<1>10. PanelTypes'
  BY <1>5, <1>6 DEF Survive, PanelsInv, PanelTypes
<1>11. FlightsOfOpenTabs'
  BY <1>5 DEF Survive, PanelsInv, FlightsOfOpenTabs
<1>12. LoadingIsListed'
  BY <1>6, <1>7, Sections DEF PanelsInv, LoadingIsListed
<1>13. RowsAreCurrent'
  <2> SUFFICES ASSUME NEW u \in TabsOf(section) PROVE RowsOfTab(u)'
    BY DEF RowsAreCurrent
  <2>1. ASSUME u # t PROVE RowsOfTab(u)'
    <3>1. RowsOfTab(u) /\ tab'[u] = tab[u]
      BY <1>6, <2>1, Sections DEF PanelsInv, RowsAreCurrent
    <3> QED BY <1>7, <1>8, <1>9, <2>1, <3>1, SameRows
  <2> QED BY <2>1
<1>14. AnswersAreCurrent'
  <2> SUFFICES ASSUME NEW k \in 1 .. Len(flights'), Trusted(flights', k)
               PROVE  \/ Unsettled(flights', flights'[k].tab)
                      \/ Current(stored'[flights'[k].tab], flights', flights'[k].tab,
                                 flights'[k].of, flights'[k].answer)
    BY DEF AnswersAreCurrent
  <2>1. PICK j \in 1 .. Len(flights) \ {i} :
          /\ flights'[k] = flights[j] /\ j = (IF k < i THEN k ELSE k + 1)
          /\ ~ (ToList(flights[j], t) /\ k \in 1 .. i - 1)
          /\ Trusted(flights, j) \/ (ToList(flights[i], flights[j].tab) /\ j < i)
    BY <1>5 DEF Survive
  <2>2. Trusted(flights, j)
    <3> SUFFICES ASSUME ToList(f, flights[j].tab), j < i PROVE FALSE
      BY <2>1
    <3>1. ToList(flights[j], t)
      BY <1>2, <2>1 DEF ToList, Trusted
    <3>2. Len(flights) \in Nat /\ Len(flights') = Len(flights) - 1
      BY <1>1, <1>5 DEF Survive, AreFlights, IsArray
    <3>3. k \in 1 .. i - 1
      BY <2>1, <3>2
    <3> QED BY <2>1, <3>1, <3>3
  <2>3. SameAnswer(k)
    BY <1>8, <1>9, <2>1, <2>2 DEF SameAnswer
  <2> QED BY <2>3, SameAnswers DEF PanelsInv
<1>15. KeysAreMinted'
  BY <1>9, SameKeys DEF PanelsInv
<1> QED BY <1>10, <1>11, <1>12, <1>13, <1>14, <1>15 DEF PanelsInv

(* The answer is shown: unless it is overtaken, it is the last one.        *)
LEMMA HandleListKeeps == ASSUME PanelsInv, NEW i \in DOMAIN flights, HandleList(i) PROVE PanelsInv'
<1> DEFINE f == flights[i]
<1>0. PICK t : t = f.tab
  OBVIOUS
<1> DEFINE w == [tab[t] EXCEPT !.rows = [of |-> f.of, has |-> f.answer], !.loading = FALSE,
                    !.error = @ /\ t # "task-queue",
                    !.crossed = f.overtaken \/ f.of # Displayed(t)]
<1>1. AreFlights(flights) /\ i \in 1 .. Len(flights) /\ IsFlight(f)
  BY ChangedTypes
<1>2. t \in Tab /\ IsTab(tab[t]) /\ DOMAIN tab = Tab
  BY <1>0, <1>1 DEF IsFlight, PanelsInv, PanelTypes
<1>3. /\ f.kind = "list" /\ f.at = "answered" /\ UNCHANGED <<section, stored, minted>>
      /\ flights' = RestOvertaken(i)
  BY DEF HandleList
<1>4. tab' = [tab EXCEPT ![t].rows = [of |-> f.of, has |-> f.answer],
                         ![t].loading = FALSE,
                         ![t].error = @ /\ t # "task-queue",
                         ![t].crossed = f.overtaken \/ f.of # Displayed(t)]
  BY <1>0, Zenon DEF HandleList
<1>5. tab' = [tab EXCEPT ![t] = w]
  BY <1>2, <1>4
<1>6. /\ DOMAIN w = DOMAIN tab[t] /\ w.rows = [of |-> f.of, has |-> f.answer] /\ w.loading = FALSE
      /\ w.error = (tab[t].error /\ t # "task-queue")
      /\ w.crossed = (f.overtaken \/ f.of # Displayed(t))
      /\ w.page = tab[t].page /\ w.query = tab[t].query
  BY <1>2 DEF IsTab
<1> HIDE DEF w
<1>7. IsTab(w)
  <2>1. (tab[t].error /\ t # "task-queue") \in BOOLEAN /\ (f.overtaken \/ f.of # Displayed(t)) \in BOOLEAN
    OBVIOUS
  <2> QED BY <1>2, <1>6, <2>1 DEF IsTab
<1>8. Survive(flights, i, t, 1 .. i - 1, flights')
  BY <1>0, <1>1, <1>3, AfterRest DEF RestOvertaken, Rest
<1>9. RowsOfTab(t)'
  <2> SUFFICES ASSUME ~ w.crossed, ~ Listed(flights', t), ~ Unsettled(flights', t)
               PROVE  w.rows.of = Displayed(t)' /\ Current(stored'[t], flights', t, w.rows.of, w.rows.has)
    BY <1>2, <1>5 DEF RowsOfTab
  <2>1. \A j \in 1 .. Len(flights) \ {i} : ~ ToList(flights[j], t)
    BY <1>8 DEF Survive
  <2>2. Trusted(flights, i)
    <3>1. \A j \in 1 .. Len(flights) : i < j => ~ ToList(flights[j], t)
      BY <1>1, <2>1 DEF AreFlights, IsArray
    <3> QED BY <1>0, <1>3, <1>6, <3>1 DEF Trusted
  <2>3. ~ Unsettled(flights, t)
    <3>1. ~ ToReread(f, t)
      BY <1>3 DEF ToReread
    <3> QED BY <1>8, <3>1 DEF Survive, Unsettled
  <2>4. Current(stored[t], flights, t, f.of, f.answer)
    BY <1>0, <1>1, <2>2, <2>3 DEF PanelsInv, AnswersAreCurrent
  <2>5. \A id : Dropped(flights', t, id) <=> Dropped(flights, t, id)
    <3>1. \A id : ~ ToDrop(f, t, id)
      BY <1>3 DEF ToDrop
    <3>2. \A id : Dropped(flights', t, id) <=> \E j \in 1 .. Len(flights) \ {i} : ToDrop(flights[j], t, id)
      BY <1>8 DEF Survive
    <3> QED BY <3>1, <3>2 DEF Dropped
  <2>6. Current(stored[t], flights', t, f.of, f.answer)
    BY <2>4, <2>5, SameCurrent
  <2>7. f.of = Displayed(t)
    BY <1>6, Zenon
  <2>8. tab'[t] = w
    BY <1>2, <1>5
  <2>9. w.rows.of = f.of /\ w.rows.has = f.answer /\ Displayed(t)' = Displayed(t)
    BY <1>6, <2>8 DEF Displayed
  <2> QED BY <1>3, <2>6, <2>7, <2>9
<1> QED BY <1>0, <1>3, <1>5, <1>6, <1>7, <1>9, ListOver

(* Nothing is shown: the tab shows an error, or had an answer before.      *)
LEMMA ListFailsKeeps == ASSUME PanelsInv, NEW i \in DOMAIN flights, ListFails(i) PROVE PanelsInv'
<1> DEFINE f == flights[i]
<1>0. PICK t : t = f.tab
  OBVIOUS
<1> DEFINE w == [tab[t] EXCEPT !.loading = FALSE, !.error = @ \/ t # "passkeys",
                    !.crossed = @ \/ t = "passkeys"]
<1>1. AreFlights(flights) /\ i \in 1 .. Len(flights) /\ IsFlight(f)
  BY ChangedTypes
<1>2. t \in Tab /\ IsTab(tab[t]) /\ DOMAIN tab = Tab
  BY <1>0, <1>1 DEF IsFlight, PanelsInv, PanelTypes
<1>3. /\ f.kind = "list" /\ UNCHANGED <<section, stored, minted>> /\ flights' = RestOvertaken(i)
  BY DEF ListFails
<1>4. tab' = [tab EXCEPT ![t].loading = FALSE, ![t].error = @ \/ t # "passkeys",
                         ![t].crossed = @ \/ t = "passkeys"]
  BY <1>0, Zenon DEF ListFails
<1>5. tab' = [tab EXCEPT ![t] = w]
  BY <1>2, <1>4
<1>6. /\ DOMAIN w = DOMAIN tab[t] /\ w.rows = tab[t].rows /\ w.loading = FALSE
      /\ w.error = (tab[t].error \/ t # "passkeys") /\ w.crossed = (tab[t].crossed \/ t = "passkeys")
  BY <1>2 DEF IsTab
<1> HIDE DEF w
<1>7. IsTab(w)
  <2>1. (tab[t].error \/ t # "passkeys") \in BOOLEAN /\ (tab[t].crossed \/ t = "passkeys") \in BOOLEAN
    OBVIOUS
  <2> QED BY <1>2, <1>6, <2>1 DEF IsTab
<1>8. RowsOfTab(t)'
  BY <1>2, <1>5, <1>6 DEF RowsOfTab
<1> QED BY <1>0, <1>3, <1>5, <1>6, <1>7, <1>8, ListOver

(* A change is over, and what its tab shows is settled.                    *)
LEMMA ChangeOver ==
  ASSUME PanelsInv, UNCHANGED <<section, stored, minted>>, NEW i \in DOMAIN flights,
         flights[i].kind # "list", NEW t, t = flights[i].tab, NEW outdated,
         flights' = Outdate(RemoveAt(flights, i), t, outdated), DOMAIN tab' = Tab,
         \A u \in Tab : IsTab(tab'[u]) /\ tab'[u].loading = tab[u].loading,
         \A u \in Tab : u # t => Seen(tab'[u]) = Seen(tab[u]),
         t \in TabsOf(section) => RowsOfTab(t)',
         \A k \in 1 .. Len(flights') : Trusted(flights', k) /\ flights'[k].tab = t =>
           Unsettled(flights', t) \/ Current(stored[t], flights', t, flights'[k].of, flights'[k].answer)
  PROVE  PanelsInv'
<1> DEFINE f == flights[i]
<1>1. AreFlights(flights) /\ i \in 1 .. Len(flights) /\ IsFlight(f)
  BY ChangedTypes
<1>2. /\ \A u : ~ ToList(f, u) /\ (ToReread(f, u) => u = t)
      /\ \A u, id : ToDrop(f, u, id) => u = t
  BY DEF ToReread, ToDrop, ToList
<1>3. Survive(flights, i, t, outdated, flights')
  BY <1>1, AfterRest
<1> HIDE DEF f
<1>4. \A u : Listed(flights, u) <=> Listed(flights', u)
  BY <1>2, <1>3 DEF Survive, Listed, f
<1>5. \A u : u # t => (Unsettled(flights, u) <=> Unsettled(flights', u))
  BY <1>2, <1>3 DEF Survive, Unsettled, f
<1>6. /\ \A u, id : u # t => (Dropped(flights', u, id) <=> Dropped(flights, u, id))
      /\ \A u, id : Dropped(flights', u, id) => Dropped(flights, u, id)
  <2>1. \A u, id : Dropped(flights', u, id) <=> \E j \in 1 .. Len(flights) \ {i} : ToDrop(flights[j], u, id)
    BY <1>3 DEF Survive
  <2> QED BY <1>2, <2>1 DEF Dropped, f
<1>7. PanelTypes'
  BY <1>3 DEF Survive, PanelsInv, PanelTypes
<1>8. FlightsOfOpenTabs'
  BY <1>3 DEF Survive, PanelsInv, FlightsOfOpenTabs
<1>9. LoadingIsListed'
  BY <1>4, Sections DEF PanelsInv, LoadingIsListed
<1>10. RowsAreCurrent'
  <2> SUFFICES ASSUME NEW u \in TabsOf(section) PROVE RowsOfTab(u)'
    BY DEF RowsAreCurrent
  <2>1. ASSUME u # t PROVE RowsOfTab(u)'
    <3>1. RowsOfTab(u) /\ Seen(tab'[u]) = Seen(tab[u])
      BY <2>1, Sections DEF PanelsInv, RowsAreCurrent
    <3> QED BY <1>4, <1>5, <1>6, <2>1, <3>1, SameRows
  <2> QED BY <2>1
<1>11. AnswersAreCurrent'
  <2> SUFFICES ASSUME NEW k \in 1 .. Len(flights'), Trusted(flights', k)
               PROVE  \/ Unsettled(flights', flights'[k].tab)
                      \/ Current(stored'[flights'[k].tab], flights', flights'[k].tab,
                                 flights'[k].of, flights'[k].answer)
    BY DEF AnswersAreCurrent
  <2>1. CASE flights'[k].tab = t
    BY <2>1
  <2>2. CASE flights'[k].tab # t
    <3>1. PICK j \in 1 .. Len(flights) \ {i} :
            /\ flights'[k] = flights[j]
            /\ Trusted(flights, j) \/ (ToList(flights[i], flights[j].tab) /\ j < i)
      BY <1>3 DEF Survive
    <3>2. SameAnswer(k)
      BY <1>2, <1>5, <1>6, <2>2, <3>1 DEF SameAnswer, f
    <3> QED BY <3>2, SameAnswers DEF PanelsInv
  <2> QED BY <2>1, <2>2
<1>12. KeysAreMinted'
  BY <1>6, SameKeys DEF PanelsInv
<1> QED BY <1>7, <1>8, <1>9, <1>10, <1>11, <1>12 DEF PanelsInv

(* The answers that are outdated once they are answered cannot be trusted. *)
LEMMA OutdatedAnswers ==
  ASSUME NEW fs, AreFlights(fs), NEW i \in 1 .. Len(fs), NEW t, NEW outdated, NEW gs,
         gs = Outdate(RemoveAt(fs, i), t, outdated), fs[i].kind # "list",
         NEW k \in 1 .. Len(gs), Trusted(gs, k), gs[k].tab = t
  PROVE  \E j \in 1 .. Len(fs) : /\ gs[k] = fs[j] /\ Trusted(fs, j) /\ fs[j] = RemoveAt(fs, i)[k]
                                 /\ k \in DOMAIN RemoveAt(fs, i) /\ k \notin outdated
<1> DEFINE rest == RemoveAt(fs, i)
<1>1. Survive(fs, i, t, outdated, gs)
  BY AfterRest
<1>2. PICK j \in 1 .. Len(fs) \ {i} :
        /\ gs[k] = fs[j] /\ j = (IF k < i THEN k ELSE k + 1)
        /\ ~ (ToList(fs[j], t) /\ k \in outdated)
        /\ Trusted(fs, j) \/ (ToList(fs[i], fs[j].tab) /\ j < i)
  BY <1>1 DEF Survive
<1>3. /\ rest \in Seq(Range(fs)) /\ Len(rest) = Len(fs) - 1
      /\ \A l \in 1 .. Len(fs) - 1 : rest[l] = IF l < i THEN fs[l] ELSE fs[l + 1]
  BY RemovesOne DEF AreFlights, IsArray
<1> HIDE DEF rest
<1>4. Len(gs) = Len(fs) - 1
  BY <1>1 DEF Survive
<1>5. k \in DOMAIN rest /\ rest[k] = fs[j]
  BY <1>2, <1>3, <1>4
<1>6. Trusted(fs, j) /\ ToList(fs[j], t)
  BY <1>2 DEF ToList, Trusted
<1> QED BY <1>2, <1>5, <1>6 DEF rest

(* The row is off the screen, and in no answer that will be shown.         *)
LEMMA HandleRemoveKeeps == ASSUME PanelsInv, NEW i \in DOMAIN flights, HandleRemove(i) PROVE PanelsInv'
<1> DEFINE f == flights[i]
           t == "passkeys"
           rest == RemoveAt(flights, i)
           older == {j \in DOMAIN rest : \E r \in rest[j].answer : r[1] = f.id}
           v == tab[t]
           x == {r \in v.rows.has : r[1] # f.id}
           w == [v EXCEPT !.rows.has = x, !.deleting = Nothing]
<1>1. AreFlights(flights) /\ i \in 1 .. Len(flights) /\ IsFlight(f)
  BY ChangedTypes
<1>2. /\ f.kind = "remove" /\ f.at = "answered" /\ f.tab = t /\ UNCHANGED <<section, stored, minted>>
      /\ flights' = Outdate(rest, t, older)
      /\ tab' = [tab EXCEPT ![t].rows.has = {r \in @ : r[1] # f.id}, ![t].deleting = Nothing]
  BY <1>1 DEF HandleRemove, Rest, IsFlight
<1>3. t \in Tab /\ IsTab(v) /\ DOMAIN tab = Tab /\ \A u \in Tab : IsTab(tab[u])
  BY PanelsAssumption DEF PanelsInv, PanelTypes
<1>4. tab' = [tab EXCEPT ![t] = w]
  BY <1>2, <1>3
<1> HIDE DEF x, v
<1>5. /\ DOMAIN w = DOMAIN v /\ w.rows = [of |-> w.rows.of, has |-> w.rows.has]
      /\ w.rows.of = v.rows.of /\ w.rows.has = x
      /\ w.loading = v.loading /\ w.error = v.error /\ w.crossed = v.crossed
      /\ w.page = v.page /\ w.query = v.query
  BY <1>3 DEF IsTab
<1> USE DEF x, v
<1> HIDE DEF w
<1>6. /\ DOMAIN tab' = Tab /\ tab'[t] = w
      /\ \A u \in Tab : IsTab(tab'[u]) /\ tab'[u].loading = tab[u].loading
      /\ \A u \in Tab : u # t => Seen(tab'[u]) = Seen(tab[u])
  <2>1. IsTab(w)
    BY <1>3, <1>5 DEF IsTab
  <2>2. DOMAIN tab' = Tab /\ tab'[t] = w /\ \A u \in Tab : u # t => tab'[u] = tab[u]
    BY <1>3, <1>4
  <2> QED BY <1>3, <1>5, <2>1, <2>2
<1> HIDE DEF older, rest
<1>7. Survive(flights, i, t, older, flights')
  BY <1>1, <1>2, AfterRest DEF rest
<1>8. \A id : Dropped(flights, t, id) <=> Dropped(flights', t, id) \/ id = f.id
  <2>1. \A id : Dropped(flights', t, id) <=> \E j \in 1 .. Len(flights) \ {i} : ToDrop(flights[j], t, id)
    BY <1>7 DEF Survive
  <2>2. \A id : ToDrop(f, t, id) <=> id = f.id
    BY <1>2 DEF ToDrop
  <2> QED BY <1>1, <2>1, <2>2 DEF Dropped
<1>9. \A rows, of, has : Current(rows, flights, t, of, has) <=>
        Current(rows, flights', t, of, {r \in has : r[1] # f.id})
  <2> HIDE DEF f
  <2>1. \A has : {r \in {r \in has : r[1] # f.id} : ~ Dropped(flights', t, r[1])} =
                 {r \in has : ~ Dropped(flights, t, r[1])}
    BY <1>8
  <2> QED BY <2>1, Zenon DEF Current
<1>10. \A u : Listed(flights, u) <=> Listed(flights', u)
  <2>1. \A u : ~ ToList(f, u)
    BY <1>2 DEF ToList
  <2> QED BY <1>7, <2>1 DEF Survive, Listed
<1>11. \A u : Unsettled(flights, u) <=> Unsettled(flights', u)
  <2>1. \A u : ~ ToReread(f, u)
    BY <1>2 DEF ToReread
  <2> QED BY <1>7, <2>1 DEF Survive, Unsettled
<1>12. t \in TabsOf(section) => RowsOfTab(t)'
  <2> SUFFICES ASSUME t \in TabsOf(section) PROVE RowsOfTab(t)'
    OBVIOUS
  <2>1. RowsOfTab(t)
    BY DEF PanelsInv, RowsAreCurrent
  <2>2. Displayed(t)' = Displayed(t)
    BY <1>5, <1>6 DEF Displayed
  <2>3. CASE v.error \/ v.crossed \/ Listed(flights, t) \/ Unsettled(flights, t)
    BY <1>5, <1>6, <1>10, <1>11, <2>3 DEF RowsOfTab
  <2>4. CASE v.rows.of = Displayed(t) /\ Current(stored[t], flights, t, v.rows.of, v.rows.has)
    <3>1. Current(stored[t], flights', t, w.rows.of, w.rows.has)
      <4>1. Current(stored[t], flights, t, v.rows.of, v.rows.has) <=>
              Current(stored[t], flights', t, v.rows.of, x)
        BY <1>9, Zenon
      <4> HIDE DEF x, v, t
      <4> QED BY <1>5, <2>4, <4>1
    <3>2. tab'[t].rows.of = Displayed(t)'
      BY <1>5, <1>6, <2>2, <2>4
    <3>3. Current(stored'[t], flights', t, tab'[t].rows.of, tab'[t].rows.has)
      <4>1. stored'[t] = stored[t] /\ tab'[t] = w
        BY <1>2, <1>6
      <4> HIDE DEF t
      <4> QED BY <3>1, <4>1
    <3> HIDE DEF t
    <3> QED BY <3>2, <3>3 DEF RowsOfTab
  <2> QED BY <2>1, <2>3, <2>4 DEF RowsOfTab
<1>13. ASSUME NEW k \in 1 .. Len(flights'), Trusted(flights', k), flights'[k].tab = t
       PROVE  Unsettled(flights', t) \/ Current(stored[t], flights', t, flights'[k].of, flights'[k].answer)
  <2>1. PICK j \in 1 .. Len(flights) : /\ flights'[k] = flights[j] /\ Trusted(flights, j)
                                       /\ flights[j] = rest[k] /\ k \in DOMAIN rest /\ k \notin older
    BY <1>1, <1>2, <1>13, OutdatedAnswers DEF rest
  <2>2. \A r \in flights[j].answer : r[1] # f.id
    BY <2>1 DEF older
  <2>3. {r \in flights[j].answer : r[1] # f.id} = flights[j].answer
    BY <2>2
  <2>4. Unsettled(flights, t) \/ Current(stored[t], flights, t, flights[j].of, flights[j].answer)
    BY <1>13, <2>1 DEF PanelsInv, AnswersAreCurrent
  <2>5. Current(stored[t], flights, t, flights[j].of, flights[j].answer) <=>
          Current(stored[t], flights', t, flights[j].of, {r \in flights[j].answer : r[1] # f.id})
    BY <1>9, Zenon
  <2> QED BY <1>11, <2>1, <2>3, <2>4, <2>5
<1> HIDE DEF t, f
<1>14. f.tab = t /\ f.kind # "list"
  BY <1>2
<1> QED BY <1>2, <1>6, <1>12, <1>13, <1>14, ChangeOver DEF f, rest

(* A change that fails after it was answered leaves a tab that shows what  *)
(* is no longer so, and says so.                                           *)
LEMMA ChangeFailsKeeps == ASSUME PanelsInv, NEW i \in DOMAIN flights, ChangeFails(i) PROVE PanelsInv'
<1> DEFINE f == flights[i]
           rest == RemoveAt(flights, i)
           undeleted == [tab EXCEPT !["passkeys"].deleting = IF f.kind = "remove" THEN Nothing ELSE @]
<1>0. PICK t : t = f.tab
  OBVIOUS
<1>1. AreFlights(flights) /\ i \in 1 .. Len(flights) /\ IsFlight(f)
  BY ChangedTypes
<1>2. /\ "passkeys" \in Tab /\ DOMAIN tab = Tab /\ \A u \in Tab : IsTab(tab[u])
      /\ t \in Tab
  BY <1>0, <1>1, PanelsAssumption DEF PanelsInv, PanelTypes, IsFlight
<1>3. /\ DOMAIN undeleted = Tab
      /\ \A u \in Tab : IsTab(undeleted[u]) /\ Seen(undeleted[u]) = Seen(tab[u])
  BY <1>2 DEF IsTab, Seen
<1>4. f.kind # "list" /\ UNCHANGED <<section, stored, minted>>
  BY DEF ChangeFails
<1>5. \/ /\ flights' = rest /\ tab' \in {tab, undeleted} /\ f.at # "answered"
      \/ /\ ~ f.gone /\ flights' = Outdate(rest, t, Answered(rest))
         /\ tab' = [undeleted EXCEPT ![t].crossed = TRUE]
  <2>1. CASE f.gone
    BY <1>1, <2>1 DEF ChangeFails, Rest, IsFlight
  <2>2. CASE ~ f.gone /\ f.at # "answered"
    BY <2>2 DEF ChangeFails, Rest
  <2>3. CASE ~ f.gone /\ f.at = "answered"
    BY <1>0, <2>3 DEF ChangeFails, Rest
  <2> QED BY <2>1, <2>2, <2>3
<1> HIDE DEF undeleted
<1>6. CASE flights' = rest /\ tab' \in {tab, undeleted} /\ f.at # "answered"
  <2>1. flights' = Outdate(RemoveAt(flights, i), t, {})
    BY <1>1, <1>6, PlainRest
  <2>2. Survive(flights, i, t, {}, flights')
    BY <1>1, <2>1, AfterRest
  <2>3. /\ \A u : ~ ToList(f, u) /\ ~ ToReread(f, u)
        /\ \A u, id : ~ ToDrop(f, u, id)
    BY <1>4, <1>6 DEF ToReread, ToDrop, ToList
  <2> HIDE DEF f, rest
  <2>4. \A u : Listed(flights, u) => Listed(flights', u)
    BY <2>2, <2>3 DEF Survive, Listed, f
  <2>5. \A u : Unsettled(flights, u) => Unsettled(flights', u)
    BY <2>2, <2>3 DEF Survive, Unsettled, f
  <2>6. \A u, id : Dropped(flights', u, id) <=> Dropped(flights, u, id)
    <3>1. \A u, id : Dropped(flights', u, id) <=> \E j \in 1 .. Len(flights) \ {i} : ToDrop(flights[j], u, id)
      BY <2>2 DEF Survive
    <3> QED BY <2>3, <3>1 DEF Dropped, f
  <2>7. \A k \in 1 .. Len(flights') : Trusted(flights', k) =>
          \E j \in 1 .. Len(flights) : flights'[k] = flights[j] /\ Trusted(flights, j)
    BY <2>2, <2>3 DEF Survive, f
  <2>8. AreFlights(flights')
    BY <2>2 DEF Survive
  <2>9. \A k \in 1 .. Len(flights') : flights'[k].gone \/ flights'[k].tab \in TabsOf(section)
    BY <2>2 DEF Survive, PanelsInv, FlightsOfOpenTabs
  <2>10. DOMAIN tab' = Tab /\ \A u \in Tab : IsTab(tab'[u]) /\ Seen(tab'[u]) = Seen(tab[u])
    BY <1>2, <1>3, <1>6
  <2> QED BY <1>4, <2>4, <2>5, <2>6, <2>7, <2>8, <2>9, <2>10, QuietKeeps
<1>7. CASE /\ ~ f.gone /\ flights' = Outdate(rest, t, Answered(rest))
           /\ tab' = [undeleted EXCEPT ![t].crossed = TRUE]
  <2>1. /\ DOMAIN tab' = Tab /\ tab'[t].crossed
        /\ \A u \in Tab : IsTab(tab'[u]) /\ tab'[u].loading = undeleted[u].loading
        /\ \A u \in Tab : u # t => tab'[u] = undeleted[u]
    BY <1>2, <1>3, <1>7 DEF IsTab
  <2>2. \A u \in Tab : undeleted[u].loading = tab[u].loading
    BY <1>3 DEF Seen
  <2>3. RowsOfTab(t)'
    BY <2>1 DEF RowsOfTab
  <2>4. \A k \in 1 .. Len(flights') : ~ (Trusted(flights', k) /\ flights'[k].tab = t)
    <3> SUFFICES ASSUME NEW k \in 1 .. Len(flights'), Trusted(flights', k), flights'[k].tab = t
                 PROVE  FALSE
      OBVIOUS
    <3>1. PICK j \in 1 .. Len(flights) :
            /\ Trusted(flights, j) /\ flights[j] = rest[k]
            /\ k \in DOMAIN rest /\ k \notin Answered(rest)
      BY <1>1, <1>4, <1>7, OutdatedAnswers
    <3> HIDE DEF rest
    <3> QED BY <3>1 DEF Answered, Trusted
  <2> HIDE DEF f
  <2>5. \A u \in Tab : /\ IsTab(tab'[u]) /\ tab'[u].loading = tab[u].loading
                       /\ u # t => Seen(tab'[u]) = Seen(tab[u])
    BY <1>3, <2>1, <2>2
  <2>6. \A k \in 1 .. Len(flights') : Trusted(flights', k) /\ flights'[k].tab = t =>
          Unsettled(flights', t) \/ Current(stored[t], flights', t, flights'[k].of, flights'[k].answer)
    BY <2>4
  <2>7. flights[i].kind # "list" /\ t = flights[i].tab
    BY <1>0, <1>4 DEF f
  <2> HIDE DEF rest
  <2>8. flights' = Outdate(RemoveAt(flights, i), t, Answered(rest))
    BY <1>7 DEF rest
  <2> QED BY <1>4, <2>1, <2>3, <2>5, <2>6, <2>7, <2>8, ChangeOver
<1> QED BY <1>5, <1>6, <1>7

-----------------------------------------------------------------------------
(* Of what was sent before a section was left no tab will hear.            *)
LEMMA NothingHeard ==
  ASSUME NEW fs, AreFlights(fs), \A k \in 1 .. Len(fs) : fs[k].gone
  PROVE  /\ \A t : ~ Listed(fs, t) /\ ~ Unsettled(fs, t)
         /\ \A t, id : ~ Dropped(fs, t, id)
         /\ \A k \in 1 .. Len(fs) : ~ Trusted(fs, k)
<1>1. \A k \in 1 .. Len(fs) : fs[k].kind # "list" /\ fs[k].at # "answered"
  BY DEF AreFlights, IsFlight
<1>2. \A t, id : ~ Dropped(fs, t, id)
  BY <1>1 DEF Dropped, ToDrop
<1> QED BY <1>1, <1>2 DEF Listed, Unsettled, Trusted, ToList, ToReread

(* A section that is mounted lists what each of its tabs shows.            *)
LEMMA OpenKeeps == ASSUME PanelsInv, NEW s \in Section, Open(s) PROVE PanelsInv'
<1>1. /\ AreFlights(flights) /\ DOMAIN tab' = Tab /\ \A t \in Tab : tab'[t] = FreshTab
      /\ section' = s /\ UNCHANGED <<stored, minted>> /\ flights' = flights \o FirstLists(s)
  BY DEF Open, PanelsInv, PanelTypes
<1>2. \A k \in 1 .. Len(flights) : flights[k].gone
  BY Sections DEF PanelsInv, FlightsOfOpenTabs, Open
<1>3. /\ \A t : ~ Listed(flights, t) /\ ~ Unsettled(flights, t)
      /\ \A t, id : ~ Dropped(flights, t, id)
      /\ \A k \in 1 .. Len(flights) : ~ Trusted(flights, k)
  BY <1>1, <1>2, NothingHeard
<1>4. flights \in Seq(Range(flights)) /\ Len(flights) \in Nat
  BY <1>1 DEF AreFlights, IsArray
<1> DEFINE Opened(fs, tabs) ==
             /\ AreFlights(fs) /\ \A k \in 1 .. Len(fs) : fs[k].gone \/ fs[k].tab \in tabs
             /\ \A t \in tabs : Listed(fs, t)
             /\ \A t, id : ~ Dropped(fs, t, id)
             /\ \A k \in 1 .. Len(fs) : ~ Trusted(fs, k)
<1>5. ASSUME NEW fs, NEW tabs, Opened(fs, tabs), NEW t \in Tab, NEW gs, gs = Append(fs, List(t, <<1, "">>))
      PROVE  Opened(gs, tabs \cup {t})
  <2> DEFINE f == List(t, <<1, "">>)
  <2>1. IsFlight(f) /\ f.at = "sent" /\ f.tab = t /\ f.kind = "list"
    BY NewFlights
  <2> HIDE DEF f
  <2>2. Sent(fs, f, gs)
    BY <1>5, <2>1, AfterSend DEF f
  <2>3. ToList(f, t)
    BY <2>1 DEF ToList
  <2>4. Len(fs) \in Nat
    <3>1. AreFlights(fs)
      BY <1>5
    <3> QED BY <3>1 DEF AreFlights, IsArray
  <2>5. \A k \in 1 .. Len(gs) : gs[k].gone \/ gs[k].tab \in tabs \cup {t}
    <3>1. Len(gs) = Len(fs) + 1 /\ gs[Len(gs)] = f /\ \A k \in 1 .. Len(fs) : gs[k] = fs[k]
      BY <2>2 DEF Sent
    <3>2. \A k \in 1 .. Len(gs) : k \in 1 .. Len(fs) \/ k = Len(gs)
      BY <2>4, <3>1
    <3>3. \A k \in 1 .. Len(fs) : fs[k].gone \/ fs[k].tab \in tabs
      BY <1>5
    <3> QED BY <2>1, <3>1, <3>2, <3>3
  <2>6. \A u \in tabs \cup {t} : Listed(gs, u)
    BY <1>5, <2>2, <2>3 DEF Sent
  <2>7. \A u, id : ~ Dropped(gs, u, id)
    BY <1>5, <2>2 DEF Sent
  <2>8. \A k \in 1 .. Len(gs) : ~ Trusted(gs, k)
    BY <1>5, <2>2 DEF Sent
  <2>9. AreFlights(gs)
    BY <2>2 DEF Sent
  <2> QED BY <2>5, <2>6, <2>7, <2>8, <2>9
<1>6. Opened(flights, {})
  BY <1>1, <1>2, <1>3
<1> HIDE DEF Opened
<1>7. Opened(flights', TabsOf(s))
  <2>1. CASE s = "audit"
    <3> DEFINE v == List("verify", <<1, "">>)
               e == List("events", <<1, "">>)
    <3>1. flights' = Append(Append(flights, v), e)
      <4>1. flights' = flights \o <<v, e>>
        BY <1>1, <2>1 DEF FirstLists
      <4> HIDE DEF v, e
      <4> QED BY <1>4, <4>1
    <3>2. Opened(Append(flights, v), {} \cup {"verify"})
      BY <1>5, <1>6, PanelsAssumption
    <3>3. Opened(flights', ({} \cup {"verify"}) \cup {"events"})
      BY <1>5, <3>1, <3>2, PanelsAssumption
    <3>4. TabsOf(s) = ({} \cup {"verify"}) \cup {"events"}
      BY <2>1 DEF TabsOf
    <3> QED BY <3>3, <3>4
  <2>2. CASE s # "audit"
    <3> DEFINE l == List(s, <<1, "">>)
    <3>1. s \in Tab
      BY <2>2 DEF Section
    <3>2. flights' = Append(flights, l)
      <4>1. flights' = flights \o <<l>>
        BY <1>1, <2>2 DEF FirstLists
      <4> HIDE DEF l
      <4> QED BY <1>4, <4>1
    <3>3. Opened(flights', {} \cup {s})
      BY <1>5, <1>6, <3>1, <3>2
    <3>4. TabsOf(s) = {} \cup {s}
      BY <2>2, <3>1 DEF TabsOf
    <3> QED BY <3>3, <3>4
  <2> QED BY <2>1, <2>2
<1>8. IsTab(FreshTab)
  BY DEF IsTab, FreshTab
<1>9. PanelTypes'
  BY <1>1, <1>7, <1>8 DEF PanelsInv, PanelTypes, Opened
<1>10. FlightsOfOpenTabs' /\ LoadingIsListed'
  BY <1>1, <1>7 DEF FlightsOfOpenTabs, LoadingIsListed, Opened
<1>11. RowsAreCurrent'
  BY <1>1, <1>7 DEF RowsAreCurrent, RowsOfTab, Opened
<1>12. AnswersAreCurrent'
  BY <1>7 DEF AnswersAreCurrent, Opened
<1>13. KeysAreMinted'
  BY <1>1, <1>7, SameKeys DEF PanelsInv, Opened
<1> QED BY <1>9, <1>10, <1>11, <1>12, <1>13 DEF PanelsInv

(* A section that is unmounted hears of nothing any more.                  *)
LEMMA LeaveKeeps == ASSUME PanelsInv, Leave PROVE PanelsInv'
<1> DEFINE abandoned == [i \in DOMAIN flights |-> [flights[i] EXCEPT !.gone = TRUE]]
           matters == {i \in DOMAIN flights :
                         flights[i].kind # "list" /\ flights[i].at \in {"sent", "read"}}
           left == {abandoned[i] : i \in matters \cap (1 .. Len(abandoned))}
<1>1. /\ AreFlights(flights) /\ DOMAIN tab' = Tab /\ \A t \in Tab : tab'[t] = FreshTab
      /\ section' = Nothing /\ UNCHANGED <<stored, minted>> /\ flights' = Kept(abandoned, matters)
  BY DEF Leave, PanelsInv, PanelTypes
<1>2. DOMAIN flights = 1 .. Len(flights) /\ Len(flights) \in Nat
  BY <1>1 DEF AreFlights, IsArray
<1>3. abandoned \in Seq({abandoned[i] : i \in DOMAIN flights}) /\ Len(abandoned) = Len(flights)
  <2> DEFINE New(i) == [flights[i] EXCEPT !.gone = TRUE]
             N == Len(flights)
  <2>1. N \in Nat /\ abandoned = [i \in 1 .. N |-> New(i)]
    BY <1>2
  <2> HIDE DEF New, N, abandoned
  <2>2. Len(abandoned) = N /\ DOMAIN abandoned = 1 .. N /\ abandoned \in Seq({abandoned[i] : i \in 1 .. N})
    BY <2>1
  <2> QED BY <1>2, <2>2 DEF N
<1>4. flights' \in Seq(left)
  <2> HIDE DEF abandoned, matters
  <2> QED BY <1>1, <1>3, KeptLines
<1>5. \A f \in left : IsFlight(f) /\ f.gone
  <2> SUFFICES ASSUME NEW i \in matters PROVE IsFlight(abandoned[i]) /\ abandoned[i].gone
    OBVIOUS
  <2>1. i \in 1 .. Len(flights) /\ IsFlight(flights[i]) /\ flights[i].kind # "list" /\ flights[i].at # "answered"
    BY <1>1, <1>2 DEF AreFlights
  <2>2. abandoned[i] = [flights[i] EXCEPT !.gone = TRUE]
    BY <1>2, <2>1
  <2> HIDE DEF abandoned, matters
  <2> QED BY <2>1, <2>2 DEF IsFlight
<1> HIDE DEF abandoned, matters, left
<1>6. AreFlights(flights') /\ \A k \in 1 .. Len(flights') : flights'[k].gone
  <2>1. \A k \in 1 .. Len(flights') : flights'[k] \in left
    BY <1>4
  <2>2. IsArray(flights')
    BY <1>4, Arrays
  <2> QED BY <1>5, <2>1, <2>2 DEF AreFlights
<1>7. /\ \A t, id : ~ Dropped(flights', t, id)
      /\ \A k \in 1 .. Len(flights') : ~ Trusted(flights', k)
  BY <1>6, NothingHeard
<1>8. IsTab(FreshTab)
  BY DEF IsTab, FreshTab
<1>9. PanelTypes'
  BY <1>1, <1>6, <1>8 DEF PanelsInv, PanelTypes
<1>10. FlightsOfOpenTabs' /\ LoadingIsListed' /\ RowsAreCurrent'
  BY <1>1, <1>6, Sections DEF FlightsOfOpenTabs, LoadingIsListed, RowsAreCurrent
<1>11. AnswersAreCurrent'
  BY <1>7 DEF AnswersAreCurrent
<1>12. KeysAreMinted'
  BY <1>1, <1>7, SameKeys DEF PanelsInv
<1> QED BY <1>9, <1>10, <1>11, <1>12 DEF PanelsInv

(* In the beginning no section is open and nothing is on its way.          *)
LEMMA PanelsStart == ASSUME PanelsInit PROVE PanelsInv
<1>1. /\ section = Nothing /\ tab = [t \in Tab |-> FreshTab] /\ flights = <<>> /\ stored = StoredRows
      /\ minted = {r[1] : r \in StoredRows["passkeys"]}
  BY DEF PanelsInit
<1>2. flights \in Seq({}) /\ Len(flights) = 0 /\ 1 .. Len(flights) = {}
  BY <1>1
<1>3. AreFlights(flights)
  BY <1>2, Arrays DEF AreFlights
<1>4. \A t, id : ~ Dropped(flights, t, id)
  BY <1>2 DEF Dropped
<1>5. IsTab(FreshTab)
  BY DEF IsTab, FreshTab
<1>6. PanelTypes
  BY <1>1, <1>3, <1>5, PanelsAssumption DEF PanelTypes
<1>7. FlightsOfOpenTabs /\ LoadingIsListed /\ RowsAreCurrent /\ AnswersAreCurrent
  BY <1>1, <1>2, Sections DEF FlightsOfOpenTabs, LoadingIsListed, RowsAreCurrent, AnswersAreCurrent
<1>8. KeysAreMinted
  BY <1>1, <1>4 DEF KeysAreMinted
<1> QED BY <1>6, <1>7, <1>8 DEF PanelsInv

(* Every step keeps the invariant.                                         *)
LEMMA PanelsStep == ASSUME PanelsInv, [PanelsNext]_panelVars PROVE PanelsInv'
<1>1. CASE UNCHANGED panelVars
  <2>1. UNCHANGED <<section, flights, stored, minted>> /\ UNCHANGED tab
    BY <1>1 DEF panelVars
  <2> QED BY <2>1 DEF PanelsInv, PanelTypes, FlightsOfOpenTabs, LoadingIsListed, RowsAreCurrent,
                      RowsOfTab, AnswersAreCurrent, KeysAreMinted, Displayed
<1>2. CASE \E s \in Section : Open(s)
  BY <1>2, OpenKeeps
<1>3. CASE Leave
  BY <1>3, LeaveKeeps
<1>4. CASE \/ SearchTimer
           \/ \E t \in Tab : Refresh(t) \/ \E p \in DOMAIN Pages[t][""] : TurnPage(t, p)
  BY <1>4, ReadsKeep
<1>5. CASE \E q \in DOMAIN Pages["users"] : TypeSearch(q)
  BY <1>5, TypeSearchKeeps
<1>6. CASE \/ RegisterKey \/ \E k \in IdsOn("passkeys", <<1, "">>) : RemoveKey(k)
           \/ \E u \in IdsOn("users", <<1, "">>) \cup IdsOn("users", <<2, "">>), a \in Attribute :
                PatchUser(u, a)
  BY <1>6, ChangesKeep
<1>7. ASSUME NEW i \in DOMAIN flights,
             \/ AnswerList(i) \/ ReadUser(i) \/ WriteUser(i) \/ DeleteKey(i) \/ InsertKey(i)
             \/ HandleList(i) \/ HandlePatch(i) \/ HandleRemove(i) \/ HandleRegister(i)
             \/ ListFails(i) \/ ChangeFails(i)
      PROVE  PanelsInv'
  BY <1>7, ProgressKeeps, ServerKeeps, HandleListKeeps, RereadKeeps, HandleRemoveKeeps,
     ListFailsKeeps, ChangeFailsKeeps
<1> QED BY <1>1, <1>2, <1>3, <1>4, <1>5, <1>6, <1>7 DEF PanelsNext

(* A tab that waits for nothing shows what the server has.                 *)
LEMMA RestedTabs == ASSUME PanelsInv PROVE TabsAtRestShowTheServer
<1> SUFFICES ASSUME NEW t \in TabsOf(section),
                    \A i \in DOMAIN flights : flights[i].tab = t => flights[i].gone
             PROVE  /\ ~ tab[t].loading
                    /\ tab[t].error \/ tab[t].crossed \/ tab[t].rows = Served(t, Displayed(t))
  BY DEF TabsAtRestShowTheServer
<1>1. /\ t \in Tab /\ IsTab(tab[t]) /\ DOMAIN flights = 1 .. Len(flights)
      /\ \A i \in 1 .. Len(flights) : IsFlight(flights[i])
  BY Sections DEF PanelsInv, PanelTypes, AreFlights, IsArray
<1>2. ~ Listed(flights, t) /\ ~ Unsettled(flights, t)
  BY <1>1 DEF Listed, Unsettled, ToList, ToReread, IsFlight
<1>3. \A id : ~ Dropped(flights, t, id)
  BY <1>1 DEF Dropped, ToDrop, IsFlight
<1>4. ~ tab[t].loading
  BY <1>2 DEF PanelsInv, LoadingIsListed
<1>5. ASSUME ~ tab[t].error, ~ tab[t].crossed PROVE tab[t].rows = Served(t, Displayed(t))
  <2> DEFINE rows == tab[t].rows
  <2>1. rows.of = Displayed(t) /\ Current(stored[t], flights, t, rows.of, rows.has)
    BY <1>2, <1>5 DEF PanelsInv, RowsAreCurrent, RowsOfTab
  <2>2. rows.has = {r \in stored[t] : r[1] \in IdsOn(t, rows.of)}
    BY <1>3, <2>1 DEF Current
  <2>3. rows = [of |-> rows.of, has |-> rows.has]
    BY <1>1 DEF IsTab
  <2> QED BY <2>1, <2>2, <2>3 DEF Served
<1> QED BY <1>4, <1>5

(* The panels show what the server has whenever they wait for nothing.     *)
THEOREM TabsShowTheServer == PanelsSpec => []TabsAtRestShowTheServer
<1>1. PanelsInv /\ [PanelsNext]_panelVars => PanelsInv'
  BY PanelsStep
<1> QED BY <1>1, PanelsStart, RestedTabs, PTL DEF PanelsSpec
=============================================================================
