------------------------------ MODULE Economy -------------------------------
(* What a call costs and which tier it may ask for (s17code/economics/       *)
(* pricing.py, tiers.py, config.py).  A model's name is a sequence, so that  *)
(* one may begin another; money is counted in whole units of a hundredth of  *)
(* a token's price, for the cache multipliers are percentages.               *)
EXTENDS Integers, Sequences, FiniteSets, SequencesExt, FiniteSetsExt

(* Mutant of PriceFor: the alphabetically last of the prefixes, not the      *)
(* longest (max without its key).                                            *)
PriceForLast(pricing, model) ==
  LET begun == {m \in DOMAIN pricing.models : IsPrefix(m, model)}
  IN IF begun = {} THEN pricing.default
     ELSE pricing.models[CHOOSE m \in begun : \A o \in begun : Len(m) <= Len(o)]

(* price_for: its own row, else that of the longest name it begins with,     *)
(* else the default row.                                                     *)
PriceFor(pricing, model) ==
  LET begun == {m \in DOMAIN pricing.models : IsPrefix(m, model)}
  IN IF begun = {} THEN pricing.default
     ELSE pricing.models[CHOOSE m \in begun : \A o \in begun : Len(m) >= Len(o)]

AtLeastZero(n) == Max({0, n})

(* cost: four counts of tokens; what the cache read or took in is priced as  *)
(* input by its multiplier.                                                  *)
Cost(pricing, model, tokens) ==
  LET row == PriceFor(pricing, model)
  IN 100 * AtLeastZero(tokens.input) * row.input
     + 100 * AtLeastZero(tokens.output) * row.output
     + AtLeastZero(tokens.read) * row.input * pricing.readPercent
     + AtLeastZero(tokens.write) * row.input * pricing.writePercent

(* TierLadder.from_mapping: the tiers of the order, cheapest first; one that *)
(* is named there and described nowhere gets an empty request.               *)
Ladder(config) ==
  LET names == ToSet(config.order)
      blank == [model |-> <<>>]
  IN [order |-> config.order, roles |-> config.roles,
      default |-> IF config.default # "" THEN config.default
                  ELSE IF "default" \in DOMAIN config.roles THEN config.roles["default"]
                  ELSE config.order[1],
      tiers |-> [n \in names |-> IF n \in DOMAIN config.tiers THEN config.tiers[n] ELSE blank]]

Loads(config) == config.order # <<>> /\ Ladder(config).default \in ToSet(config.order)

(* The last place of a name: a rung described again takes the later rank.    *)
Rank(ladder, name) == Max({i \in DOMAIN ladder.order : ladder.order[i] = name})
TierNamed(ladder, name) == IF name \in DOMAIN ladder.tiers THEN name ELSE ladder.default

ForRole(ladder, role) ==
  IF role \in DOMAIN ladder.roles THEN TierNamed(ladder, ladder.roles[role])
  ELSE IF "default" \in DOMAIN ladder.roles THEN TierNamed(ladder, ladder.roles["default"])
  ELSE ladder.default

CheaperThan(ladder, name) == Reverse(SubSeq(ladder.order, 1, Rank(ladder, name) - 1))

(* declare_tiers: a task keeps the tier it declares.                         *)
DeclareTiers(ladder, tasks) ==
  [i \in DOMAIN tasks |-> IF tasks[i].tier # "" THEN tasks[i]
                          ELSE [tasks[i] EXCEPT !.tier = ForRole(ladder, tasks[i].role)]]

(* EconomicsConfig.ceiling_for.                                              *)
CeilingFor(limits, fallback, principal, requested) ==
  LET amount == IF requested = -1 THEN fallback ELSE requested
  IN IF principal \in DOMAIN limits THEN Min({amount, limits[principal]}) ELSE amount
-----------------------------------------------------------------------------
Sum(a, b) == [k \in DOMAIN a |-> a[k] + b[k]]

(* A decorated model id costs what the most specific configured name it      *)
(* begins with costs, so that configuring a variant changes the price of     *)
(* that variant alone; and splitting a call in two changes no bill.          *)
PriceStands(pricing, model, a, b) ==
  /\ \A m \in DOMAIN pricing.models :
        IsPrefix(m, model) /\ PriceFor(pricing, model) # pricing.models[m] =>
           \E o \in DOMAIN pricing.models : /\ o # m /\ IsPrefix(m, o) /\ IsPrefix(o, model)
                                            /\ PriceFor(pricing, model) = PriceFor(pricing, o)
  /\ Cost(pricing, model, Sum(a, b)) = Cost(pricing, model, a) + Cost(pricing, model, b)

(* Whatever the planner declares and the configuration maps, a task is       *)
(* billed on a rung of the ladder from which downgrading passes every        *)
(* cheaper rung once and ends at the cheapest; and no request raises a       *)
(* principal's ceiling.                                                      *)
TiersStand(config, tasks, limits, principal, requested) ==
  Loads(config) =>
    LET ladder == Ladder(config)
        declared == DeclareTiers(ladder, tasks)
    IN /\ \A i \in DOMAIN declared :
            LET rung == TierNamed(ladder, declared[i].tier)
                below == CheaperThan(ladder, rung)
            IN /\ rung \in DOMAIN ladder.tiers
               /\ rung \notin ToSet(below)
               /\ Len(below) = Rank(ladder, rung) - 1
               /\ below # <<>> => Last(below) = config.order[1]
               /\ tasks[i].tier \in DOMAIN ladder.tiers => rung = tasks[i].tier
       /\ principal \in DOMAIN limits =>
            CeilingFor(limits, 9, principal, requested) <= limits[principal]
=============================================================================
