---------------------------- MODULE TipFeeProofs ----------------------------
(***************************************************************************)
(* The split of a tip, for every amount and every fee that may be          *)
(* configured.                                                             *)
(***************************************************************************)
EXTENDS TipFee, TLAPS

(* What rounding to a multiple of 2 * Scale does *)
LEMMA Rounding ==
  ASSUME NEW x \in Nat
  PROVE  LET q == (x + Scale) \div (2 * Scale) IN
         /\ q \in Nat
         /\ x - Scale < 2 * Scale * q
         /\ 2 * Scale * q <= x + Scale
  BY SMT DEF Scale

(* The exact share, in units of 1 / (2 * Scale) cents, is between nothing  *)
(* and the whole amount.                                                   *)
LEMMA ShareBounded ==
  ASSUME NEW amount \in Nat, NEW bps \in Rates
  PROVE  /\ 2 * amount * bps \in Nat
         /\ 2 * amount * bps <= 2 * Scale * amount
  <1>1. bps \in Nat /\ bps <= Scale /\ Scale - bps \in Nat
    BY SMT DEF Rates, Scale
  <1>2. amount * bps \in Nat /\ amount * (Scale - bps) \in Nat
    BY <1>1, SMT
  <1>3. amount * (Scale - bps) = Scale * amount - amount * bps
    BY <1>1, SMT DEF Scale
  <1>4. 2 * amount * bps = 2 * (amount * bps)
    BY <1>1, SMT
  <1> QED
    BY <1>2, <1>3, <1>4, SMT DEF Scale

(* computeTipFee rounds to the nearest cent, for every amount and fee. *)
THEOREM FeeNearest ==
  ASSUME NEW amount \in Nat, NEW bps \in Rates
  PROVE  NearestHalfUp(amount, bps)
  BY Rounding, ShareBounded, SMT DEF NearestHalfUp, feeCents, Scale

(* Neither the platform nor the creator is charged, and no cent is lost.   *)
THEOREM FeeReconciles ==
  ASSUME NEW amount \in Nat, NEW bps \in Rates
  PROVE  Reconciles(amount, bps)
  <1> DEFINE x == 2 * amount * bps
  <1> DEFINE fee == feeCents(amount, bps)
  <1>1. x \in Nat /\ x <= 2 * Scale * amount
    BY ShareBounded
  <1>2. fee \in Nat /\ 2 * Scale * fee <= x + Scale
    BY <1>1, Rounding DEF feeCents
  <1>3. fee <= amount
    BY <1>1, <1>2, SMT DEF Scale
  <1> QED
    BY <1>2, <1>3, SMT DEF Reconciles, creatorNetCents

(* Both shares are monotone in the amount. *)
THEOREM FeeMonotone ==
  ASSUME NEW amount \in Nat, NEW bps \in Rates
  PROVE  SharesGrow(amount, bps)
  <1> DEFINE x == 2 * amount * bps
  <1> DEFINE y == 2 * (amount + 1) * bps
  <1>1. x \in Nat /\ y \in Nat
    <2>1. amount + 1 \in Nat
      BY SMT
    <2> QED
      BY <2>1, ShareBounded
  <1>2. bps \in Nat /\ bps <= Scale
    BY SMT DEF Rates, Scale
  <1>3. y = x + 2 * bps
    <2>1. (amount + 1) * bps = amount * bps + bps
      BY <1>2, SMT
    <2>2. x = 2 * (amount * bps) /\ y = 2 * ((amount + 1) * bps)
      BY <1>2, SMT
    <2>3. amount * bps \in Nat
      BY <1>2, SMT
    <2> QED
      BY <2>1, <2>2, <2>3, <1>2, SMT
  <1>4. feeCents(amount, bps) = (x + Scale) \div (2 * Scale)
        /\ feeCents(amount + 1, bps) = (y + Scale) \div (2 * Scale)
    BY DEF feeCents
  <1> HIDE DEF x, y
  <1>5. /\ (y + Scale) \div (2 * Scale) >= (x + Scale) \div (2 * Scale)
        /\ (y + Scale) \div (2 * Scale) <= 1 + (x + Scale) \div (2 * Scale)
    BY <1>1, <1>2, <1>3, SMT DEF Scale
  <1>6. (x + Scale) \div (2 * Scale) \in Int /\ (y + Scale) \div (2 * Scale) \in Int
    BY <1>1, SMT DEF Scale
  <1> QED
    BY <1>4, <1>5, <1>6, SMT DEF SharesGrow, creatorNetCents

(* Every row was split by computeTipFee at the configured fee. *)
SplitInv ==
  /\ platformFeeBps \in Fees
  /\ \A tip \in split : \E amount \in Amounts : tip = TipRow(amount)

(* The rows of tips are split fairly whatever amounts and fees are allowed. *)
THEOREM SplitTheorem == ASSUME TipFeeAssumption PROVE FeeSpec => []FeeSplits
<1>1. FeeInit => SplitInv
  BY DEF FeeInit, SplitInv
<1>2. SplitInv /\ [FeeNext]_feeVars => SplitInv'
  <2> SUFFICES ASSUME SplitInv, [FeeNext]_feeVars PROVE SplitInv'
    OBVIOUS
  <2>1. CASE UNCHANGED feeVars
    BY <2>1 DEF SplitInv, TipRow, feeVars
  <2>2. ASSUME NEW amount \in Amounts, create(amount) PROVE SplitInv'
    BY <2>2 DEF SplitInv, create, TipRow
  <2> QED
    BY <2>1, <2>2 DEF FeeNext
<1>3. SplitInv => FeeSplits
  <2> SUFFICES ASSUME SplitInv, NEW tip \in split
               PROVE  LET exact == 2 * tip.amountCents * platformFeeBps
                          err == 2 * Scale * tip.feeCents - exact
                      IN
                      /\ tip.feeCents \in 0..tip.amountCents
                      /\ tip.feeCents + tip.creatorNetCents = tip.amountCents
                      /\ -Scale < err /\ err <= Scale
                      /\ SharesGrow(tip.amountCents, platformFeeBps)
    BY DEF FeeSplits
  <2>1. PICK amount \in Amounts : tip = TipRow(amount)
    BY DEF SplitInv
  <2>2. amount \in Nat /\ platformFeeBps \in Rates
    BY TipFeeAssumption DEF TipFeeAssumption, SplitInv
  <2>3. /\ NearestHalfUp(amount, platformFeeBps)
        /\ Reconciles(amount, platformFeeBps)
        /\ SharesGrow(amount, platformFeeBps)
    BY <2>2, FeeNearest, FeeReconciles, FeeMonotone
  <2>4. /\ tip.amountCents = amount
        /\ tip.feeCents = feeCents(amount, platformFeeBps)
        /\ tip.creatorNetCents = creatorNetCents(amount, platformFeeBps)
    BY <2>1 DEF TipRow
  <2> QED
    BY <2>3, <2>4 DEF NearestHalfUp, Reconciles
<1>4. QED
  BY <1>1, <1>2, <1>3, PTL DEF FeeSpec
=============================================================================
