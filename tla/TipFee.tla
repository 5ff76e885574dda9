------------------------------- MODULE TipFee -------------------------------
(***************************************************************************)
(* computeTipFee, and the columns it fills in a new tip: the platform's    *)
(* share and the creator's.  Amounts are in cents, the platform's fee in   *)
(* basis points.  Math.round rounds half up; the product stays far below   *)
(* 2^53, so the doubles of the code decide as exact arithmetic does.       *)
(***************************************************************************)
EXTENDS Integers

CONSTANTS
  Amounts,  \* what a fan may give
  Fees      \* what the platform may be configured to take

Scale == 10000
Rates == 0..Scale   \* what env.validation.ts admits

TipFeeAssumption == Amounts \subseteq Nat /\ Fees \subseteq Rates

VARIABLES
  platformFeeBps,  \* the configured fee
  split            \* the amounts in the rows of the table tips

feeVars == <<platformFeeBps, split>>

\* Mutant: the fee is cut off, not rounded.
feeCents_CutOff(amount, bps) == (amount * bps) \div Scale

feeCents(amount, bps) == (2 * amount * bps + Scale) \div (2 * Scale)

creatorNetCents(amount, bps) == amount - feeCents(amount, bps)

FeeInit == platformFeeBps \in Fees /\ split = {}

TipRow(amount) ==
  [amountCents |-> amount, feeCents |-> feeCents(amount, platformFeeBps),
   creatorNetCents |-> creatorNetCents(amount, platformFeeBps)]

(* The row createIntentEntity saves; nothing changes its amounts after,    *)
(* and one row is enough: no other is read for them.                       *)
create(amount) ==
  /\ split = {}
  /\ split' = {TipRow(amount)}
  /\ UNCHANGED platformFeeBps

FeeNext == \E amount \in Amounts : create(amount)

FeeSpec == FeeInit /\ [][FeeNext]_feeVars

-----------------------------------------------------------------------------
(* The fee is the integer nearest to the exact share, the upper one when   *)
(* two are as near: neither side gains more than half a cent.              *)
NearestHalfUp(amount, bps) ==
  LET err == 2 * Scale * feeCents(amount, bps) - 2 * amount * bps IN
  -Scale < err /\ err <= Scale

(* Both shares are non-negative and add up to the amount. *)
Reconciles(amount, bps) ==
  /\ feeCents(amount, bps) \in 0..amount
  /\ creatorNetCents(amount, bps) \in 0..amount
  /\ feeCents(amount, bps) + creatorNetCents(amount, bps) = amount

(* Giving a cent more never leaves the creator or the platform with less. *)
SharesGrow(amount, bps) ==
  /\ feeCents(amount + 1, bps) >= feeCents(amount, bps)
  /\ creatorNetCents(amount + 1, bps) >= creatorNetCents(amount, bps)

(* The shares in a tip's row add up to its amount, none is negative, the   *)
(* platform's is the exact one to half a cent, and a fan who gives a cent  *)
(* more takes nothing from either.                                         *)
FeeSplits ==
  \A tip \in split :
    LET exact == 2 * tip.amountCents * platformFeeBps
        err == 2 * Scale * tip.feeCents - exact
    IN
    /\ tip.feeCents \in 0..tip.amountCents
    /\ tip.feeCents + tip.creatorNetCents = tip.amountCents
    /\ -Scale < err /\ err <= Scale
    /\ SharesGrow(tip.amountCents, platformFeeBps)
=============================================================================
