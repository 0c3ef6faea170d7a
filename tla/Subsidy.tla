------------------------------- MODULE Subsidy -------------------------------
(***************************************************************************)
(* internal/accounting: the subsidy schedule of one network and the        *)
(* monetary facts of one block, as pure functions of height, fees and      *)
(* coinbase outputs.  Amounts are satoshis held in an int64; MaxAmount     *)
(* stands for its largest value, so that TLC's instances can reach it.     *)
(***************************************************************************)
EXTENDS Integers, Functions

CONSTANTS
  InitialSubsidy,   \* SubsidySchedule.InitialSubsidySatoshis
  HalvingInterval,  \* SubsidySchedule.HalvingInterval
  MaxHalvings,      \* SubsidySchedule.MaxHalvings
  MaxAmount         \* the largest int64

ASSUME ScheduleAssumption ==
  /\ InitialSubsidy \in Nat
  /\ HalvingInterval \in Nat \ {0}
  /\ MaxHalvings \in Nat
  /\ MaxAmount \in Nat

\* addChecked / checkedAdd on non-negative operands: the sum is refused
\* exactly when it does not fit.
Fits(amount) == amount <= MaxAmount

Halvings(h) == h \div HalvingInterval

\* SubsidySchedule.BlockSubsidy: one right shift per halving era, forced to
\* zero where Core's shift would be undefined.
BlockSubsidy(h) ==
  IF Halvings(h) >= MaxHalvings THEN 0 ELSE InitialSubsidy \div 2^Halvings(h)

\* Wrong: the block at the given height is left out of its era.
BlocksBelowInEra(h, era) ==
  IF h < (era + 1) * HalvingInterval - 1 THEN h - era * HalvingInterval ELSE HalvingInterval

\* The blocks of an era up to height h: all of them unless h is inside it and
\* not its last height.
BlocksInEra(h, era) ==
  IF h < (era + 1) * HalvingInterval - 1 THEN h - era * HalvingInterval + 1 ELSE HalvingInterval

\* SubsidySchedule.ScheduledSubsidyThroughHeight: one product per era that has
\* begun by height h.  The loop stops at the first era that pays nothing; every
\* later one would add nothing.  Products and running total are checked for
\* overflow (Fits), which is an error of the reader that asks for them.
ErasBegun(h) == {era \in 0..(MaxHalvings - 1) : era * HalvingInterval <= h}
ScheduledSubsidyThroughHeight(h) ==
  SumFunctionOnSet([era \in ErasBegun(h) |-> (InitialSubsidy \div 2^era) * BlocksInEra(h, era)],
                   ErasBegun(h))

\* The guards of SubsidySchedule.ComputeBlockFacts: subsidy + fees must not
\* overflow and the coinbase must not claim more than that.
RewardAccepted(h, fee, coinbase) ==
  /\ Fits(BlockSubsidy(h) + fee)
  /\ coinbase <= BlockSubsidy(h) + fee

\* The BlockFacts row ComputeBlockFacts returns when it accepts.
ComputeBlockFacts(h, fee, coinbase) ==
  [ subsidy   |-> BlockSubsidy(h),
    fee       |-> fee,
    coinbase  |-> coinbase,
    unclaimed |-> BlockSubsidy(h) + fee - coinbase ]
=============================================================================
