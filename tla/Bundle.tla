-------------------------------- MODULE Bundle --------------------------------
(***************************************************************************)
(* From a victim's transaction, or from the recipes of a block, to the     *)
(* fees of a bundle: the mempool loop's filters (src/bot/src/runner/mod.rs,*)
(* utils/state_diff.rs), the making of the sandwich, which is module       *)
(* Sandwich, and the bribe (runner/bundle_sender.rs) for a block whose base*)
(* fee the bot estimates from the block before (utils/mod.rs).             *)
(***************************************************************************)
EXTENDS Sandwich

CONSTANTS Tasks,    \* what comes in
          Reports,  \* what a simulated sandwich may earn and use
          DustGas,  \* 11000: is overpaid for a pool without dust
          Unit,     \* the bribe is a share of Unit, which is 1000000000 parts,
          Shares    \* drawn from these

VARIABLES stage,    \* mempool, making, made, sent, dropped
          task, report, bundle

bundleVars == <<vars, stage, task, report, bundle>>

\* What the diff of the balances of WETH says of a pool that the victim
\* touches: no entry, no change, more WETH or less.
Slots == {"none", "same", "in", "out"}
Block == [fee : Nat, used : Nat, limit : Nat]
\* slots: of the known pools that are touched; weth: the diff has WETH; pool:
\* the one of the task
Task == [path : {"mempool", "mega"}, order : Orders, latest : Block,
         slots : Seq(Slots), weth : BOOLEAN, pool : Nat]
Outcome == [revenue : Nat, frontGas : Nat \ {0}, backGas : Nat \ {0}]

-----------------------------------------------------------------------------
\* how far the base fee moves for so much gas above or below the target
Step(fee, gas, target) == ((fee * gas) \div target) \div 8

\* faulty variant: compares with the limit
NextBaseFeeOfLimit(block) ==
    IF block.used >= block.limit
    THEN block.fee + Step(block.fee, block.used - block.limit, block.limit)
    ELSE block.fee - Step(block.fee, block.limit - block.used, block.limit)

\* calculate_next_block_base_fee
NextBaseFee(block) ==
    LET target == block.limit \div 2
    IN  IF block.used >= target
        THEN block.fee + Step(block.fee, block.used - target, target)
        ELSE block.fee - Step(block.fee, target - block.used, target)

\* what the protocol makes of it: a fuller block raises it by one at least
ProtocolBaseFee(block) ==
    LET target == block.limit \div 2
        step == Step(block.fee, block.used - target, target)
    IN  IF block.used > target
        THEN block.fee + (IF step = 0 THEN 1 ELSE step)
        ELSE block.fee - Step(block.fee, target - block.used, target)

\* The divisor of the estimate is not zero.  A mempool transaction offers no tip
\* above its fee.
ASSUME BundleAssumption ==
    /\ Tasks \subseteq Task
    /\ \A t \in Tasks :
           /\ BaseFee = NextBaseFee(t.latest)
           /\ t.latest.limit >= 2
           /\ t.path = "mempool" =>
                  /\ t.pool \in DOMAIN t.slots
                  /\ Len(t.order) = 1 /\ Len(t.order[1].meats) = 1
                  /\ ~t.order[1].meats[1].legacy =>
                         t.order[1].meats[1].tip <= t.order[1].meats[1].price
    /\ Reports \subseteq Outcome
    /\ DustGas \in Nat
    /\ Unit \in Nat \ {0}
    /\ Shares \subseteq 0..(Unit - 1)

NoReport == [revenue |-> 0, frontGas |-> 1, backGas |-> 1]
NoBundle == [frontFee |-> 0, backFee |-> 0, dustless |-> 0]

BundleInit ==
    /\ task \in Tasks
    /\ Init /\ order = task.order
    /\ stage = IF task.path = "mempool" THEN "mempool" ELSE "making"
    /\ report = NoReport /\ bundle = NoBundle

-----------------------------------------------------------------------------
\* faulty variant: every victim may be in the next block
IncludableAll(meat) == TRUE

\* by max_fee_per_gas, which a legacy transaction does not have
Includable(meat) == (IF meat.legacy THEN 0 ELSE meat.price) >= BaseFee

\* extract_pools: none at all if WETH, or an entry for a known pool, is missing
Sandwichable(t) ==
    IF t.weth /\ \A k \in DOMAIN t.slots : t.slots[k] # "none"
    THEN {k \in DOMAIN t.slots : t.slots[k] \in {"in", "out"}}
    ELSE {}

\* a task of its own for each pool that WETH goes into
Try ==
    /\ stage = "mempool"
    /\ Includable(task.order[1].meats[1])
    /\ task.pool \in Sandwichable(task) /\ task.slots[task.pool] = "in"
    /\ stage' = "making"
    /\ UNCHANGED <<vars, task, report, bundle>>

\* not includable, not sandwichable, no client, no sender, no state diff
Ignore ==
    /\ stage = "mempool"
    /\ stage' = "dropped"
    /\ UNCHANGED <<vars, task, report, bundle>>

-----------------------------------------------------------------------------
\* create_optimal_sandwich and its report
Make ==
    /\ stage = "making" /\ pc # "done"
    /\ Next
    /\ IF result' = "Ok"
       THEN stage' = "made" /\ report' \in Reports
       ELSE /\ stage' = IF pc' = "done" THEN "dropped" ELSE "making"
            /\ UNCHANGED report
    /\ UNCHANGED <<task, bundle>>

-----------------------------------------------------------------------------
FrontCost == report.frontGas * BaseFee
Overpaid(dustless) == BaseFee * DustGas * dustless

\* faulty variant: the frontrun's fee is not set aside
BribeOfRevenue(dustless, share) ==
    ((report.revenue + Overpaid(dustless)) * share) \div Unit

\* calculate_bribe_for_max_fee, where the frontrun is covered
Bribe(dustless, share) ==
    ((report.revenue - FrontCost + Overpaid(dustless)) * share) \div Unit

MaxFee(dustless, share) == Bribe(dustless, share) \div report.backGas

\* send_bundle: the base fee for the frontrun, the rest for the backrun; some
\* of the pools may be without dust
SendBundle ==
    /\ stage = "made" /\ report.revenue > 0
    /\ report.revenue >= FrontCost
    /\ \E dustless \in 0..Len(kept), share \in Shares :
          LET maxFee == MaxFee(dustless, share)
          IN  /\ maxFee >= BaseFee
              /\ bundle' = [frontFee |-> BaseFee, backFee |-> maxFee, dustless |-> dustless]
    /\ stage' = "sent"
    /\ UNCHANGED <<vars, task, report>>

\* no revenue, or less than the fees; the wallet fails
NotSent ==
    /\ stage = "made"
    /\ stage' = "dropped"
    /\ UNCHANGED <<vars, task, report, bundle>>

BundleDone == stage \in {"sent", "dropped"} /\ UNCHANGED bundleVars

BundleNext == Try \/ Ignore \/ Make \/ SendBundle \/ NotSent \/ BundleDone

BundleSpec == BundleInit /\ [][BundleNext]_bundleVars
-----------------------------------------------------------------------------
\* The fees of a bundle cost less than the sandwich earns, but for what is
\* overpaid on purpose to leave dust: with the simulated gas, at the base fee
\* for the frontrun and the bid for the backrun, which is no less.
BidWithinMeans ==
    stage = "sent" =>
        /\ FrontCost + report.backGas * bundle.backFee
               < report.revenue + Overpaid(bundle.dustless)
        /\ bundle.backFee >= BaseFee

\* a fuller block, whose step in the base fee the divisions round to nothing
RoundsAway(block) ==
    LET target == block.limit \div 2
    IN  block.used > target /\ block.fee * (block.used - target) < 8 * target

\* The frontrun's fee is an estimate that adds nothing on top.  It is what the
\* protocol asks for in the next block to the wei, except behind a fuller block
\* with a fee so low that the step rounds to nothing: there it is one short.
FrontFeeExact ==
    stage = "sent" =>
        bundle.frontFee
            = ProtocolBaseFee(task.latest) - (IF RoundsAway(task.latest) THEN 1 ELSE 0)

\* A victim that the mempool loop lets pass is not refused for its fees when it
\* is run, in an environment that other transactions have used before.
VictimNotRefused ==
    stage = "making" /\ task.path = "mempool" /\ AtMeat
        => Accepted(MeatEnv(env, TheMeat))
-----------------------------------------------------------------------------
\* The inductive invariant of the proofs, next to that of the sandwich: the
\* order and the ingredients that were kept are the task's, a victim that got
\* through was includable, and a bundle has the fees of its report.
BundleInv ==
    /\ task \in Tasks /\ order = task.order
    /\ report \in Outcome
    /\ \A k \in DOMAIN kept : \E m \in DOMAIN order : kept[k].meats = order[m].meats
    /\ stage = "making" /\ task.path = "mempool" => Includable(task.order[1].meats[1])
    /\ stage = "sent" => bundle.frontFee = BaseFee
    /\ BidWithinMeans
=============================================================================
