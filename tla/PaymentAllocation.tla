-------------------------- MODULE PaymentAllocation --------------------------
(***************************************************************************)
(* allocateWithCaps() of src/paymentAllocation.ts, as aggregatePayments()  *)
(* calls it: a budget is handed out to invoices by weight, in passes.  No  *)
(* invoice gets more than it still needs; what a pass cannot place goes    *)
(* into the next one, and dust goes to the largest remainders.             *)
(*                                                                         *)
(* One pass is one step.  The weights of all three strategies, zeros       *)
(* included, are members of one set.                                       *)
(***************************************************************************)
EXTENDS Integers, FiniteSets, FiniteSetsExt

CONSTANTS
    Invoices,   \* positions in the list of invoices: 1 .. n
    MaxBudget,  \* bound: budget in stroops
    MaxNeed,    \* bound: what an invoice still needs
    MaxWeight,  \* bound: weight of an invoice
    MaxPasses   \* MAX_ALLOCATION_PASSES

ASSUME InvoicesArePositions == Invoices \subseteq Nat /\ IsFiniteSet(Invoices)
ASSUME AllocationBounds == {MaxBudget, MaxNeed, MaxWeight, MaxPasses} \subseteq Nat

VARIABLES
    remaining,      \* what each invoice still needs
    weights,
    distributable,  \* min(budget, what all of them need)
    allocations,    \* what each has been given
    toPlace,        \* `pool`: what is left to hand out
    active,         \* invoices that may be given more
    passes

allocationVars == <<remaining, weights, distributable, allocations, toPlace, active, passes>>

Total(amount, S) == MapThenSumSet(LAMBDA i : amount[i], S)

AllocationTypeOK ==
    /\ remaining \in [Invoices -> Nat] /\ weights \in [Invoices -> Nat]
    /\ allocations \in [Invoices -> Nat]
    /\ distributable \in Nat /\ toPlace \in Nat /\ passes \in 0 .. MaxPasses
    /\ active \subseteq Invoices

Lower(a, b) == IF a < b THEN a ELSE b

AllocationInit ==
    /\ remaining \in [Invoices -> 0 .. MaxNeed]
    /\ weights \in [Invoices -> 0 .. MaxWeight]
    /\ \E budget \in 0 .. MaxBudget :
          distributable = Lower(budget, Total(remaining, Invoices))
    /\ toPlace = distributable
    /\ allocations = [i \in Invoices |-> 0]
    /\ active = {i \in Invoices : remaining[i] > 0}
    /\ passes = 0

Placing == toPlace > 0 /\ active # {} /\ passes < MaxPasses

-----------------------------------------------------------------------------
(* Pro rata, or evenly if no active invoice has a weight.                   *)
ProRata == Total(weights, active) > 0
Numerator(i) == IF ProRata THEN toPlace * weights[i] ELSE toPlace
Divisor == IF ProRata THEN Total(weights, active) ELSE Cardinality(active)

Share_Uncapped(i) == IF i \in active THEN Numerator(i) \div Divisor ELSE 0
Share(i) ==
    IF i \in active THEN Lower(Numerator(i) \div Divisor, remaining[i] - allocations[i]) ELSE 0

(* Dust: one stroop each, in the order of the remainders, while it lasts.   *)
Before(j, i) ==
    \/ Numerator(j) % Divisor > Numerator(i) % Divisor
    \/ Numerator(j) % Divisor = Numerator(i) % Divisor /\ j < i

TakesDust == {i \in active : allocations[i] < remaining[i] /\ (ProRata => weights[i] > 0)}

Dust(i) ==
    IF i \in TakesDust /\ Cardinality({j \in TakesDust : Before(j, i)}) < toPlace THEN 1 ELSE 0

(* A pass that could place something by weight.                             *)
PassByWeight ==
    /\ Placing
    /\ \E i \in active : Share(i) > 0
    /\ allocations' = [i \in Invoices |-> allocations[i] + Share(i)]
    /\ toPlace' = toPlace - Total([i \in active |-> Share(i)], active)
    /\ active' = {i \in active : allocations[i] + Share(i) < remaining[i]}
    /\ passes' = passes + 1
    /\ UNCHANGED <<remaining, weights, distributable>>

(* A pass in which every share was rounded down to nothing.                 *)
PassOfDust ==
    /\ Placing
    /\ \A i \in active : Share(i) = 0
    /\ active' = {i \in active : allocations[i] < remaining[i]}
    /\ IF active' = {} THEN UNCHANGED <<allocations, toPlace>>
       ELSE /\ allocations' = [i \in Invoices |-> allocations[i] + Dust(i)]
            /\ toPlace' = toPlace - Total([i \in active |-> Dust(i)], active)
    /\ passes' = passes + 1
    /\ UNCHANGED <<remaining, weights, distributable>>

AllocationNext == PassByWeight \/ PassOfDust

AllocationSpec == AllocationInit /\ [][AllocationNext]_allocationVars

-----------------------------------------------------------------------------
(* "No single allocation exceeds that invoice's remaining amount."          *)
NeverOverpays == \A i \in Invoices : allocations[i] <= remaining[i]

(* "The allocations always sum to min(budget, total remaining)", with zero  *)
(* weights, caps and dust: nothing is lost between two passes, and the loop *)
(* ends because everything is placed, never because passes run out.         *)
AllocationIsComplete ==
    /\ NeverOverpays
    /\ Total(allocations, Invoices) + toPlace = distributable
    /\ ~Placing => toPlace = 0
=============================================================================
