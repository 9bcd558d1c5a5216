--------------------------- MODULE SplitAlgorithms ---------------------------
(***************************************************************************)
(* Two ways to split an amount among recipients, as functions of their     *)
(* inputs: auditSplitRounding() of src/invoice/rounding.ts, by ratios with *)
(* the largest remainders rounded up, and WaterfallRouter.plan() of        *)
(* src/routing/WaterfallRouter.ts, by minimums in the order of scores.     *)
(*                                                                         *)
(* Ratios are rational: ratio / Parts.  The code multiplies floats, so an  *)
(* exact share may come out just below the whole number it is.             *)
(***************************************************************************)
EXTENDS Integers, FiniteSets, FiniteSetsExt

CONSTANTS
    Recipients,   \* names of recipients
    Lines,        \* positions of split lines and tiers: 1 .. n
    Parts,        \* denominator of the ratios
    MaxAmount,    \* bound: total in stroops
    MaxScore      \* bound: score and minimum of a tier

ASSUME LinesArePositions == Lines \subseteq Nat /\ IsFiniteSet(Lines)
ASSUME RecipientsFinite == IsFiniteSet(Recipients)
ASSUME SplitBounds == Parts \in Nat \ {0} /\ MaxAmount \in Nat /\ MaxScore \in Nat

VARIABLES
    asked,   \* the call: [of, amount, lines]
    answer   \* what it returned

splitVars == <<asked, answer>>

NoAnswer == [kind |-> "none"]
Overflow == [kind |-> "RoundingOverflowError"]

RatioLines == [Lines -> [ratio : 0 .. Parts, recipientId : Recipients]]
Tiers == [Lines -> [minimumAmount : 0 .. MaxScore, score : 0 .. MaxScore]]

SumOver(a, S) == MapThenSumSet(LAMBDA i : a[i], S)

SplitTypeOK ==
    /\ asked.of \in {"audit", "plan"} /\ asked.amount \in 0 .. MaxAmount
    /\ answer.kind \in {"none", "RoundingOverflowError", "amounts", "steps"}

SplitInit ==
    /\ \/ asked \in [of : {"audit"}, amount : 0 .. MaxAmount, lines : RatioLines]
       \/ asked \in [of : {"plan"}, amount : 0 .. MaxAmount, lines : Tiers]
    /\ answer = NoAnswer

-----------------------------------------------------------------------------
(* auditSplitRounding().                                                    *)
Exact(i) == asked.amount * asked.lines[i].ratio
Floor(i) == Exact(i) \div Parts
Floors == [i \in Lines |-> Floor(i)]
Fraction(i) == Exact(i) % Parts

(* The lines whose fractions come first, in the order of the lines if equal.*)
Precedes(i, j) ==
    \/ Fraction(i) > Fraction(j)
    \/ Fraction(i) = Fraction(j) /\ i < j
Top(n) == {i \in Lines : Cardinality({j \in Lines : Precedes(j, i)}) < n}

Abs(n) == IF n < 0 THEN -n ELSE n

(* Amounts are kept by recipient: the floor of a recipient's last line, and *)
(* the adjustments of all its lines.                                        *)
Amount(r, n) ==
    LET own == {i \in Lines : asked.lines[i].recipientId = r}
        floor == IF own = {} THEN 0 ELSE Floor(Max(own))
        adjusted == Cardinality(own \cap Top(Abs(n)))
    IN  floor + IF n < 0 THEN -adjusted ELSE adjusted

Audit_NoTieBreak ==
    /\ asked.of = "audit" /\ answer = NoAnswer
    /\ LET n == asked.amount - SumOver(Floors, Lines)
           top == {i \in Lines : Cardinality({j \in Lines : Fraction(j) > Fraction(i)}) < n}
       IN  answer' = IF Lines # {} /\ Abs(n) > (Cardinality(Lines) + 1) \div 2 THEN Overflow
                     ELSE [kind |-> "amounts",
                           amounts |-> [r \in Recipients |->
                               LET own == {i \in Lines : asked.lines[i].recipientId = r}
                               IN  (IF own = {} THEN 0 ELSE Floor(Max(own)))
                                      + Cardinality(own \cap top)]]
    /\ UNCHANGED asked

(* No lines are no error: nobody gets anything.                             *)
Audit ==
    /\ asked.of = "audit" /\ answer = NoAnswer
    /\ LET n == asked.amount - SumOver(Floors, Lines)
       IN  answer' = IF Lines # {} /\ Abs(n) > (Cardinality(Lines) + 1) \div 2 THEN Overflow
                     ELSE [kind |-> "amounts", amounts |-> [r \in Recipients |-> Amount(r, n)]]
    /\ UNCHANGED asked

-----------------------------------------------------------------------------
(* WaterfallRouter.plan(): best score first, and nothing after the first    *)
(* tier whose minimum is not left.                                          *)
Ahead(i, j) ==
    \/ asked.lines[i].score > asked.lines[j].score
    \/ asked.lines[i].score = asked.lines[j].score /\ i < j
InOrder(k) == CHOOSE i \in Lines : Cardinality({j \in Lines : Ahead(j, i)}) = k - 1

PlanUpTo[k \in 0 .. Cardinality(Lines)] ==
    IF k = 0 THEN [left |-> asked.amount, satisfied |-> {}]
    ELSE LET before == PlanUpTo[k - 1]
             minimum == asked.lines[InOrder(k)].minimumAmount
         IN  IF Cardinality(before.satisfied) < k - 1 \/ minimum > before.left THEN before
             ELSE [left |-> before.left - minimum,
                   satisfied |-> before.satisfied \cup {InOrder(k)}]

Plan ==
    /\ asked.of = "plan" /\ answer = NoAnswer
    /\ answer' = [kind |-> "steps", plan |-> PlanUpTo[Cardinality(Lines)]]
    /\ UNCHANGED asked

SplitNext == Audit \/ Plan

SplitSpec == SplitInit /\ [][SplitNext]_splitVars

-----------------------------------------------------------------------------
(* Reference definitions.                                                   *)
EachRecipientOnce ==
    \A i, j \in Lines : asked.lines[i].recipientId = asked.lines[j].recipientId => i = j

Minimums == [i \in Lines |-> asked.lines[i].minimumAmount]
MinimumsUpTo(i) == SumOver(Minimums, {j \in Lines : Ahead(j, i) \/ j = i})

(* With every recipient in one line, the rounded shares sum exactly to the  *)
(* total whatever the ratios, or the audit refuses; and with ratios that    *)
(* sum to one no share is a stroop or more away from the exact one.  The    *)
(* waterfall satisfies a tier exactly if it can pay all tiers ahead of it   *)
(* and the tier itself, and what it pays and what remains is the amount.    *)
SplitsAddUp ==
    /\ answer.kind = "amounts" /\ EachRecipientOnce /\ Lines # {} =>
          /\ SumOver(answer.amounts, Recipients) = asked.amount
          /\ SumOver([i \in Lines |-> asked.lines[i].ratio], Lines) = Parts =>
                \A i \in Lines :
                   Abs(answer.amounts[asked.lines[i].recipientId] * Parts - Exact(i)) < Parts
    /\ answer.kind = "steps" =>
          /\ answer.plan.satisfied = {i \in Lines : MinimumsUpTo(i) <= asked.amount}
          /\ answer.plan.left + SumOver(Minimums, answer.plan.satisfied) = asked.amount
=============================================================================
