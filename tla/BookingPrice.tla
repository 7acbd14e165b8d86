---------------------------- MODULE BookingPrice ----------------------------
(***************************************************************************)
(* A shortlist entry on its way to a settlement instruction: the price the *)
(* seller published, and the ad credit a campaign may have put on it. Both *)
(* are numbers the services accept without an upper bound.                 *)
(***************************************************************************)
EXTENDS Splits

CONSTANT AdCredits      \* the ad_cents_per_match a campaign may carry

\* ads-svc refuses a campaign whose credit is not positive.
ASSUME AdCreditsAssumption == AdCredits \subseteq {c \in Cents : c > 0}

VARIABLES price, ad

vars == <<price, ad>>

Init ==
  /\ price \in Cents
  /\ ad = 0

\* Faulty: the sign of the credit is not looked at.
BoostUnchecked ==
  /\ ad = 0
  /\ ad' \in AdCredits \cup {-c : c \in AdCredits}
  /\ UNCHANGED price

\* The environment attaches the campaign that fits the need's category.
Boost ==
  /\ ad = 0
  /\ ad' \in AdCredits
  /\ UNCHANGED price

Next == Boost

Spec == Init /\ [][Next]_vars

-----------------------------------------------------------------------------
TypeOK == price \in Cents /\ ad \in AdCredits \cup {0}

Instruction == BookingInstruction(price, ad)

\* Amounts for which no product in the split arithmetic overflows.
InRange ==
  /\ 0 <= price /\ 5 * price < Limit
  /\ 0 <= ad /\ 60 * ad < Limit
  /\ price + ad < Limit

PaidOut(s) ==
  s.seller + s.network + s.platform
    + (IF "agency" \in DOMAIN s THEN s.agency + s.creator ELSE s.ads)

(* Away from overflow the split is what the documents promise: network and
   platform each get 5% rounded down, the credit is shared in full between
   agency and creator with 60% rounded down for the agency, the seller gets
   everything else, and ledger-svc stores the instruction. *)
SharesAreExact ==
  LET s == Instruction.splits
  IN  InRange =>
        /\ Stored(Instruction)
        /\ Instruction.value = price + ad
        /\ s.network = s.platform
        /\ 100 * s.network <= 5 * price /\ 5 * price < 100 * (s.network + 1)
        /\ s.seller = price - 2 * s.network
        /\ ad > 0 => /\ s.agency + s.creator = ad
                     /\ 100 * s.agency <= 60 * ad /\ 60 * ad < 100 * (s.agency + 1)

(* Whatever wraps, money is never invented or lost: an instruction the table
   takes pays its parties nonnegative amounts that add up, as integers, to
   the value and to the price plus the credit the booking was made for. *)
StoredIsBalanced ==
  Stored(Instruction) =>
    /\ \A party \in DOMAIN Instruction.splits : Instruction.splits[party] >= 0
    /\ PaidOut(Instruction.splits) = Instruction.value
    /\ Instruction.value = price + ad
=============================================================================
