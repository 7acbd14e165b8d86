------------------------------- MODULE Splits -------------------------------
(***************************************************************************)
(* The money arithmetic every commitment goes through: the four-way split  *)
(* of a price, the agency/creator split of an ad credit, the settlement    *)
(* instruction the coordinator builds from them for a booking, and the     *)
(* tests ledger-svc and its table apply before the instruction is stored.  *)
(*                                                                         *)
(* Amounts are i64 cents. The release build the Dockerfiles ship wraps on  *)
(* overflow, so every operation that can overflow goes through Wrap.       *)
(***************************************************************************)
EXTENDS Integers

CONSTANT Limit          \* 2^63 in the program: i64 holds -Limit .. Limit - 1

ASSUME LimitAssumption == Limit \in Nat \ {0}

Cents == -Limit .. Limit - 1

\* Two's complement reduction of an integer to the machine width.
Wrap(x) == ((x + Limit) % (2 * Limit)) - Limit

\* Percentage p of v: a wrapping product, then a division toward zero.
Percent(v, p) ==
  LET product == Wrap(v * p)
  IN  IF product >= 0 THEN product \div 100 ELSE -((-product) \div 100)

\* Faulty: the seller's share as a percentage of its own, not the remainder.
SplitsByPercentage(v) ==
  [seller |-> Percent(v, 90), network |-> Percent(v, 5), platform |-> Percent(v, 5), ads |-> 0]

\* What each party of a match receives; "ads" is 0 until a campaign boosts it.
splits_for(v) ==
  LET fee == Percent(v, 5)
  IN  [seller |-> Wrap(Wrap(v - fee) - fee), network |-> fee,
       platform |-> fee, ads |-> 0]

\* Ad credit: agency 60%, creator the remainder.
ad_split(a) ==
  LET agency == Percent(a, 60)
  IN  [agency |-> agency, creator |-> Wrap(a - agency)]

\* The instruction a booking posts: the ad credit comes on top of the price
\* and replaces the single "ads" slice with the agency's and the creator's.
BookingInstruction(price, ad) ==
  LET s == splits_for(price)
  IN  [value  |-> Wrap(price + ad),
       splits |-> IF ad > 0
                    THEN [seller |-> s.seller, network |-> s.network,
                          platform |-> s.platform,
                          agency |-> ad_split(ad).agency,
                          creator |-> ad_split(ad).creator]
                    ELSE s]

\* The sum ledger-svc accumulates over the parties, in their order.
SplitTotal(s) ==
  LET fees == Wrap(Wrap(s.seller + s.network) + s.platform)
  IN  IF "agency" \in DOMAIN s THEN Wrap(Wrap(fees + s.agency) + s.creator)
                               ELSE Wrap(fees + s.ads)

\* ledger-svc stores an instruction only when no slice is negative and the
\* slices sum to the value; anything else is answered 400.
parse_instruction(i) ==
  /\ \A party \in DOMAIN i.splits : i.splits[party] >= 0
  /\ SplitTotal(i.splits) = i.value

\* Faulty: the table without its CHECK.
StoredUnchecked(i) == parse_instruction(i)

\* The table's CHECK (value_cents >= 0) is the last word on what is stored.
Stored(i) == parse_instruction(i) /\ i.value >= 0
=============================================================================
