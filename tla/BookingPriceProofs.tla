------------------------- MODULE BookingPriceProofs -------------------------
(***************************************************************************)
(* Proofs about the split arithmetic for every machine width. The lemmas   *)
(* say where Wrap and Percent land: a sum that overflows is negative, a    *)
(* share is too small to overflow twice.                                   *)
(***************************************************************************)
EXTENDS BookingPrice, TLAPS

LEMMA ModSmall == \A n \in Nat \ {0}, a \in Nat : a < n => a % n = a
OBVIOUS

LEMMA ModRange == \A n \in Nat \ {0}, a \in Int : a % n \in 0 .. n - 1
OBVIOUS

\* Two whole turns below the modulus.
LEMMA ModTwoBelow ==
  ASSUME NEW n \in Nat \ {0}, NEW a \in Int, -(2 * n) <= a, a < -n
  PROVE  a % n = a + 2 * n
OBVIOUS

\* Reduction leaves every value of the type alone and always lands in it.
LEMMA WrapCents == \A x \in Cents : Wrap(x) = x
<1> TAKE x \in Cents
<1>1. x + Limit \in Nat /\ x + Limit < 2 * Limit /\ 2 * Limit \in Nat \ {0}
  BY LimitAssumption DEF Cents
<1>2. (x + Limit) % (2 * Limit) = x + Limit
  BY <1>1, ModSmall
<1> QED BY <1>2, LimitAssumption DEF Wrap, Cents

LEMMA WrapType == \A x \in Int : Wrap(x) \in Cents
<1> TAKE x \in Int
<1>1. (x + Limit) % (2 * Limit) \in 0 .. 2 * Limit - 1
  BY LimitAssumption, ModRange
<1> QED BY <1>1, LimitAssumption DEF Wrap, Cents

\* A sum that overflows upwards shows as a negative value.
LEMMA WrapAbove ==
  ASSUME NEW x \in Int, Limit <= x, x < 2 * Limit
  PROVE  Wrap(x) < 0
<1>1. (x + Limit) - 2 * Limit \in Nat /\ (x + Limit) - 2 * Limit < Limit
  BY LimitAssumption
<1>2. (x + Limit) % (2 * Limit) = x - Limit
  BY <1>1, LimitAssumption
<1> QED BY <1>2, LimitAssumption DEF Wrap

\* A nonnegative percentage is at most a hundredth of the type's range.
LEMMA PercentBound ==
  ASSUME NEW v \in Cents, NEW p \in Nat
  PROVE  /\ Percent(v, p) \in Int
         /\ 100 * Percent(v, p) < Limit
<1> DEFINE product == Wrap(v * p)
<1>1. v * p \in Int
  BY LimitAssumption DEF Cents
<1>2. product \in Cents
  BY <1>1, WrapType
<1> HIDE DEF product
<1>3. LET q == IF product >= 0 THEN product \div 100 ELSE -((-product) \div 100)
      IN  q \in Int /\ 100 * q < Limit
  BY <1>2, LimitAssumption DEF Cents
<1> QED BY <1>3 DEF Percent, product

\* Without overflow a percentage is the exact one, rounded down.
LEMMA PercentExact ==
  ASSUME NEW v \in Nat, NEW p \in Nat, v * p < Limit
  PROVE  /\ Percent(v, p) \in Nat
         /\ 100 * Percent(v, p) <= v * p
         /\ v * p < 100 * (Percent(v, p) + 1)
<1> DEFINE q == v * p
<1>1. q \in Nat /\ q \in Cents
  BY LimitAssumption DEF Cents
<1>2. Wrap(q) = q
  BY <1>1, WrapCents
<1>3. Percent(v, p) = q \div 100
  BY <1>1, <1>2 DEF Percent
<1> HIDE DEF q
<1>4. q \div 100 \in Nat /\ 100 * (q \div 100) <= q /\ q < 100 * ((q \div 100) + 1)
  BY <1>1
<1> QED BY <1>3, <1>4 DEF q

\* A nonnegative seller slice means nothing wrapped on the way to it: the
\* price is not negative and the slice is the price less the two fees.
LEMMA SellerSlice ==
  ASSUME NEW v \in Cents,
         splits_for(v).network >= 0, splits_for(v).seller >= 0
  PROVE  /\ v \in Nat
         /\ splits_for(v).network \in Nat
         /\ splits_for(v).platform = splits_for(v).network
         /\ splits_for(v).seller \in Nat
         /\ splits_for(v).ads = 0
         /\ splits_for(v).seller = v - 2 * splits_for(v).network
<1> DEFINE fee == Percent(v, 5)
           seller == Wrap(Wrap(v - fee) - fee)
<1>1. /\ splits_for(v).network = fee
      /\ splits_for(v).platform = fee
      /\ splits_for(v).ads = 0
      /\ splits_for(v).seller = seller
  BY DEF splits_for
<1>2. fee \in Nat /\ 100 * fee < Limit
  BY <1>1, PercentBound
<1>3. v - 2 * fee >= -Limit
  <2> SUFFICES ASSUME v - 2 * fee < -Limit PROVE FALSE
    BY <1>2, LimitAssumption DEF Cents
  <2>1. -(2 * (2 * Limit)) <= v * 5 + Limit /\ v * 5 + Limit < -(2 * Limit)
    BY <1>2, LimitAssumption DEF Cents
  <2>2. (v * 5 + Limit) % (2 * Limit) = v * 5 + Limit + 2 * (2 * Limit)
    <3>1. 2 * Limit \in Nat \ {0} /\ v * 5 + Limit \in Int
      BY LimitAssumption DEF Cents
    <3> QED BY <2>1, <3>1, ModTwoBelow
  <2>3. Wrap(v * 5) = v * 5 + 4 * Limit
    BY <2>2, LimitAssumption DEF Wrap, Cents
  <2>4. Wrap(v * 5) < 0 /\ Wrap(v * 5) \in Int
    BY <2>1, <2>3, <1>2, LimitAssumption DEF Cents
  <2>5. fee = -((-(v * 5 + 4 * Limit)) \div 100)
    BY <2>3, <2>4 DEF Percent
  <2>6. fee >= 1
    BY <1>2, LimitAssumption DEF Cents
  <2>7. fee <= 0
    <3> DEFINE m == -(v * 5 + 4 * Limit)
    <3>1. m \in Nat
      BY <2>3, <2>4
    <3> HIDE DEF m
    <3>2. m \div 100 \in Nat
      BY <3>1
    <3> QED BY <2>5, <3>2 DEF m
  <2> QED BY <2>6, <2>7, <1>2
<1> HIDE DEF fee
<1>4. v - fee \in Cents /\ v - fee - fee \in Cents
  BY <1>2, <1>3, LimitAssumption DEF Cents
<1>5. seller = v - 2 * fee
  BY <1>4, <1>2, WrapCents DEF Cents
<1>6. v - 2 * fee >= 0 /\ v \in Int
  BY <1>1, <1>5 DEF Cents
<1> QED BY <1>1, <1>2, <1>5, <1>6

\* The credit is shared in full whenever both shares are acceptable.
LEMMA CreditShared ==
  ASSUME NEW a \in Cents, a > 0, ad_split(a).agency >= 0
  PROVE  /\ ad_split(a).agency \in Nat
         /\ ad_split(a).creator \in Int
         /\ ad_split(a).agency + ad_split(a).creator = a
<1> DEFINE agency == Percent(a, 60)
<1>1. ad_split(a).agency = agency /\ ad_split(a).creator = Wrap(a - agency)
  BY DEF ad_split
<1>2. agency \in Nat /\ 100 * agency < Limit
  BY <1>1, PercentBound
<1> HIDE DEF agency
<1>3. a - agency \in Cents
  BY <1>2, LimitAssumption DEF Cents
<1> QED BY <1>1, <1>2, <1>3, WrapCents DEF Cents

\* A price is an amount, and the credit none or one a campaign carries.
THEOREM TypeCorrect == Spec => []TypeOK
<1>1. Init => TypeOK
  BY DEF Init, TypeOK
<1>2. TypeOK /\ [Next]_vars => TypeOK'
  BY AdCreditsAssumption DEF TypeOK, Next, Boost, vars
<1> QED BY <1>1, <1>2, PTL DEF Spec

LEMMA BalancedIfStored == TypeOK => StoredIsBalanced
<1> SUFFICES ASSUME TypeOK, Stored(Instruction)
             PROVE  /\ \A party \in DOMAIN Instruction.splits : Instruction.splits[party] >= 0
                    /\ PaidOut(Instruction.splits) = Instruction.value
                    /\ Instruction.value = price + ad
  BY DEF StoredIsBalanced
<1> DEFINE s == splits_for(price)
           c == ad_split(ad)
<1>1. price \in Cents /\ ad \in Cents /\ ad >= 0
  BY AdCreditsAssumption, LimitAssumption DEF TypeOK, Cents
<1>2. /\ \A party \in DOMAIN Instruction.splits : Instruction.splits[party] >= 0
      /\ Instruction.value >= 0
      /\ Instruction.value = Wrap(price + ad)
  BY DEF Stored, parse_instruction, Instruction, BookingInstruction
<1>3. s.network >= 0 /\ s.seller >= 0
  <2>1. {"seller", "network"} \subseteq DOMAIN Instruction.splits
    BY DEF Instruction, BookingInstruction, splits_for
  <2>2. Instruction.splits.seller = s.seller /\ Instruction.splits.network = s.network
    BY DEF Instruction, BookingInstruction, splits_for
  <2> QED BY <2>1, <2>2, <1>2
<1>4. /\ price \in Nat /\ s.network \in Nat /\ s.seller \in Nat /\ s.ads = 0
      /\ s.platform = s.network
      /\ s.seller = price - 2 * s.network
  BY <1>1, <1>3, SellerSlice
<1>5. Instruction.value = price + ad
  <2>1. CASE price + ad < Limit
    BY <2>1, <1>1, <1>2, <1>4, WrapCents, LimitAssumption DEF Cents
  <2>2. CASE price + ad >= Limit
    <3>1. price + ad \in Int /\ price + ad < 2 * Limit
      BY <1>1, <1>4, LimitAssumption DEF Cents
    <3>2. Wrap(price + ad) < 0
      BY <3>1, <2>2, WrapAbove
    <3>3. Wrap(price + ad) \in Int
      BY <3>1, WrapType DEF Cents
    <3>4. Wrap(price + ad) >= 0
      BY <1>2
    <3> QED BY <3>2, <3>3, <3>4
  <2> QED BY <2>1, <2>2, <1>1, <1>4, LimitAssumption DEF Cents
<1>6. PaidOut(Instruction.splits) = price + ad
  <2>1. CASE ad > 0
    <3>1. /\ Instruction.splits.seller = s.seller
          /\ Instruction.splits.network = s.network
          /\ Instruction.splits.platform = s.platform
          /\ Instruction.splits.agency = c.agency
          /\ Instruction.splits.creator = c.creator
          /\ "agency" \in DOMAIN Instruction.splits
      BY <2>1 DEF Instruction, BookingInstruction
    <3>2. c.agency >= 0
      BY <3>1, <1>2
    <3>3. c.agency \in Nat /\ c.creator \in Int /\ c.agency + c.creator = ad
      BY <3>2, <2>1, <1>1, CreditShared
    <3> QED BY <3>1, <3>3, <1>4, <1>1 DEF PaidOut, Cents
  <2>2. CASE ad = 0
    <3>1. Instruction.splits = s
      BY <2>2 DEF Instruction, BookingInstruction
    <3>2. "agency" \notin DOMAIN s
      BY DEF splits_for
    <3> QED BY <3>1, <3>2, <2>2, <1>4 DEF PaidOut
  <2> QED BY <2>1, <2>2, <1>1 DEF Cents
<1> QED BY <1>2, <1>5, <1>6

(* No machine width, price or credit lets ledger-svc store an instruction
   whose slices do not add up to the price plus the credit. *)
THEOREM StoredBalanced == Spec => []StoredIsBalanced
BY TypeCorrect, BalancedIfStored, PTL

\* Away from overflow every operation is the exact one.
LEMMA ExactIfInRange == TypeOK => SharesAreExact
<1> SUFFICES ASSUME TypeOK, InRange
             PROVE  LET s == Instruction.splits
                    IN  /\ Stored(Instruction)
                        /\ Instruction.value = price + ad
                        /\ s.network = s.platform
                        /\ 100 * s.network <= 5 * price /\ 5 * price < 100 * (s.network + 1)
                        /\ s.seller = price - 2 * s.network
                        /\ ad > 0 => /\ s.agency + s.creator = ad
                                     /\ 100 * s.agency <= 60 * ad
                                     /\ 60 * ad < 100 * (s.agency + 1)
  BY DEF SharesAreExact
<1> DEFINE fee == Percent(price, 5)
           agency == Percent(ad, 60)
<1>1. /\ price \in Nat /\ ad \in Nat /\ 5 * price < Limit /\ 60 * ad < Limit
      /\ price + ad < Limit /\ Limit \in Nat
  BY AdCreditsAssumption, LimitAssumption DEF TypeOK, InRange, Cents
<1>2. /\ fee \in Nat /\ 100 * fee <= price * 5 /\ price * 5 < 100 * (fee + 1)
      /\ agency \in Nat /\ 100 * agency <= ad * 60 /\ ad * 60 < 100 * (agency + 1)
  <2>1. price * 5 < Limit /\ ad * 60 < Limit
    BY <1>1
  <2> QED BY <1>1, <2>1, PercentExact
<1> DEFINE s == splits_for(price)
           c == ad_split(ad)
<1>3. /\ s.network = fee /\ s.platform = fee /\ s.ads = 0
      /\ s.seller = Wrap(Wrap(price - fee) - fee)
      /\ c.agency = agency /\ c.creator = Wrap(ad - agency)
  BY DEF splits_for, ad_split
<1>4. DOMAIN s = {"seller", "network", "platform", "ads"}
  BY DEF splits_for
<1> HIDE DEF fee, agency
<1>5. /\ price - fee \in Cents /\ price - fee - fee \in Cents /\ ad - agency \in Cents
      /\ price - 2 * fee \in Nat /\ ad - agency \in Nat /\ price + ad \in Cents
  BY <1>1, <1>2 DEF Cents
<1>6. s.seller = price - 2 * fee /\ c.creator = ad - agency /\ Wrap(price + ad) = price + ad
  BY <1>1, <1>2, <1>3, <1>5, WrapCents
<1> HIDE DEF s, c
<1>7. price - 2 * fee + fee + fee = price
  BY <1>1, <1>2
<1>8. \A x \in 0 .. price + ad : Wrap(x) = x
  BY <1>1, WrapCents DEF Cents
<1>9. Instruction.value = price + ad
  BY <1>6 DEF Instruction, BookingInstruction
<1>10. CASE ad > 0
  <2> DEFINE t == Instruction.splits
  <2>1. /\ DOMAIN t = {"seller", "network", "platform", "agency", "creator"}
        /\ t.seller = price - 2 * fee /\ t.network = fee /\ t.platform = fee
        /\ t.agency = agency /\ t.creator = ad - agency
    BY <1>3, <1>6, <1>10 DEF Instruction, BookingInstruction, s, c
  <2>2. parse_instruction(Instruction)
    <3> HIDE DEF t
    <3>1. \A party \in DOMAIN t : t[party] >= 0
      BY <1>2, <1>5, <2>1
    <3>2. /\ t.seller + t.network \in 0 .. price + ad
          /\ t.seller + t.network + t.platform = price
          /\ price + t.agency \in 0 .. price + ad
          /\ price + t.agency + t.creator = price + ad
      BY <1>1, <1>2, <1>5, <1>7, <2>1
    <3>3. SplitTotal(t) = price + ad
      <4>1. Wrap(Wrap(t.seller + t.network) + t.platform) = price
        BY <1>1, <1>8, <3>2
      <4>2. Wrap(Wrap(price + t.agency) + t.creator) = price + ad
        BY <1>1, <1>8, <3>2
      <4> QED BY <2>1, <4>1, <4>2 DEF SplitTotal
    <3> QED BY <1>9, <3>1, <3>3 DEF parse_instruction, t
  <2>3. Stored(Instruction)
    BY <1>1, <1>9, <2>2 DEF Stored
  <2> HIDE DEF t
  <2>4. /\ t.network = t.platform /\ 100 * t.network <= 5 * price
        /\ 5 * price < 100 * (t.network + 1) /\ t.seller = price - 2 * t.network
        /\ t.agency + t.creator = ad /\ 100 * t.agency <= 60 * ad
        /\ 60 * ad < 100 * (t.agency + 1)
    BY <1>1, <1>2, <2>1
  <2> QED BY <1>9, <2>3, <2>4 DEF t
<1>11. CASE ~ (ad > 0)
  <2>1. ad = 0
    BY <1>1, <1>11
  <2>2. Instruction.splits = s
    BY <1>11 DEF Instruction, BookingInstruction, s
  <2>3. parse_instruction(Instruction)
    <3>1. \A party \in DOMAIN s : s[party] >= 0
      BY <1>2, <1>3, <1>4, <1>5, <1>6
    <3>2. /\ s.seller + s.network \in 0 .. price + ad
          /\ s.seller + s.network + s.platform = price
          /\ price \in 0 .. price + ad /\ price + s.ads = price
      BY <1>1, <1>2, <1>3, <1>5, <1>6, <1>7
    <3>3. SplitTotal(s) = price
      <4>1. Wrap(Wrap(s.seller + s.network) + s.platform) = price
        BY <1>8, <3>2
      <4> QED BY <1>4, <1>8, <3>2, <4>1 DEF SplitTotal
    <3> QED BY <1>1, <1>9, <2>1, <2>2, <3>1, <3>3 DEF parse_instruction
  <2>4. Stored(Instruction)
    BY <1>1, <1>9, <2>3 DEF Stored
  <2>5. /\ s.network = s.platform /\ 100 * s.network <= 5 * price
        /\ 5 * price < 100 * (s.network + 1) /\ s.seller = price - 2 * s.network
    BY <1>1, <1>2, <1>3, <1>6
  <2> QED BY <1>9, <1>11, <2>2, <2>4, <2>5
<1> QED BY <1>10, <1>11

(* As long as five times the price and sixty times the credit fit the
   machine's integers, every party receives exactly what the documents
   promise, and ledger-svc stores the instruction. *)
THEOREM ExactAwayFromOverflow == Spec => []SharesAreExact
BY TypeCorrect, ExactIfInRange, PTL
=============================================================================
