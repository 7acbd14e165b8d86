------------------------------ MODULE AdBudget ------------------------------
(***************************************************************************)
(* A campaign of ads-svc and the boosted bookings of the coordinator. The  *)
(* feed offers the campaign while some of its budget is left, so a         *)
(* shortlist carries its credit; a booking of that shortlist instructs the *)
(* credit at the ledger, orders, and then tells ads-svc, once and with no  *)
(* regard to the answer. ads-svc keeps everything in memory.               *)
(***************************************************************************)
EXTENDS Integers, FiniteSets

CONSTANTS
  Booking,   \* match ids of boosted shortlist entries
  Ad,        \* ad_cents_per_match
  Budget     \* budget_cents

ASSUME BudgetAssumption == Ad \in Nat \ {0} /\ Budget \in Nat /\ Ad <= Budget

VARIABLES
  campaign,      \* "none", "draft" or "active"
  asset,         \* an approved asset of it exists
  spent,
  attributions,  \* how often each booking was attributed
  boosted,       \* shortlists that carry the credit
  closed,        \* those booked, or forgotten by the coordinator
  booking,       \* the booking under way
  credited,      \* credits instructed at the ledger
  attempts       \* attributions the coordinator waits for no longer

adVars == <<campaign, asset, spent, attributions, boosted, closed, booking, credited, attempts>>

-----------------------------------------------------------------------------
NoBooking == [pc |-> "none"]

\* The id of a campaign posted again after a restart is the one it had.
CreateCampaign ==
  /\ campaign = "none"
  /\ campaign' = "draft"
  /\ UNCHANGED <<asset, spent, attributions, boosted, closed, booking, credited, attempts>>

SubmitAsset ==
  /\ campaign # "none"
  /\ asset' = TRUE
  /\ UNCHANGED <<campaign, spent, attributions, boosted, closed, booking, credited, attempts>>

Activate ==
  /\ asset
  /\ campaign' = "active"
  /\ UNCHANGED <<asset, spent, attributions, boosted, closed, booking, credited, attempts>>

\* GET /v1/campaigns/region: what is left need not pay for a match.
Boost(b) ==
  /\ campaign = "active" /\ spent < Budget
  /\ boosted' = boosted \cup {b}
  /\ b \notin boosted
  /\ UNCHANGED <<campaign, asset, spent, attributions, closed, booking, credited, attempts>>

\* POST /v1/attributions
Charge(b) ==
  IF campaign = "active" /\ spent + Ad <= Budget
    THEN /\ spent' = spent + Ad
         /\ attributions' = [attributions EXCEPT ![b] = @ + 1]
    ELSE UNCHANGED <<spent, attributions>>

StartBooking(b) ==
  /\ booking = NoBooking /\ b \in boosted \ closed
  /\ booking' = [pc |-> "instruct", match |-> b]
  /\ UNCHANGED <<campaign, asset, spent, attributions, boosted, closed, credited, attempts>>

\* The instruction is stored, or was before; its answer may be lost.
InstructCredit ==
  /\ booking.pc = "instruct"
  /\ credited' = credited \cup {booking.match}
  /\ booking' \in {NoBooking, [booking EXCEPT !.pc = "order"]}
  /\ UNCHANGED <<campaign, asset, spent, attributions, boosted, closed, attempts>>

OrderBoosted ==
  /\ booking.pc = "order"
  /\ booking' = [booking EXCEPT !.pc = "attribute"]
  /\ UNCHANGED <<campaign, asset, spent, attributions, boosted, closed, credited, attempts>>

\* A call that fails ends the booking; the buyer may try again.
FailBooking ==
  /\ booking.pc \in {"instruct", "order"}
  /\ booking' = NoBooking
  /\ UNCHANGED <<campaign, asset, spent, attributions, boosted, closed, credited, attempts>>

\* Faulty: a booking whose attribution failed can be booked again.
AttributeOrRetry ==
  /\ booking.pc = "attribute"
  /\ booking' = NoBooking
  /\ \/ Charge(booking.match) /\ closed' \in {closed, closed \cup {booking.match}} /\ UNCHANGED attempts
     \/ /\ attempts' \in {attempts, attempts \cup {booking.match}}
        /\ UNCHANGED <<spent, attributions, closed>>
  /\ UNCHANGED <<campaign, asset, boosted, credited>>

\* The attribution, answered or not: the booking is recorded all the same.
Attribute ==
  /\ booking.pc = "attribute"
  /\ booking' = NoBooking
  /\ closed' = closed \cup {booking.match}
  /\ \/ Charge(booking.match) /\ UNCHANGED attempts
     \/ /\ attempts' \in {attempts, attempts \cup {booking.match}}
        /\ UNCHANGED <<spent, attributions>>
  /\ UNCHANGED <<campaign, asset, boosted, credited>>

LateAttribution(b) ==
  /\ attempts' = attempts \ {b}
  /\ Charge(b)
  /\ UNCHANGED <<campaign, asset, boosted, closed, booking, credited>>

AdsRestart ==
  /\ campaign' = "none" /\ asset' = FALSE /\ spent' = 0
  /\ attributions' = [b \in Booking |-> 0]
  /\ attempts' = {}
  /\ UNCHANGED <<boosted, closed, booking, credited>>

\* Its shortlists are forgotten; a call under way may still be handled.
CoordinatorRestart ==
  /\ closed' = boosted /\ booking' = NoBooking
  /\ attempts' \in {attempts} \cup
       IF booking.pc = "attribute" THEN {attempts \cup {booking.match}} ELSE {}
  /\ UNCHANGED <<campaign, asset, spent, attributions, boosted, credited>>

AdInit ==
  /\ campaign = "none" /\ asset = FALSE /\ spent = 0
  /\ attributions = [b \in Booking |-> 0]
  /\ boosted = {} /\ closed = {} /\ booking = NoBooking
  /\ credited = {} /\ attempts = {}

AdNext ==
  \/ CreateCampaign \/ SubmitAsset \/ Activate
  \/ \E b \in Booking : Boost(b) \/ StartBooking(b)
  \/ InstructCredit \/ OrderBoosted \/ FailBooking \/ Attribute
  \/ \E b \in attempts : LateAttribution(b)
  \/ AdsRestart \/ CoordinatorRestart

AdSpec == AdInit /\ [][AdNext]_adVars

-----------------------------------------------------------------------------
AdTypeOK ==
  /\ campaign \in {"none", "draft", "active"} /\ asset \in BOOLEAN /\ spent \in 0 .. Budget
  /\ attributions \in [Booking -> Nat]
  /\ closed \subseteq boosted /\ boosted \subseteq Booking
  /\ booking.pc \in {"none", "instruct", "order", "attribute"}
  /\ credited \subseteq boosted /\ attempts \subseteq closed

(* The advertiser is charged for a match at most once, and only for one whose
   credit the ledger has been instructed to pay: bookings that fail halfway
   and are made again, attributions handled late and restarts of either
   service included. (The converse is not kept: a credit may be paid that is
   never charged.) *)
ChargedOnce ==
  /\ \A b \in Booking : attributions[b] <= 1 /\ (attributions[b] = 1 => b \in credited)
  /\ spent = Ad * Cardinality({b \in Booking : attributions[b] = 1})
=============================================================================
