-------------------------------- MODULE Fees --------------------------------
(***************************************************************************)
(* What an offer on an unconfirmed transaction costs: the rate a screen    *)
(* offers or takes (packages/wallet-ui/src/feebump.ts, ui/format.ts), the   *)
(* rate the core builds at, and the fee it asks for (wallet-core,           *)
(* fee_rate_from_sat_vb, build_fee_bump, build_cancel, build_cpfp).        *)
(*                                                                         *)
(* Three roundings meet here.  A screen writes tenths of a sat/vB; the     *)
(* core counts whole sat per 1000 weight units, 0.004 sat/vB apart; a      *)
(* network compares whole sats.  Every rate below is in thousandths of a   *)
(* sat/vB, which holds all three, or says that it is in sat/kwu.           *)
(*                                                                         *)
(* RoundsToNearest, AtItsRate and OfTheChild are faulty variants of the    *)
(* definition each stands before.                                          *)
(***************************************************************************)
EXTENDS Integers

CONSTANTS Originals, \* unconfirmed transactions, as far as a price goes
          Sizes,     \* virtual sizes of what replaces or follows them
          Asked      \* rates the backend estimates and users type

ASSUME OriginalsAssumption == Originals \subseteq [fee : Nat, weight : Nat \ {0}]
ASSUME SizesAssumption == Sizes \subseteq Nat \ {0}
ASSUME AskedAssumption == Asked \subseteq Nat

VARIABLES original, \* the transaction of the open row
          market,   \* the estimate for the target chosen; 0 while there is none
          entered,  \* the rate in the field
          advised,  \* whether the wallet put it there, or named it in a refusal
          quote     \* what the core last answered

feeVars == <<original, market, entered, advised, quote>>

Larger(a, b) == IF a < b THEN b ELSE a
CeilDiv(a, b) == (a + b - 1) \div b

OneSatVb == 1000       \* the relay minimum, and the default incremental relay fee
Minimum == 250         \* the same in sat/kwu, FeeRate::BROADCAST_MIN

(* fee_rate_from_sat_vb: the floor, then up to a whole sat/kwu. *)
PerKwu(rate) == CeilDiv(Larger(rate, OneSatVb), 4)

(* fee_at: what a size costs at a rate in sat/kwu, up to a whole sat. *)
FeeAt(kwu, vsize) == CeilDiv(kwu * vsize * 4, 1000)

Vsize(t) == CeilDiv(t.weight, 4)

(* calculate_fee_rate, in sat/kwu; and the rate a detail shows, that over 250. *)
OwnKwu(t) == (t.fee * 1000) \div t.weight
ShownRate(t) == 4 * OwnKwu(t)

(* typeableRate: up to a tenth of a sat/vB, and no lower than the minimum. *)
RoundsToNearest(rate) == Larger(OneSatVb, 100 * ((rate + 50) \div 100))
Typeable(rate) == Larger(OneSatVb, 100 * CeilDiv(rate, 100))

(* outbid, behind suggestBumpRate and suggestPackageRate: what the market asks, *)
(* or the original's own rate and the margin; an own rate of 0 is not known.    *)
Outbid(asked, t) ==
    Typeable(Larger(asked, IF ShownRate(t) > 0 THEN ShownRate(t) + OneSatVb ELSE 0))

(* BDK's floor for build_fee_bump, and for build_cancel's first build: the      *)
(* original's own rate and 1 sat/vB.  A refusal names it.                       *)
RequiredKwu(t) == OwnKwu(t) + Minimum
TooLow(t, rate) == PerKwu(rate) < RequiredKwu(t)

(* The rate the message of that refusal names (errorMessage, types.ts). *)
Named(t) == Typeable(4 * RequiredKwu(t))

(* build_cancel's fee: the rate over the replacement's size, or the original's *)
(* fee and the incremental fee over that size.                                 *)
AtItsRate(t, rate, vsize) == FeeAt(PerKwu(rate), vsize)
CancelFee(t, rate, vsize) ==
    Larger(FeeAt(PerKwu(rate), vsize), t.fee + FeeAt(Minimum, vsize))

(* build_cpfp's fee: what the two should pay, less what the parent does. *)
OfTheChild(t, rate, vsize) == FeeAt(PerKwu(rate), vsize)
ChildFee(t, rate, vsize) ==
    Larger(FeeAt(PerKwu(rate), Vsize(t) + vsize) - t.fee, FeeAt(Minimum, vsize))

-----------------------------------------------------------------------------
Quote(kind, rate, vsize, fee) == [kind |-> kind, rate |-> rate, vsize |-> vsize, fee |-> fee]
Nothing == Quote("nothing", 0, 0, 0)

FeesInit ==
    /\ original \in Originals
    /\ market = 0
    /\ entered = 0
    /\ advised = FALSE
    /\ quote = Nothing

(* The estimate answers: the field is prefilled anew, unless it was typed in. *)
Estimated(rate) ==
    /\ market = 0
    /\ market' = rate
    /\ UNCHANGED <<original, entered, advised, quote>>

Prefill ==
    /\ entered = 0 \/ advised
    /\ entered' = Outbid(market, original)
    /\ advised' = TRUE
    /\ UNCHANGED <<original, market, quote>>

(* A rate feeRateError lets through: more than 0. *)
EnterRate(rate) ==
    /\ rate > 0
    /\ entered' = rate
    /\ advised' = FALSE
    /\ UNCHANGED <<original, market, quote>>

(* The rate the last refusal named. *)
EnterNamed ==
    /\ quote.kind = "refused"
    /\ entered' = Named(original)
    /\ advised' = TRUE
    /\ UNCHANGED <<original, market, quote>>

Quotes(q) == /\ quote' = q
             /\ UNCHANGED <<original, market, entered, advised>>

(* Bump fee, at the rate in the field; its fee is BDK's. *)
PressBump ==
    /\ entered > 0
    /\ Quotes(Quote(IF TooLow(original, entered) THEN IF advised THEN "misled" ELSE "refused"
                    ELSE "bump", entered, 0, 0))

(* Cancel, at the rate that would be offered whatever is in the field. *)
PressCancel(vsize) ==
    LET rate == Outbid(market, original)
    IN  Quotes(Quote(IF TooLow(original, rate) THEN "misled" ELSE "cancel",
                     rate, vsize, CancelFee(original, rate, vsize)))

(* Speed up, at the rate offered for a target, or at the one typed, which the *)
(* phone refuses unless it is above the parent's.                             *)
SpeedUp(vsize) ==
    \E rate \in {Outbid(market, original)} \cup (IF entered > 0 /\ ~advised THEN {Typeable(entered)} ELSE {}) :
        /\ rate > ShownRate(original)
        /\ Quotes(Quote("child", rate, vsize, ChildFee(original, rate, vsize)))

FeesNext ==
    \/ \E rate \in Asked : Estimated(rate) \/ EnterRate(rate)
    \/ Prefill \/ EnterNamed \/ PressBump
    \/ \E vsize \in Sizes : PressCancel(vsize) \/ SpeedUp(vsize)

FeesSpec == FeesInit /\ [][FeesNext]_feeVars

-----------------------------------------------------------------------------
\* The rate prefilled in a bump, asked for in a cancel or named by a refusal is
\* never refused as too low, whatever the roundings between the screen, the
\* core and the original's own rate: a button does not fail on its first press,
\* nor on the press its own error advised.
OffersAreBuilt == quote.kind # "misled"

\* A cancel outbids the original in both of the ways nodes ask for: its fee
\* covers the original's and its own relay at 1 sat/vB, and it pays the rate
\* asked and more for its size than the original did, though it is of another
\* size and each was rounded (BIP125 rules 3 and 4).
CancelOutbids ==
    quote.kind = "cancel" =>
        /\ quote.fee >= original.fee + quote.vsize
        /\ quote.fee * 1000 >= quote.rate * quote.vsize
        /\ quote.fee * original.weight > original.fee * 4 * quote.vsize

\* A child brings the pair to the rate asked, and to more than the parent pays
\* alone: nobody pays for a child that gets nothing moved.
ChildHelps ==
    quote.kind = "child" =>
        LET paid == original.fee + quote.fee
            size == Vsize(original) + quote.vsize
        IN  /\ paid * 1000 >= quote.rate * size
            /\ paid * Vsize(original) > original.fee * size
            /\ quote.fee >= quote.vsize
=============================================================================
