----------------------------- MODULE FeesProofs -----------------------------
(***************************************************************************)
(* Fees, proved for every original, size, estimate and typed rate: no rate *)
(* the wallet offers is refused as too low, a cancel outbids what it       *)
(* replaces, and a child lifts its parent.  TLC sees a few amounts; the    *)
(* roundings are about all of them.                                        *)
(*                                                                         *)
(* The inductive part is small, an offered rate is not too low (Advice);   *)
(* the weight is in the lemmas on the roundings.                           *)
(***************************************************************************)
EXTENDS Fees, TLAPS

-----------------------------------------------------------------------------
(* The roundings.                                                          *)

\* A quotient rounded down, by any divisor.
LEMMA Floor ==
    ASSUME NEW a \in Nat, NEW b \in Nat \ {0}
    PROVE  /\ a \div b \in Nat
           /\ a < (a \div b + 1) * b
<1>1. a = b * (a \div b) + (a % b) /\ a % b < b
  OBVIOUS
<1>2. a \div b \in Nat
  OBVIOUS
<1> DEFINE q == a \div b
<1>3. q \in Nat /\ (q + 1) * b = b * q + b
  BY <1>2
<1> QED
  BY <1>1, <1>2, <1>3

\* A larger number, and the smallest multiple of 4, 100 or 1000 no smaller.
LEMMA Ceil ==
    ASSUME NEW a \in Nat
    PROVE  /\ CeilDiv(a, 4) \in Nat /\ a <= 4 * CeilDiv(a, 4)
           /\ CeilDiv(a, 100) \in Nat /\ a <= 100 * CeilDiv(a, 100)
           /\ CeilDiv(a, 1000) \in Nat /\ a <= 1000 * CeilDiv(a, 1000)
  BY DEF CeilDiv

LEMMA LargerIs ==
    ASSUME NEW a \in Nat, NEW b \in Nat
    PROVE  Larger(a, b) \in Nat /\ a <= Larger(a, b) /\ b <= Larger(a, b)
  BY DEF Larger

\* The core builds at no less than the rate asked, nor than 1 sat/vB.
LEMMA PerKwuIs ==
    ASSUME NEW rate \in Nat
    PROVE  /\ PerKwu(rate) \in Nat
           /\ rate <= 4 * PerKwu(rate)
           /\ Minimum <= PerKwu(rate)
<1>1. /\ Larger(rate, OneSatVb) \in Nat
      /\ rate <= Larger(rate, OneSatVb)
      /\ OneSatVb <= Larger(rate, OneSatVb)
  BY LargerIs DEF OneSatVb
<1> QED
  BY <1>1, Ceil DEF PerKwu, OneSatVb, Minimum

LEMMA TypeableIs ==
    ASSUME NEW rate \in Nat
    PROVE  Typeable(rate) \in Nat /\ rate <= Typeable(rate) /\ 0 < Typeable(rate)
<1>1. CeilDiv(rate, 100) \in Nat /\ rate <= 100 * CeilDiv(rate, 100)
  BY Ceil
<1>2. /\ Typeable(rate) \in Nat
      /\ 100 * CeilDiv(rate, 100) <= Typeable(rate)
      /\ OneSatVb <= Typeable(rate)
  <2>1. OneSatVb \in Nat /\ 100 * CeilDiv(rate, 100) \in Nat
    BY <1>1 DEF OneSatVb
  <2>2. CeilDiv(rate, 100) * 100 = 100 * CeilDiv(rate, 100)
    BY <1>1
  <2> QED
    BY <2>1, <2>2, LargerIs DEF Typeable
<1> QED
  BY <1>1, <1>2 DEF OneSatVb

\* A fee covers the rate for all of the size.
LEMMA FeeAtIs ==
    ASSUME NEW kwu \in Nat, NEW vsize \in Nat
    PROVE  /\ FeeAt(kwu, vsize) \in Nat
           /\ 4 * (kwu * vsize) <= 1000 * FeeAt(kwu, vsize)
<1>1. kwu * vsize \in Nat /\ kwu * vsize * 4 \in Nat
  OBVIOUS
<1>2. /\ CeilDiv(kwu * vsize * 4, 1000) \in Nat
      /\ kwu * vsize * 4 <= 1000 * CeilDiv(kwu * vsize * 4, 1000)
  BY <1>1, Ceil
<1> QED
  BY <1>1, <1>2 DEF FeeAt

\* What a size costs at 1 sat/vB is the size.
LEMMA RelayIs ==
    ASSUME NEW vsize \in Nat
    PROVE  FeeAt(Minimum, vsize) = vsize
  BY DEF FeeAt, Minimum, CeilDiv

-----------------------------------------------------------------------------
(* An original, and the rates offered to beat it.                          *)

\* Its rate, rounded down to a whole sat/kwu, is less than 1 sat/kwu short.
LEMMA OriginalIs ==
    ASSUME NEW t \in Originals
    PROVE  /\ t.fee \in Nat /\ t.weight \in Nat \ {0}
           /\ OwnKwu(t) \in Nat
           /\ t.fee * 1000 < (OwnKwu(t) + 1) * t.weight
           /\ Vsize(t) \in Nat
           /\ t.weight <= 4 * Vsize(t)
<1>1. t.fee \in Nat /\ t.weight \in Nat \ {0}
  BY OriginalsAssumption
<1>2. /\ OwnKwu(t) \in Nat
      /\ t.fee * 1000 < (OwnKwu(t) + 1) * t.weight
  BY <1>1, Floor DEF OwnKwu
<1> QED
  BY <1>1, <1>2, Ceil DEF Vsize

LEMMA OutbidIs ==
    ASSUME NEW t \in Originals, NEW asked \in Nat
    PROVE  Outbid(asked, t) \in Nat /\ ~TooLow(t, Outbid(asked, t)) /\ ShownRate(t) < Outbid(asked, t)
<1> DEFINE floor == IF ShownRate(t) > 0 THEN ShownRate(t) + OneSatVb ELSE 0
           best == Larger(asked, floor)
<1>1. OwnKwu(t) \in Nat /\ ShownRate(t) = 4 * OwnKwu(t)
  BY OriginalIs DEF ShownRate
<1>2. floor \in Nat
  BY <1>1 DEF OneSatVb
<1>3. best \in Nat /\ floor <= best
  BY <1>2, LargerIs
<1>4. /\ Outbid(asked, t) = Typeable(best)
      /\ Typeable(best) \in Nat /\ best <= Typeable(best) /\ 0 < Typeable(best)
  BY <1>3, TypeableIs DEF Outbid
<1>5. /\ PerKwu(Outbid(asked, t)) \in Nat
      /\ Outbid(asked, t) <= 4 * PerKwu(Outbid(asked, t))
      /\ 250 <= PerKwu(Outbid(asked, t))
  BY <1>4, PerKwuIs DEF Minimum
<1>6. floor <= Outbid(asked, t)
  BY <1>2, <1>3, <1>4
<1>7. CASE OwnKwu(t) = 0
  BY <1>1, <1>4, <1>5, <1>7 DEF TooLow, RequiredKwu, Minimum
<1>8. CASE OwnKwu(t) > 0
  <2>1. 4 * OwnKwu(t) + 1000 <= Outbid(asked, t)
    BY <1>1, <1>6, <1>8 DEF OneSatVb
  <2> QED
    BY <1>1, <1>4, <1>5, <2>1 DEF TooLow, RequiredKwu, Minimum
<1> QED
  BY <1>1, <1>7, <1>8

LEMMA NamedIs ==
    ASSUME NEW t \in Originals
    PROVE  Named(t) \in Nat /\ ~TooLow(t, Named(t))
<1>1. RequiredKwu(t) \in Nat
  BY OriginalIs DEF RequiredKwu, Minimum
<1>2. Named(t) \in Nat /\ 4 * RequiredKwu(t) <= Named(t)
  BY <1>1, TypeableIs DEF Named
<1> QED
  BY <1>1, <1>2, PerKwuIs DEF TooLow

\* Products keep an order.
LEMMA Scaled ==
    ASSUME NEW a \in Nat, NEW b \in Nat, NEW c \in Nat
    PROVE  /\ a <= b => a * c <= b * c
           /\ a < b /\ c # 0 => a * c < b * c
  OBVIOUS

-----------------------------------------------------------------------------
(* The fees.                                                               *)

\* The three ways a cancel's fee is enough.
LEMMA CancelPays ==
    ASSUME NEW t \in Originals, NEW rate \in Nat, NEW vsize \in Nat \ {0}
    PROVE  ~TooLow(t, rate) =>
           LET fee == CancelFee(t, rate, vsize)
           IN  /\ fee \in Nat
               /\ fee >= t.fee + vsize
               /\ fee * 1000 >= rate * vsize
               /\ fee * t.weight > t.fee * 4 * vsize
<1>0. PICK k \in Nat : k = PerKwu(rate)
  BY PerKwuIs
<1> DEFINE w == t.weight
           fee == CancelFee(t, rate, vsize)
<1>1. /\ k \in Nat /\ rate <= 4 * k
      /\ t.fee \in Nat /\ w \in Nat \ {0} /\ OwnKwu(t) \in Nat
      /\ t.fee * 1000 < (OwnKwu(t) + 1) * w
  BY <1>0, PerKwuIs, OriginalIs
<1>3. /\ FeeAt(k, vsize) \in Nat
      /\ 4 * (k * vsize) <= 1000 * FeeAt(k, vsize)
      /\ FeeAt(Minimum, vsize) = vsize
  <2>1. vsize \in Nat
    OBVIOUS
  <2>2. FeeAt(Minimum, vsize) = vsize
    BY <2>1, RelayIs
  <2>3. FeeAt(k, vsize) \in Nat /\ 4 * (k * vsize) <= 1000 * FeeAt(k, vsize)
    BY <2>1, FeeAtIs
  <2> QED
    BY <2>2, <2>3
<1>2. HAVE ~TooLow(t, rate)
<1>9. OwnKwu(t) + 1 <= k
  BY <1>0, <1>1, <1>2 DEF TooLow, RequiredKwu, Minimum
<1>4. /\ fee \in Nat
      /\ t.fee + vsize <= fee
      /\ FeeAt(k, vsize) <= fee
  <2>1. t.fee + vsize \in Nat
    BY <1>1
  <2>2. fee = Larger(FeeAt(k, vsize), t.fee + vsize)
    BY <1>0, <1>3 DEF CancelFee
  <2> HIDE DEF fee
  <2> QED
    BY <1>3, <2>1, <2>2, LargerIs
<1>5. k * vsize \in Nat /\ 4 * (k * vsize) <= 1000 * fee
  BY <1>1, <1>3, <1>4
<1>6. rate * vsize <= fee * 1000
  <2>1. rate * vsize <= (4 * k) * vsize
    BY <1>1, Scaled
  <2>2. (4 * k) * vsize = 4 * (k * vsize)
    BY <1>1
  <2> QED
    BY <1>1, <1>4, <1>5, <2>1, <2>2
<1>7. fee * w > t.fee * 4 * vsize
  <2>1. (OwnKwu(t) + 1) * w <= k * w
    BY <1>1, <1>9, Scaled
  <2>2. t.fee * 1000 < k * w /\ k * w \in Nat
    BY <1>1, <2>1
  <2>3. (t.fee * 1000) * vsize < (k * w) * vsize
    BY <1>1, <2>2, Scaled
  <2>4. (4 * (k * vsize)) * w <= (1000 * fee) * w
    BY <1>1, <1>4, <1>5, Scaled
  <2>5. /\ (4 * (k * vsize)) * w = 4 * ((k * w) * vsize)
        /\ (1000 * fee) * w = 1000 * (fee * w)
        /\ (t.fee * 1000) * vsize = 250 * (t.fee * 4 * vsize)
    BY <1>1, <1>4
  <2>6. /\ (k * w) * vsize \in Nat /\ fee * w \in Nat /\ t.fee * 4 * vsize \in Nat
    BY <1>1, <1>4
  <2> QED
    BY <2>3, <2>4, <2>5, <2>6
<1> QED
  BY <1>4, <1>6, <1>7

\* What a child brings the pair to.
LEMMA ChildPays ==
    ASSUME NEW t \in Originals, NEW rate \in Nat, NEW vsize \in Nat \ {0}
    PROVE  ShownRate(t) < rate =>
           LET fee  == ChildFee(t, rate, vsize)
               paid == t.fee + fee
               size == Vsize(t) + vsize
           IN  /\ fee \in Nat
               /\ paid * 1000 >= rate * size
               /\ paid * Vsize(t) > t.fee * size
               /\ fee >= vsize
<1>1. PICK k \in Nat : k = PerKwu(rate) /\ rate <= 4 * k
  BY PerKwuIs
<1>2. PICK v \in Nat : v = Vsize(t) /\ t.weight <= 4 * v
  BY OriginalIs
<1>3. PICK size \in Nat : size = v + vsize /\ size # 0
  OBVIOUS
<1>4. /\ FeeAt(k, size) \in Nat
      /\ 4 * (k * size) <= 1000 * FeeAt(k, size)
      /\ FeeAt(Minimum, vsize) = vsize
  <2>1. vsize \in Nat
    OBVIOUS
  <2>2. FeeAt(Minimum, vsize) = vsize
    BY <2>1, RelayIs
  <2>3. FeeAt(k, size) \in Nat /\ 4 * (k * size) <= 1000 * FeeAt(k, size)
    BY FeeAtIs
  <2> QED
    BY <2>2, <2>3
<1> DEFINE w == t.weight
           fee == ChildFee(t, rate, vsize)
           paid == t.fee + fee
<1>5. /\ t.fee \in Nat /\ w \in Nat \ {0} /\ OwnKwu(t) \in Nat
      /\ t.fee * 1000 < (OwnKwu(t) + 1) * w
  BY OriginalIs
<1>6. /\ fee \in Nat
      /\ vsize <= fee
      /\ FeeAt(k, size) <= paid
  BY <1>1, <1>2, <1>3, <1>4, <1>5 DEF ChildFee, Larger
<1>7. paid \in Nat /\ k * size \in Nat /\ 4 * (k * size) <= 1000 * paid
  BY <1>4, <1>5, <1>6
<1>8. HAVE ShownRate(t) < rate
<1>9. OwnKwu(t) + 1 <= k
  BY <1>1, <1>5, <1>8 DEF ShownRate
<1>10. rate * size <= paid * 1000
  <2>1. rate * size <= (4 * k) * size
    BY <1>1, Scaled
  <2>2. (4 * k) * size = 4 * (k * size)
    OBVIOUS
  <2> QED
    BY <1>7, <2>1, <2>2
<1>11. paid * v > t.fee * size
  <2>1. (OwnKwu(t) + 1) * w <= k * w
    BY <1>5, <1>9, Scaled
  <2>2. w * k <= (4 * v) * k /\ w * k = k * w
    BY <1>2, <1>5, Scaled
  <2>3. t.fee * 1000 < (4 * v) * k
    BY <1>5, <2>1, <2>2
  <2>4. (t.fee * 1000) * size < ((4 * v) * k) * size
    BY <1>3, <1>5, <2>3, Scaled
  <2>5. (4 * (k * size)) * v <= (1000 * paid) * v
    BY <1>7, Scaled
  <2>6. /\ (4 * (k * size)) * v = ((4 * v) * k) * size
        /\ (1000 * paid) * v = 1000 * (paid * v)
        /\ (t.fee * 1000) * size = 1000 * (t.fee * size)
    BY <1>5, <1>7
  <2>7. paid * v \in Nat /\ t.fee * size \in Nat
    BY <1>5, <1>7
  <2>8. PICK x \in Nat : x = ((4 * v) * k) * size
    OBVIOUS
  <2>9. 1000 * (t.fee * size) < x
    BY <2>4, <2>6, <2>8
  <2>10. x <= 1000 * (paid * v)
    BY <2>5, <2>6, <2>8
  <2> QED
    BY <2>7, <2>8, <2>9, <2>10
<1> QED
  BY <1>2, <1>3, <1>6, <1>10, <1>11

-----------------------------------------------------------------------------
\* Every amount is one, and what the wallet put in the field, or named, is
\* enough for the original.
Amounts ==
    /\ original \in Originals
    /\ market \in Nat
    /\ entered \in Nat
    /\ quote \in [kind : {"nothing", "refused", "misled", "bump", "cancel", "child"},
                  rate : Nat, vsize : Nat, fee : Nat]
Advice == advised => ~TooLow(original, entered)

Inv == Amounts /\ Advice /\ OffersAreBuilt /\ CancelOutbids /\ ChildHelps

LEMMA InvInit == FeesInit => Inv
  BY DEF FeesInit, Inv, Amounts, Advice, OffersAreBuilt, CancelOutbids, ChildHelps, Nothing, Quote

\* A step that answers nothing keeps what is said of the last answer.
LEMMA QuoteStays ==
    ASSUME Inv, UNCHANGED <<original, quote>>
    PROVE  OffersAreBuilt' /\ CancelOutbids' /\ ChildHelps'
  BY DEF Inv, OffersAreBuilt, CancelOutbids, ChildHelps

LEMMA InvNext == Inv /\ [FeesNext]_feeVars => Inv'
<1> SUFFICES ASSUME Inv, [FeesNext]_feeVars PROVE Inv'
  OBVIOUS
<1> USE DEF Inv
<1>1. ASSUME NEW rate \in Asked, Estimated(rate) PROVE Inv'
  <2>1. rate \in Nat
    BY AskedAssumption
  <2>2. Amounts' /\ Advice'
    BY <1>1, <2>1 DEF Estimated, Amounts, Advice
  <2> QED
    BY <1>1, <2>2, QuoteStays DEF Estimated
<1>2. ASSUME NEW rate \in Asked, EnterRate(rate) PROVE Inv'
  <2>1. rate \in Nat
    BY AskedAssumption
  <2>2. Amounts' /\ Advice'
    BY <1>2, <2>1 DEF EnterRate, Amounts, Advice
  <2> QED
    BY <1>2, <2>2, QuoteStays DEF EnterRate
<1>3. ASSUME Prefill PROVE Inv'
  <2>1. Outbid(market, original) \in Nat /\ ~TooLow(original, Outbid(market, original))
    BY OutbidIs DEF Amounts
  <2>2. Amounts' /\ Advice'
    BY <1>3, <2>1 DEF Prefill, Amounts, Advice
  <2> QED
    BY <1>3, <2>2, QuoteStays DEF Prefill
<1>4. ASSUME EnterNamed PROVE Inv'
  <2>1. Named(original) \in Nat /\ ~TooLow(original, Named(original))
    BY NamedIs DEF Amounts
  <2>2. Amounts' /\ Advice'
    BY <1>4, <2>1 DEF EnterNamed, Amounts, Advice
  <2> QED
    BY <1>4, <2>2, QuoteStays DEF EnterNamed
<1>5. ASSUME PressBump PROVE Inv'
  <2>1. /\ quote'.kind \in {"refused", "bump"}
        /\ Amounts' /\ Advice'
    BY <1>5 DEF PressBump, Quotes, Quote, Amounts, Advice
  <2> QED
    BY <2>1 DEF OffersAreBuilt, CancelOutbids, ChildHelps
<1>6. ASSUME NEW vsize \in Sizes, PressCancel(vsize) PROVE Inv'
  <2> DEFINE rate == Outbid(market, original)
             fee == CancelFee(original, rate, vsize)
  <2>1. vsize \in Nat \ {0}
    BY SizesAssumption
  <2>2. rate \in Nat /\ ~TooLow(original, rate)
    BY OutbidIs DEF Amounts
  <2>3. /\ fee \in Nat
        /\ fee >= original.fee + vsize
        /\ fee * 1000 >= rate * vsize
        /\ fee * original.weight > original.fee * 4 * vsize
    BY <2>1, <2>2, CancelPays DEF Amounts
  <2>4. /\ quote' = Quote("cancel", rate, vsize, fee)
        /\ UNCHANGED <<original, market, entered, advised>>
    BY <1>6, <2>2 DEF PressCancel, Quotes
  <2> HIDE DEF rate, fee
  <2>5. Amounts' /\ Advice'
    BY <2>1, <2>2, <2>3, <2>4 DEF Quote, Amounts, Advice
  <2>6. OffersAreBuilt' /\ ChildHelps'
    BY <2>4 DEF Quote, OffersAreBuilt, ChildHelps
  <2>7. CancelOutbids'
    BY <2>3, <2>4 DEF Quote, CancelOutbids
  <2> QED
    BY <2>5, <2>6, <2>7
<1>7. ASSUME NEW vsize \in Sizes, SpeedUp(vsize) PROVE Inv'
  <2>1. vsize \in Nat \ {0}
    BY SizesAssumption
  <2>2. PICK rate \in {Outbid(market, original)}
                        \cup (IF entered > 0 /\ ~advised THEN {Typeable(entered)} ELSE {}) :
           /\ rate > ShownRate(original)
           /\ Quotes(Quote("child", rate, vsize, ChildFee(original, rate, vsize)))
    BY <1>7 DEF SpeedUp
  <2>3. Outbid(market, original) \in Nat /\ Typeable(entered) \in Nat
    BY OutbidIs, TypeableIs DEF Amounts
  <2>4. rate \in Nat /\ ShownRate(original) < rate
    <3>1. rate \in Nat
      BY <2>2, <2>3
    <3>2. ShownRate(original) \in Nat
      BY OriginalIs DEF Amounts, ShownRate
    <3> QED
      BY <2>2, <3>1, <3>2
  <2> DEFINE fee == ChildFee(original, rate, vsize)
             paid == original.fee + fee
             size == Vsize(original) + vsize
  <2>5. /\ fee \in Nat
        /\ paid * 1000 >= rate * size
        /\ paid * Vsize(original) > original.fee * size
        /\ fee >= vsize
    BY <2>1, <2>4, ChildPays DEF Amounts
  <2>6. /\ quote' = Quote("child", rate, vsize, fee)
        /\ UNCHANGED <<original, market, entered, advised>>
    BY <2>2 DEF Quotes
  <2> HIDE DEF fee
  <2>7. Amounts' /\ Advice'
    BY <2>1, <2>4, <2>5, <2>6 DEF Quote, Amounts, Advice
  <2>8. OffersAreBuilt' /\ CancelOutbids'
    BY <2>6 DEF Quote, OffersAreBuilt, CancelOutbids
  <2>9. ChildHelps'
    BY <2>5, <2>6 DEF Quote, ChildHelps
  <2> QED
    BY <2>7, <2>8, <2>9
<1>8. CASE UNCHANGED feeVars
  <2>1. Amounts' /\ Advice'
    BY <1>8 DEF feeVars, Amounts, Advice
  <2> QED
    BY <1>8, <2>1, QuoteStays DEF feeVars
<1> QED
  BY <1>1, <1>2, <1>3, <1>4, <1>5, <1>6, <1>7, <1>8 DEF FeesNext

LEMMA Invariance == FeesSpec => []Inv
  BY InvInit, InvNext, PTL DEF FeesSpec

-----------------------------------------------------------------------------
\* No rate the wallet puts in a field, asks for in a cancel or names in a
\* refusal is refused as too low (feebump.ts's outbid and errorMessage against
\* BDK's floor), for every original, estimate and typed rate.
THEOREM BuildsItsOffers == FeesSpec => []OffersAreBuilt
<1>1. Inv => OffersAreBuilt
  BY DEF Inv
<1> QED
  BY <1>1, Invariance, PTL

\* A cancel covers the original's fee and its own relay, at the rate asked and
\* above the original's (wallet.rs's build_cancel), for every size and fee.
THEOREM CancelsOutbid == FeesSpec => []CancelOutbids
<1>1. Inv => CancelOutbids
  BY DEF Inv
<1> QED
  BY <1>1, Invariance, PTL

\* A child brings the pair to the rate asked and above what the parent pays
\* alone (wallet.rs's build_cpfp), for every size and fee.
THEOREM ChildrenHelp == FeesSpec => []ChildHelps
<1>1. Inv => ChildHelps
  BY DEF Inv
<1> QED
  BY <1>1, Invariance, PTL
=============================================================================
