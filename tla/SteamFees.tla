----------------------------- MODULE SteamFees -----------------------------
(***************************************************************************)
(* Steam's market fees (shared/steam-fees.ts): what the buyer pays when    *)
(* the seller receives an amount, and the walk that inverts it.  Amounts   *)
(* are whole minor units and rates whole percents; the code computes the   *)
(* same floors in floating point.                                          *)
(***************************************************************************)
EXTENDS Integers

CONSTANTS
  Wallets,     \* fee parameters: [percent, publisher, base, minimum]
  HighestPrice \* bound: the prices that are tried

\* The highest fee, in minor units, and the highest rate that normalizeWalletFeeInfo lets through.
HighestFee == 1000000
HighestRate == 50

ASSUME FeeAssumption ==
  /\ HighestPrice \in Nat
  /\ \A w \in Wallets : /\ w.percent \in 0..HighestRate /\ w.publisher \in 0..HighestRate
                        /\ w.base \in 0..HighestFee /\ w.minimum \in 0..HighestFee

VARIABLE quote   \* the wallet and the price that are being split
feeVars == <<quote>>

NoWallet == [percent |-> 0, publisher |-> 0, base |-> 0, minimum |-> 0]
WalkSteps == 1000
AtLeast(n, least) == IF n < least THEN least ELSE n

\* buyerPaysForReceived
Split(amount, w) ==
  LET received == AtLeast(amount, 0)
      steam == AtLeast((received * w.percent) \div 100, w.minimum) + w.base
      publisher == IF w.publisher > 0 THEN AtLeast((received * w.publisher) \div 100, 1) ELSE 0
  IN [received |-> received, buyerPays |-> received + steam + publisher]

Estimate(price, w) ==
  AtLeast(((price - w.base) * 100) \div (100 + w.percent + w.publisher), 0)

\* A turn of the loop: the amount, whether one below the price was tried, the turns left.
Turns == [at : Int, undershot : BOOLEAN, left : 0..WalkSteps]

NoUndershootGuard(price, w) ==   \* mutant: an overshoot is not walked back
  LET From[t \in Turns] ==
        IF t.left = 0 \/ Split(t.at, w).buyerPays >= price THEN Split(t.at, w)
        ELSE From[[t EXCEPT !.at = @ + 1, !.left = @ - 1]]
  IN From

\* receivedForBuyerPays: from the estimate, up until the price is met or passed, one step back.
Walk(price, w) ==
  LET From[t \in Turns] ==
        LET split == Split(t.at, w) IN
        IF t.left = 0 \/ split.buyerPays = price THEN split
        ELSE IF split.buyerPays < price
        THEN From[[at |-> t.at + 1, undershot |-> t.undershot, left |-> t.left - 1]]
        ELSE IF t.undershot THEN Split(t.at - 1, w)
        ELSE From[[at |-> t.at - 1, undershot |-> TRUE, left |-> t.left - 1]]
  IN From

ReceivedForBuyerPays(price, w) ==
  Walk(price, w)[[at |-> Estimate(price, w), undershot |-> FALSE, left |-> WalkSteps]]

FeeInit == quote = [wallet |-> NoWallet, price |-> 0]

QuotePrice ==
  \/ quote.wallet = NoWallet /\ \E w \in Wallets : quote' = [wallet |-> w, price |-> 1]
  \/ /\ quote.wallet # NoWallet /\ quote.price < HighestPrice
     /\ quote' = [quote EXCEPT !.price = @ + 1]

FeeNext == QuotePrice
FeeSpec == FeeInit /\ [][FeeNext]_feeVars

(***************************************************************************)
(* Properties                                                              *)
(***************************************************************************)
\* The reference: the greatest amount whose buyer price does not pass the price.
Affordable(price, w) == {r \in 0..price : Split(r, w).buyerPays <= price}

\* The walk lists at the price asked for or, where no amount has that price, just below it: an
\* "instant" sale still meets the bid and a "quick" one still undercuts the ask, and a better
\* book never gives a lower amount.  For the fees Steam uses, a minimum of a unit or two.
SplitMeetsPrice ==
  quote.wallet # NoWallet /\ Affordable(quote.price, quote.wallet) # {} =>
    LET s == ReceivedForBuyerPays(quote.price, quote.wallet)
    IN /\ s.buyerPays <= quote.price
       /\ \A r \in Affordable(quote.price, quote.wallet) : r <= s.received
=============================================================================
