---------------------------- MODULE ScreeningProofs ----------------------------
(***************************************************************************)
(* What Screening guarantees for every number of members and concurrent    *)
(* requests, every table of rates and every precision.                     *)
(***************************************************************************)
EXTENDS Screening, Sums

-----------------------------------------------------------------------------
(* The arithmetic of quotes *)

LEMMA Quotients ==
  ASSUME NEW a \in Int, NEW b \in Nat \ {0}
  PROVE  /\ a \div b \in Int /\ b * (a \div b) <= a /\ a < b * ((a \div b) + 1)
         /\ a >= 0 => a \div b >= 0
  OBVIOUS

LEMMA Products == ASSUME NEW a \in Nat, NEW b \in Nat PROVE a * b \in Nat /\ a * b = b * a
  OBVIOUS

\* Factors keep an order, or turn it round.
LEMMA Scaled ==
  ASSUME NEW a \in Int, NEW b \in Int, NEW k \in Nat
  PROVE  /\ a <= b => k * a <= k * b
         /\ k # 0 /\ a < b => k * a < k * b
  OBVIOUS

LEMMA Turned ==
  ASSUME NEW a \in Int, NEW b \in Int, NEW k \in Int, k < 0, a <= b
  PROVE  k * b <= k * a
  OBVIOUS

\* The target amount of a quote against the exact one: at most half of the last
\* digit of the rate off, and less than a cent and that half less.
LEMMA TargetIsFair ==
  ASSUME NEW amount \in Int, NEW s \in Nat \ {0}, NEW t \in Nat
  PROVE  LET target == TargetAmount(amount, PairRate(s, t))
             half == IF amount > 0 THEN s ELSE -s
         IN  /\ target \in Int
             /\ 2 * s * Precision * target <= amount * (2 * t * Precision + half)
             /\ amount * (2 * t * Precision - half) < 2 * s * Precision * (target + 1)
<1> DEFINE P == Precision
           rate == PairRate(s, t)
           target == TargetAmount(amount, rate)
           half == IF amount > 0 THEN s ELSE -s
           n == 2 * t * P
<1>1. P \in Nat \ {0} /\ n \in Nat /\ 2 * s \in Nat \ {0} /\ n + s \in Nat /\ n - s \in Int
  BY PrecisionAssumption
<1>2. rate \in Int /\ (2 * s) * rate <= n + s /\ n + s < (2 * s) * (rate + 1)
  <2>1. rate = (n + s) \div (2 * s)
    BY DEF PairRate
  <2> HIDE DEF rate, n
  <2>2. n + s \in Int
    BY <1>1
  <2> QED
    BY <1>1, <2>1, <2>2, Quotients
<1>3. amount * rate \in Int /\ (2 * s) * rate \in Int
  BY <1>2
<1>4. target \in Int /\ P * target <= amount * rate /\ amount * rate < P * (target + 1)
  BY <1>1, <1>3, Quotients DEF TargetAmount
<1> HIDE DEF rate, target
<1>5. n - s <= (2 * s) * rate
  <2>1. (2 * s) * (rate + 1) = (2 * s) * rate + 2 * s
    BY <1>2
  <2> HIDE DEF n
  <2> QED
    BY <1>1, <1>2, <1>3, <2>1
<1>6. /\ amount * ((2 * s) * rate) <= amount * (n + half)
      /\ amount * (n - half) <= amount * ((2 * s) * rate)
  <2> HIDE DEF n
  <2>1. CASE amount > 0
    BY <1>1, <1>2, <1>3, <1>5, <2>1, Scaled
  <2>2. CASE amount < 0
    <3>1. half = -s /\ n + half = n - s /\ n - half = n + s
      BY <1>1, <2>2
    <3> HIDE DEF half
    <3> QED
      BY <1>1, <1>2, <1>3, <1>5, <2>2, <3>1, Turned
  <2>3. CASE amount = 0
    <3>1. n + half \in Int /\ n - half \in Int
      BY <1>1, <2>3
    <3> QED
      BY <1>3, <2>3, <3>1
  <2> QED
    BY <2>1, <2>2, <2>3
<1>7. (2 * s) * (amount * rate) = amount * ((2 * s) * rate)
  BY <1>2
<1>8. /\ (2 * s) * (P * target) <= (2 * s) * (amount * rate)
      /\ (2 * s) * (amount * rate) < (2 * s) * (P * (target + 1))
  BY <1>1, <1>3, <1>4, Scaled
<1>9. /\ (2 * s) * (P * target) = 2 * s * P * target
      /\ (2 * s) * (P * (target + 1)) = 2 * s * P * (target + 1)
  BY <1>1, <1>4
<1>10. amount * (n + half) \in Int /\ amount * (n - half) \in Int
  BY <1>1
<1>11. /\ 2 * s * P * target \in Int /\ 2 * s * P * (target + 1) \in Int
       /\ amount * ((2 * s) * rate) \in Int
  BY <1>1, <1>3, <1>4
<1>12. 2 * s * P * target <= amount * (n + half) /\ amount * (n - half) < 2 * s * P * (target + 1)
  <2> HIDE DEF n, half
  <2> QED
    BY <1>6, <1>7, <1>8, <1>9, <1>10, <1>11
<1> QED
  BY <1>4, <1>12 DEF rate, target

\* The amount of a currency in itself.
LEMMA TargetIsSame ==
  ASSUME NEW amount \in Int
  PROVE  TargetAmount(amount, Unit) = amount
BY PrecisionAssumption DEF TargetAmount, Unit

\* The fee of a dollar amount: one per cent without its fraction.
LEMMA FeeIsRounded ==
  ASSUME NEW usd \in Int
  PROVE  LET fee == QuoteFee(usd * FeeBasisPointsUSD)
         IN  /\ fee \in Int
             /\ 100 * (fee - 1) < usd /\ usd + 1 <= 100 * (fee + 1)
             /\ usd >= 0 => 100 * fee <= usd
<1>1. CASE usd >= 0
  BY <1>1 DEF QuoteFee, FeeBasisPointsUSD
<1>2. CASE usd < 0
  <2>1. PICK debt \in Nat : usd = -debt
    BY <1>2
  <2>2. QuoteFee(usd * FeeBasisPointsUSD) = -((debt * 100) \div 10000)
    BY <1>2, <2>1 DEF QuoteFee, FeeBasisPointsUSD
  <2> QED
    BY <1>2, <2>1, <2>2
<1> QED
  BY <1>1, <1>2

\* The fee against one per cent of what the amount is worth in dollars.
LEMMA FeeIsFair ==
  ASSUME NEW amount \in Int, NEW s \in Nat \ {0}
  PROVE  LET fee == QuoteFee(SourceAmount(amount, s) * FeeBasisPointsUSD)
         IN  /\ fee \in Int
             /\ 100 * s * (fee - 1) < amount * Precision
             /\ amount * Precision < 100 * s * (fee + 1)
             /\ amount > 0 => 100 * s * fee <= amount * Precision
<1> DEFINE usd == SourceAmount(amount, s)
           fee == QuoteFee(usd * FeeBasisPointsUSD)
<1>1. amount * Precision \in Int /\ (amount > 0 => amount * Precision >= 0)
  BY PrecisionAssumption
<1>2. /\ usd \in Int /\ s * usd <= amount * Precision /\ amount * Precision < s * (usd + 1)
      /\ amount > 0 => usd >= 0
  BY <1>1, Quotients DEF SourceAmount
<1> HIDE DEF usd
<1>3. /\ fee \in Int /\ 100 * (fee - 1) < usd /\ usd + 1 <= 100 * (fee + 1)
      /\ amount > 0 => 100 * fee <= usd
  BY <1>2, FeeIsRounded
<1> HIDE DEF fee
<1>4. /\ s * (100 * (fee - 1)) < s * usd /\ s * (usd + 1) <= s * (100 * (fee + 1))
      /\ amount > 0 => s * (100 * fee) <= s * usd
  BY <1>2, <1>3, Scaled
<1>5. /\ s * (100 * fee) = 100 * s * fee /\ s * (100 * (fee + 1)) = 100 * s * (fee + 1)
      /\ s * (100 * (fee - 1)) = 100 * s * (fee - 1)
  BY <1>3
<1> QED
  BY <1>1, <1>2, <1>3, <1>4, <1>5 DEF fee, usd


-----------------------------------------------------------------------------
(* Quotes *)

\* Where a request stands before, while and after its quote is made.
Quoting(r) ==
  /\ pc[r] # "new" =>
       intent[r] \in Intents /\ (\A c \in Priced : rates[c] \in offered[r][c])
  /\ pc[r] \in {"target rate", "quote"} => seen[r].source \in Offered(r, intent[r].source)
  /\ pc[r] = "quote" => seen[r].target \in Offered(r, intent[r].target)
  /\ pc[r] \in {"quoted", "placed"} /\ Fits(r) => FairTarget(r) /\ FairFee(r)

QuoteShape ==
  /\ rates \in [Priced -> UsdRates]
  /\ pc \in [Requests -> Labels]
  /\ intent \in [Requests -> Intents \cup {NoIntent}]
  /\ offered \in [Requests -> [Priced -> SUBSET UsdRates]]
  /\ seen \in [Requests -> [source: Nat, target: Nat]]
  /\ quote \in [Requests -> [target: Int, fee: Int]]

QuoteInv == QuoteShape /\ \A r \in Requests : Quoting(r)

\* A step of a request in which no quote is made.
NoQuote(r) ==
  /\ UNCHANGED <<rates, intent, offered, seen, quote>>
  /\ \E label \in Labels \ {"new", "target rate", "quote", "quoted", "placed"} :
       pc[r] # "new" /\ pc' = [pc EXCEPT ![r] = label]

\* Nothing a quote is made from has changed.
NoRequest == UNCHANGED <<rates, intent, offered, seen, quote, pc>>

\* What is said of the other requests holds as before.
LEMMA OtherQuotes ==
  ASSUME NEW q \in Requests, Quoting(q), pc'[q] = pc[q], intent'[q] = intent[q], 
         offered'[q] = offered[q], seen'[q] = seen[q], quote'[q] = quote[q], rates' = rates
  PROVE  Quoting(q)'
BY DEF Quoting, Offered, Fits, FairTarget, FairFee

LEMMA NoRequestKeepsQuotes == ASSUME QuoteInv, NoRequest PROVE QuoteInv'
<1>1. QuoteShape'
  BY DEF QuoteInv, QuoteShape, NoRequest
<1>2. ASSUME NEW q \in Requests PROVE Quoting(q)'
  BY OtherQuotes DEF QuoteInv, NoRequest
<1> QED
  BY <1>1, <1>2 DEF QuoteInv

LEMMA NoQuoteKeepsQuotes == ASSUME NEW r \in Requests, QuoteInv, NoQuote(r) PROVE QuoteInv'
<1>1. PICK label \in Labels \ {"new", "target rate", "quote", "quoted", "placed"} :
        pc[r] # "new" /\ pc' = [pc EXCEPT ![r] = label]
  BY DEF NoQuote
<1>2. QuoteShape'
  BY <1>1 DEF QuoteInv, QuoteShape, NoQuote
<1>3. ASSUME NEW q \in Requests PROVE Quoting(q)'
  BY ZenonT(40), <1>1, <1>3 DEF QuoteInv, QuoteShape, NoQuote, Quoting, Offered, Fits, FairTarget, FairFee
<1> QED
  BY <1>2, <1>3 DEF QuoteInv

LEMMA GetSenderKeepsQuotes ==
  ASSUME NEW r \in Requests, NEW i \in Intents, QuoteInv, GetSender(r, i) PROVE QuoteInv'
<1>1. PICK label \in {"profile", "refused"} : pc' = [pc EXCEPT ![r] = label]
  BY DEF GetSender, Goto
<1>2. /\ UNCHANGED <<rates, seen, quote>> /\ intent' = [intent EXCEPT ![r] = i]
      /\ offered' = [offered EXCEPT ![r] = [c \in Priced |-> {rates[c]}]]
  BY DEF GetSender
<1>3. QuoteShape'
  <2>1. [c \in Priced |-> {rates[c]}] \in [Priced -> SUBSET UsdRates]
    BY DEF QuoteInv, QuoteShape
  <2>2. offered' \in [Requests -> [Priced -> SUBSET UsdRates]]
    BY <1>2, <2>1 DEF QuoteInv, QuoteShape
  <2>3. {"profile", "refused"} \subseteq Labels
    BY DEF Labels
  <2> QED
    BY <1>1, <1>2, <2>2, <2>3 DEF QuoteInv, QuoteShape
<1>4. ASSUME NEW q \in Requests PROVE Quoting(q)'
  <2>1. CASE q = r
    BY <1>1, <1>2, <2>1 DEF QuoteInv, QuoteShape, Quoting
  <2>2. CASE q # r
    BY <1>1, <1>2, <2>2, OtherQuotes DEF QuoteInv, QuoteShape
  <2> QED
    BY <2>1, <2>2
<1> QED
  BY <1>3, <1>4 DEF QuoteInv

LEMMA FetchLiveRatesKeepsQuotes ==
  ASSUME NEW fetched \in [Priced -> UsdRates], QuoteInv, FetchLiveRates(fetched) PROVE QuoteInv'
<1>1. /\ UNCHANGED <<pc, intent, seen, quote>> /\ rates' = fetched
      /\ offered' = [q \in Requests |-> [c \in Priced |-> offered[q][c] \cup {fetched[c]}]]
  BY DEF FetchLiveRates, locals
<1>2. QuoteShape'
  BY <1>1 DEF QuoteInv, QuoteShape
<1>3. ASSUME NEW q \in Requests PROVE Quoting(q)'
  <2>1. Quoting(q)
    BY DEF QuoteInv
  <2>2. ASSUME pc[q] # "new", NEW c \in Currencies
        PROVE  Offered(q, c) \subseteq Offered(q, c)'
    BY <1>1, <2>2 DEF Offered, Currencies
  <2>3. ASSUME pc[q] # "new" PROVE intent[q] \in Intents
    BY <2>1, <2>3 DEF Quoting
  <2>4. ASSUME pc[q] # "new" PROVE intent[q].source \in Currencies /\ intent[q].target \in Currencies
    BY <2>3, <2>4, IntentAssumption
  <2>5. pc[q] \in {"target rate", "quote"} => seen'[q].source \in Offered(q, intent[q].source)'
    BY <1>1, <2>1, <2>2, <2>4 DEF Quoting
  <2>6. pc[q] = "quote" => seen'[q].target \in Offered(q, intent[q].target)'
    BY <1>1, <2>1, <2>2, <2>4 DEF Quoting
  <2>a. ASSUME pc[q] # "new", Fits(q)' PROVE Fits(q)
    BY <1>1, <2>2, <2>4, <2>a DEF Fits
  <2>7. pc[q] \in {"quoted", "placed"} /\ Fits(q)' => FairTarget(q)'
    BY <1>1, <2>1, <2>2, <2>4, <2>a DEF Quoting, FairTarget
  <2>8. pc[q] \in {"quoted", "placed"} /\ Fits(q)' => FairFee(q)'
    BY <1>1, <2>1, <2>2, <2>4, <2>a DEF Quoting, FairFee
  <2>9. pc[q] # "new" => intent'[q] \in Intents /\ \A c \in Priced : rates'[c] \in offered'[q][c]
    BY <1>1, <2>3
  <2> QED
    BY <1>1, <2>5, <2>6, <2>7, <2>8, <2>9 DEF Quoting
<1> QED
  BY <1>2, <1>3 DEF QuoteInv


\* The rate of a currency now is one of those offered.
LEMMA RateIsOffered ==
  ASSUME NEW r \in Requests, NEW c \in Currencies, QuoteInv, pc[r] # "new"
  PROVE  USDRate(c) \in Offered(r, c) /\ USDRate(c) \in Nat \ {0}
BY RateAssumption, PrecisionAssumption
DEF QuoteInv, QuoteShape, Quoting, USDRate, Offered, Currencies, Unit

\* What can be asked for.
LEMMA IntentFields ==
  ASSUME NEW i \in Intents
  PROVE  /\ i.amount \in Int64 /\ i.amount \in Int \ {0}
         /\ i.source \in Currencies /\ i.target \in Currencies
<1>1. i.amount \in Int64 /\ i.amount # 0 /\ i.source \in Currencies /\ i.target \in Currencies
  BY IntentAssumption
<1> QED
  BY <1>1, WidthAssumption DEF Int64, MinInt

LEMMA IntentShape ==
  ASSUME NEW r \in Requests, QuoteInv, pc[r] # "new"
  PROVE  /\ intent[r] \in Intents /\ intent[r].amount \in Int64 /\ intent[r].amount \in Int \ {0}
         /\ intent[r].source \in Currencies /\ intent[r].target \in Currencies
BY IntentFields DEF QuoteInv, Quoting

LEMMA OfferedIsPositive ==
  ASSUME NEW r \in Requests, NEW c \in Currencies, QuoteInv, NEW s \in Offered(r, c)
  PROVE  s \in Nat \ {0}
BY RateAssumption, PrecisionAssumption DEF QuoteInv, QuoteShape, Offered, Currencies

LEMMA ReadSourceRateKeepsQuotes ==
  ASSUME NEW r \in Requests, QuoteInv, ReadSourceRate(r) PROVE QuoteInv'
<1> DEFINE row == [seen[r] EXCEPT !.source = USDRate(intent[r].source)]
<1>1. /\ pc[r] = "source rate" /\ pc' = [pc EXCEPT ![r] = "target rate"]
      /\ seen' = [seen EXCEPT ![r] = row]
      /\ UNCHANGED <<rates, intent, offered, quote>>
  BY DEF ReadSourceRate, Goto, ghosts
<1>2. USDRate(intent[r].source) \in Offered(r, intent[r].source) \cap Nat
  BY <1>1, RateIsOffered, IntentShape
<1>3. row \in [source: Nat, target: Nat] /\ row.source = USDRate(intent[r].source)
  BY <1>2 DEF QuoteInv, QuoteShape
<1> HIDE DEF row
<1>4. QuoteShape'
  BY <1>1, <1>3 DEF QuoteInv, QuoteShape, Labels
<1>5. ASSUME NEW q \in Requests PROVE Quoting(q)'
  <2>1. CASE q = r
    BY <1>1, <1>2, <1>3, <2>1 DEF QuoteInv, QuoteShape, Quoting, Offered
  <2>2. CASE q # r
    BY <1>1, <2>2, OtherQuotes DEF QuoteInv, QuoteShape
  <2> QED
    BY <2>1, <2>2
<1> QED
  BY <1>4, <1>5 DEF QuoteInv

LEMMA ReadTargetRateKeepsQuotes ==
  ASSUME NEW r \in Requests, QuoteInv, ReadTargetRate(r) PROVE QuoteInv'
<1> DEFINE row == [seen[r] EXCEPT !.target = USDRate(intent[r].target)]
<1>1. /\ pc[r] = "target rate" /\ pc' = [pc EXCEPT ![r] = "quote"]
      /\ seen' = [seen EXCEPT ![r] = row]
      /\ UNCHANGED <<rates, intent, offered, quote>>
  BY DEF ReadTargetRate, Goto, ghosts
<1>2. USDRate(intent[r].target) \in Offered(r, intent[r].target) \cap Nat
  BY <1>1, RateIsOffered, IntentShape
<1>3. /\ row \in [source: Nat, target: Nat]
      /\ row.target = USDRate(intent[r].target) /\ row.source = seen[r].source
  BY <1>2 DEF QuoteInv, QuoteShape
<1> HIDE DEF row
<1>4. QuoteShape'
  BY <1>1, <1>3 DEF QuoteInv, QuoteShape, Labels
<1>5. ASSUME NEW q \in Requests PROVE Quoting(q)'
  <2>1. CASE q = r
    BY <1>1, <1>2, <1>3, <2>1 DEF QuoteInv, QuoteShape, Quoting, Offered
  <2>2. CASE q # r
    BY <1>1, <2>2, OtherQuotes DEF QuoteInv, QuoteShape
  <2> QED
    BY <2>1, <2>2
<1> QED
  BY <1>4, <1>5 DEF QuoteInv

\* A number that fits is kept as it is, and others leave one that does.
LEMMA WrappedSame == ASSUME NEW n \in Int64 PROVE Wrapped(n) = n
<1> DEFINE m == 2 * MaxInt + 2
           k == n - MinInt
<1>1. m \in Nat \ {0} /\ k \in 0..m - 1
  BY WidthAssumption DEF Int64, MinInt
<1>2. k % m = k
  <2> HIDE DEF m, k
  <2> QED
    BY <1>1
<1> QED
  BY <1>2, WidthAssumption DEF Wrapped, Int64, MinInt

LEMMA QuotesAreNumbers ==
  ASSUME NEW amount \in Int, NEW s \in Nat \ {0}, NEW t \in Nat \ {0}
  PROVE  /\ Wrapped(TargetAmount(amount, Unit)) \in Int
         /\ Wrapped(TargetAmount(amount, PairRate(s, t))) \in Int
         /\ Wrapped(amount * 100) \in Int /\ Wrapped(Wrapped(SourceAmount(amount, s)) * 100) \in Int
<1>1. ASSUME NEW n \in Int PROVE Wrapped(n) \in Int
  <2> DEFINE m == 2 * MaxInt + 2
  <2>1. m \in Nat \ {0} /\ MinInt \in Int /\ n - MinInt \in Int
    BY WidthAssumption DEF MinInt
  <2>2. (n - MinInt) % m \in Int
    <3> HIDE DEF m
    <3> QED
      BY <2>1
  <2> QED
    BY <2>1, <2>2 DEF Wrapped
<1>2. PairRate(s, t) \in Int
  BY PrecisionAssumption DEF PairRate
<1>3. TargetAmount(amount, Unit) \in Int /\ TargetAmount(amount, PairRate(s, t)) \in Int
  <2> HIDE DEF PairRate
  <2> QED
    BY <1>2, PrecisionAssumption DEF TargetAmount, Unit
<1>4. SourceAmount(amount, s) \in Int
  BY PrecisionAssumption DEF SourceAmount
<1> QED
  BY <1>1, <1>3, <1>4

\* The dollar's conversion keeps the amount, as the division by its rate would.
LEMMA DollarsAreSame ==
  ASSUME NEW amount \in Int PROVE SourceAmount(amount, Precision) = amount
BY PrecisionAssumption DEF SourceAmount

LEMMA GetQuoteKeepsQuotes ==
  ASSUME NEW r \in Requests, QuoteInv, GetQuote(r) PROVE QuoteInv'
<1> DEFINE i == intent[r]
           s == seen[r].source
           t == seen[r].target
           now == USDRate(i.source)
           wide == TargetAmount(i.amount, Rate(i, s, t))
           points == ConvertToUSD(i.source, i.amount) * FeeBasisPointsUSD
           row == [target |-> Wrapped(wide), fee |-> QuoteFee(Wrapped(points))]
<1>1. /\ pc[r] = "quote" /\ pc' = [pc EXCEPT ![r] = "quoted"]
      /\ quote' = [quote EXCEPT ![r] = row]
      /\ UNCHANGED <<rates, intent, offered, seen>>
  BY DEF GetQuote, Goto, ghosts
<1>2. /\ i.amount \in Int64 /\ i.amount \in Int \ {0}
      /\ i.source \in Currencies /\ i.target \in Currencies
  BY <1>1, IntentShape
<1>3. s \in Offered(r, i.source) /\ t \in Offered(r, i.target)
  BY <1>1 DEF QuoteInv, Quoting
<1>4. s \in Nat \ {0} /\ t \in Nat \ {0}
  BY <1>2, <1>3, OfferedIsPositive
<1>5. now \in Offered(r, i.source) /\ now \in Nat \ {0}
  BY <1>1, <1>2, RateIsOffered
<1>6. SourceAmount(i.amount, now) \in Int64 =>
        ConvertToUSD(i.source, i.amount) = SourceAmount(i.amount, now)
  BY <1>2, DollarsAreSame, WrappedSame DEF ConvertToUSD, USDRate, Unit
<1>7. ASSUME Fits(r)
      PROVE  /\ 100 * now * (row.fee - 1) < i.amount * Precision
             /\ i.amount * Precision < 100 * now * (row.fee + 1)
             /\ i.amount > 0 => 100 * now * row.fee <= i.amount * Precision
  <2>1. /\ SourceAmount(i.amount, now) \in Int64
        /\ SourceAmount(i.amount, now) * FeeBasisPointsUSD \in Int64
    BY <1>5, <1>7 DEF Fits
  <2>2. row.fee = QuoteFee(SourceAmount(i.amount, now) * FeeBasisPointsUSD)
    BY <1>6, <2>1, WrappedSame
  <2> HIDE DEF row
  <2> QED
    BY <1>2, <1>5, <2>2, FeeIsFair
<1>8. ASSUME Fits(r)
      PROVE
         IF i.source = i.target THEN row.target = i.amount
         ELSE LET half == IF i.amount > 0 THEN s ELSE -s
              IN  /\ 2 * s * Precision * row.target <= i.amount * (2 * t * Precision + half)
                  /\ i.amount * (2 * t * Precision - half) < 2 * s * Precision * (row.target + 1)
  <2>1. CASE i.source = i.target
    BY <1>2, <2>1, TargetIsSame, WrappedSame DEF Rate
  <2>2. CASE i.source # i.target
    <3>1. wide = TargetAmount(i.amount, PairRate(s, t)) /\ wide \in Int64
      BY <1>3, <1>8, <2>2 DEF Fits, Rate
    <3>2. row.target = TargetAmount(i.amount, PairRate(s, t))
      BY <3>1, WrappedSame
    <3> HIDE DEF row
    <3> QED
      BY <1>2, <1>4, <2>2, <3>2, TargetIsFair
  <2> QED
    BY <2>1, <2>2
<1>9. row \in [target: Int, fee: Int]
  <2>1. Wrapped(wide) \in Int
    BY <1>2, <1>4, QuotesAreNumbers DEF Rate
  <2>2. Wrapped(points) \in Int
    BY <1>2, <1>5, QuotesAreNumbers DEF ConvertToUSD, USDRate, FeeBasisPointsUSD
  <2>3. QuoteFee(Wrapped(points)) \in Int
    BY <2>2 DEF QuoteFee
  <2> QED
    BY <2>1, <2>3
<1> HIDE DEF row
<1>10. QuoteShape'
  BY <1>1, <1>9 DEF QuoteInv, QuoteShape, Labels
<1>11. /\ quote'[r] = row /\ intent'[r] = i /\ pc'[r] = "quoted"
       /\ \A c : Offered(r, c)' = Offered(r, c)
  BY <1>1 DEF QuoteInv, QuoteShape, Offered
<1>a. ASSUME Fits(r)' PROVE Fits(r)
  BY <1>a, <1>11 DEF Fits
<1>12. ASSUME Fits(r)' PROVE FairTarget(r)'
  BY <1>3, <1>8, <1>11, <1>12, <1>a DEF FairTarget
<1>13. ASSUME Fits(r)' PROVE FairFee(r)'
  BY <1>5, <1>7, <1>11, <1>13, <1>a DEF FairFee
<1>14. ASSUME NEW q \in Requests PROVE Quoting(q)'
  <2>1. CASE q = r
    BY <1>1, <1>11, <1>12, <1>13, <2>1 DEF QuoteInv, QuoteShape, Quoting
  <2>2. CASE q # r
    BY <1>1, <2>2, OtherQuotes DEF QuoteInv, QuoteShape
  <2> QED
    BY <2>1, <2>2
<1> QED
  BY <1>10, <1>14 DEF QuoteInv

LEMMA PlaceOrderKeepsQuotes ==
  ASSUME NEW r \in Requests, QuoteInv, PlaceOrder(r) PROVE QuoteInv'
<1>1. PICK label \in {"placed", "refused"} : pc' = [pc EXCEPT ![r] = label]
  BY DEF PlaceOrder, Goto
<1>2. pc[r] = "quoted" /\ UNCHANGED <<rates, intent, offered, seen, quote>>
  BY DEF PlaceOrder, locals, ghosts
<1>3. QuoteShape'
  BY <1>1, <1>2 DEF QuoteInv, QuoteShape, Labels
<1>4. ASSUME NEW q \in Requests PROVE Quoting(q)'
  <2>1. CASE q = r
    <3>1. (Fits(r) => FairTarget(r) /\ FairFee(r)) /\ pc'[r] \in {"placed", "refused"}
      BY <1>1, <1>2 DEF QuoteInv, QuoteShape, Quoting
    <3>2. Fits(r)' => FairTarget(r)' /\ FairFee(r)'
      BY <1>2, <3>1 DEF Fits, FairTarget, FairFee, Offered
    <3> QED
      BY <1>2, <2>1, <3>1, <3>2 DEF QuoteInv, Quoting
  <2>2. CASE q # r
    BY <1>1, <1>2, <2>2, OtherQuotes DEF QuoteInv, QuoteShape
  <2> QED
    BY <2>1, <2>2
<1> QED
  BY <1>3, <1>4 DEF QuoteInv


LEMMA ElsewhereNoQuote ==
  ASSUME NEW r \in Requests, QuoteInv,
         RequestStep(r), ~ ReadSourceRate(r), ~ ReadTargetRate(r), ~ GetQuote(r), ~ PlaceOrder(r)
  PROVE  NoQuote(r)
<1> DEFINE Elsewhere == Labels \ {"new", "target rate", "quote", "quoted", "placed"}
<1>1. CASE GetProfile(r)
  <2>1. \E label \in {"receiver", "refused"} : pc' = [pc EXCEPT ![r] = label]
    BY <1>1 DEF GetProfile, Goto
  <2> QED
    BY <1>1, <2>1 DEF GetProfile, NoQuote, locals, ghosts, Labels
<1>2. CASE GetReceiver(r)
  BY <1>2 DEF GetReceiver, NoQuote, ghosts, Goto, Labels, Assessing, StoreLabels
<1>3. CASE StoreContext(r)
  <2>1. ASSUME NEW label, NEW field, NEW value, NEW next \in Elsewhere,
               label # "new", Store(r, label, field, value, next)
        PROVE  NoQuote(r)
    BY <2>1 DEF Store, NoQuote, Goto, locals
  <2>2. {"receiver=", "kyc=", "amount=", "from=", "to=", "receiver?"} \subseteq Elsewhere
    BY DEF Labels, Assessing, StoreLabels
  <2> QED
    BY <1>3, <2>1, <2>2 DEF StoreContext
<1>4. CASE ReceiverStored(r)
  <2>1. \E label \in {"fetch", "KYC"} : pc' = [pc EXCEPT ![r] = label]
    BY <1>4 DEF ReceiverStored, Goto
  <2> QED
    BY <1>4, <2>1 DEF ReceiverStored, NoQuote, locals, ghosts, Labels, Assessing, Checks
<1>5. CASE FetchReceiver(r)
  BY <1>5 DEF FetchReceiver, NoQuote, Goto, Labels, Assessing, Checks
<1>6. ASSUME NEW rule, NEW triggered, NEW points, NEW next \in Elsewhere, pc[r] # "new",
             Judge(r, rule, triggered, points, next)
      PROVE  NoQuote(r)
  <2>1. \E label \in {next, "rejected"} : pc' = [pc EXCEPT ![r] = label]
    BY <1>6 DEF Judge, Goto
  <2>2. UNCHANGED <<rates, intent, offered, seen, quote>>
    BY <1>6 DEF Judge
  <2>3. "rejected" \in Elsewhere
    BY DEF Labels
  <2> QED
    BY <1>6, <2>1, <2>2, <2>3 DEF NoQuote
<1>7. Checks \cup {"decide"} \subseteq Elsewhere
  BY DEF Labels, Assessing, Checks
<1>8. ASSUME NEW label, NEW rule, NEW triggered, NEW points, NEW next \in Checks \cup {"decide"},
             label # "new", Check(r, label, rule, triggered, points, next)
      PROVE  NoQuote(r)
  BY <1>6, <1>7, <1>8 DEF Check
<1>9. ASSUME NEW label, label # "new", NEW next \in Checks, ReadLevel(r, label, next)
      PROVE  NoQuote(r)
  BY <1>7, <1>9 DEF ReadLevel, Goto, NoQuote, ghosts
<1>10. CASE CheckKYCCompleted(r) \/ CheckSenderFrozen(r)
  BY <1>8, <1>10 DEF CheckKYCCompleted, CheckSenderFrozen, Checks
<1>11. CASE CheckReceiverFrozen(r)
  BY <1>8, <1>11 DEF CheckReceiverFrozen, Checks
<1>12. CASE ReadReceiverStatus(r)
  <2>1. CASE Check(r, "receiver.status", "USER_FROZEN", IsFrozen(context.receiver), 100, "level")
    BY <1>8, <2>1 DEF Checks
  <2>2. CASE Goto(r, "broken") /\ pc[r] = "receiver.status"
               /\ UNCHANGED <<tables, rates, context, intent, locals, ghosts, events>>
    BY <2>2 DEF Goto, NoQuote, locals, ghosts, Labels
  <2> QED
    BY <1>12, <2>1, <2>2 DEF ReadReceiverStatus
<1>13. CASE LookupReceiver(r)
  <2>1. "level" \in Elsewhere
    BY <1>7 DEF Checks
  <2> QED
    BY <1>6, <1>13, <2>1 DEF LookupReceiver
<1>14. CASE CheckAmountLimit(r)
  BY <1>8, <1>9, <1>14 DEF CheckAmountLimit, Checks
<1>15. CASE CheckDailyLimit(r)
  <2>1. CASE GetDailyTotal(r)
    <3>1. \E label \in {"daily level", "from"} : pc' = [pc EXCEPT ![r] = label]
      BY <2>1 DEF GetDailyTotal, Goto
    <3>2. pc[r] # "new" /\ UNCHANGED <<rates, intent, offered, seen, quote>>
      BY <2>1 DEF GetDailyTotal
    <3>3. {"daily level", "from"} \subseteq Elsewhere
      BY <1>7 DEF Checks
    <3> QED
      BY <3>1, <3>2, <3>3 DEF NoQuote
  <2>2. CASE ReadLevel(r, "daily level", "daily amount")
    BY <1>9, <2>2 DEF Checks
  <2>3. CASE Check(r, "daily amount", "DAILY_LIMIT_EXCEEDED",
                   DailyExceeded(total[r], context.amount, level[r]), 30, "from")
    BY <1>8, <2>3 DEF Checks
  <2> QED
    BY <1>15, <2>1, <2>2, <2>3 DEF CheckDailyLimit
<1>16. CASE CheckRestrictedCountry(r)
  BY <1>8, <1>16 DEF CheckRestrictedCountry, Checks
<1>17. CASE CheckHighFrequency(r)
  <2>1. "large amount" \in Elsewhere
    BY <1>7 DEF Checks
  <2> QED
    BY <1>6, <1>17, <2>1 DEF CheckHighFrequency
<1>18. CASE CheckNewUserLargeAmount(r) \/ CheckSanctionedCountry(r)
  BY <1>8, <1>18 DEF CheckNewUserLargeAmount, CheckSanctionedCountry, Checks
<1>19. CASE Decide(r)
  <2>1. \E label \in {"rejected", "source rate"} : pc' = [pc EXCEPT ![r] = label]
    BY <1>19 DEF Decide, Goto
  <2>2. pc[r] # "new" /\ UNCHANGED <<rates, intent, offered, seen, quote>>
    BY <1>19 DEF Decide, ghosts
  <2> QED
    BY <2>1, <2>2 DEF NoQuote, Labels
<1> QED
  BY <1>1, <1>2, <1>3, <1>4, <1>5, <1>10, <1>11, <1>12, <1>13, <1>14, <1>15, <1>16, <1>17, <1>18,
     <1>19
  DEF RequestStep

LEMMA QuoteInvStarts == Init => QuoteInv
<1> SUFFICES ASSUME Init PROVE QuoteInv
  OBVIOUS
<1>1. QuoteShape
  BY RateAssumption DEF Init, QuoteShape, Labels
<1>2. ASSUME NEW r \in Requests PROVE Quoting(r)
  BY DEF Init, Quoting
<1> QED
  BY <1>1, <1>2 DEF QuoteInv

LEMMA QuoteInvHolds == Spec => []QuoteInv
<1>1. ASSUME QuoteInv, [Next]_vars PROVE QuoteInv'
  <2>1. ASSUME NEW r \in Requests, NEW i \in Intents, GetSender(r, i) PROVE QuoteInv'
    BY <1>1, <2>1, GetSenderKeepsQuotes
  <2>2. ASSUME NEW r \in Requests, RequestStep(r) PROVE QuoteInv'
    <3>1. CASE ReadSourceRate(r)
      BY <1>1, <3>1, ReadSourceRateKeepsQuotes
    <3>2. CASE ReadTargetRate(r)
      BY <1>1, <3>2, ReadTargetRateKeepsQuotes
    <3>3. CASE GetQuote(r)
      BY <1>1, <3>3, GetQuoteKeepsQuotes
    <3>4. CASE PlaceOrder(r)
      BY <1>1, <3>4, PlaceOrderKeepsQuotes
    <3>5. CASE ~ ReadSourceRate(r) /\ ~ ReadTargetRate(r) /\ ~ GetQuote(r) /\ ~ PlaceOrder(r)
      BY <1>1, <2>2, <3>5, ElsewhereNoQuote, NoQuoteKeepsQuotes
    <3> QED
      BY <3>1, <3>2, <3>3, <3>4, <3>5
  <2>3. ASSUME NEW r \in Requests, FailOrder(r) PROVE QuoteInv'
    <3>1. NoRequest
      BY <2>3 DEF FailOrder, NoRequest, locals, ghosts
    <3> QED
      BY <1>1, <3>1, NoRequestKeepsQuotes
  <2>4. ASSUME NEW u \in Members, NEW row \in UserRows, UpdateUser(u, row) PROVE QuoteInv'
    <3>1. NoRequest
      BY <2>4 DEF UpdateUser, NoRequest, locals, ghosts
    <3> QED
      BY <1>1, <3>1, NoRequestKeepsQuotes
  <2>5. ASSUME NEW u \in Members, NEW s \in KYCStatuses, UpdateProfile(u, s) PROVE QuoteInv'
    <3>1. NoRequest
      BY <2>5 DEF UpdateProfile, NoRequest, locals, ghosts
    <3> QED
      BY <1>1, <3>1, NoRequestKeepsQuotes
  <2>6. ASSUME NEW fetched \in [Priced -> UsdRates], FetchLiveRates(fetched) PROVE QuoteInv'
    BY <1>1, <2>6, FetchLiveRatesKeepsQuotes
  <2>7. CASE UNCHANGED vars
    <3>1. NoRequest
      BY <2>7 DEF vars, NoRequest, locals, ghosts
    <3> QED
      BY <1>1, <3>1, NoRequestKeepsQuotes
  <2> QED
    BY <1>1, <2>1, <2>2, <2>3, <2>4, <2>5, <2>6, <2>7 DEF Next
<1> QED
  BY <1>1, QuoteInvStarts, PTL DEF Spec

\* However the rates change while a quote is made, it is computed from rates
\* that were offered since the request came, for every precision of the rates:
\* GetQuote takes the lock for one rate at a time.
THEOREM QuotesAreRight == Spec => []QuotesAreFair
<1>1. QuoteInv => QuotesAreFair
  BY DEF QuoteInv, Quoting, QuotesAreFair
<1> QED
  BY <1>1, QuoteInvHolds, PTL


-----------------------------------------------------------------------------
(* Assessments nobody disturbs *)

HasSender == Assessing \ {"sender="}
HasReceiver == HasSender \ {"receiver="}
HasProfile == HasReceiver \ {"kyc="}
HasAmount == HasProfile \ {"amount="}
HasFrom == HasAmount \ {"from="}
HasTo == HasFrom \ {"to="}

\* The fields of the service hold what the request has stored so far.
OwnContext(r) ==
  /\ pc[r] \in HasSender => context.sender = sender[r]
  /\ pc[r] \in HasReceiver => context.receiver = receiver[r]
  /\ pc[r] \in HasProfile => IsApproved(context.kyc)
  /\ pc[r] \in HasAmount => context.amount = intent[r].amount
  /\ pc[r] \in HasFrom => context.from = intent[r].from
  /\ pc[r] \in HasTo => context.to = intent[r].to

Last == {"sanctioned from", "sanctioned to", "decide"}
CountriesPassed == {"frequency", "large amount"} \cup Last
Unasked == {"new", "profile", "receiver", "receiver?", "fetch", "KYC", "sender frozen",
            "receiver frozen", "receiver.status", "receiver id", "level", "amount",
            "daily total"} \cup StoreLabels
Daily == {"daily level", "daily amount"}
ReceiverPassed == {"level", "amount", "daily total", "from", "to"} \cup Daily \cup CountriesPassed
Undecided == Unasked \cup ReceiverPassed

LimitPoints(r) == Points(intent[r].amount > SingleTxLimit(sender[r].level), 40)
DailyPoints(r) ==
  Points(books[r].asked /\ DailyExceeded(books[r].total, intent[r].amount, sender[r].level), 30)
FrequencyPoints(r) == Points(books[r].count >= Frequent, 50)

\* The sum of the points so far.
OwnPoints(r) ==
  /\ pc[r] \in Unasked \ {"daily total"} => score[r] = 0
  /\ pc[r] \in {"daily total"} \cup Daily => score[r] = LimitPoints(r)
  /\ pc[r] \in {"from", "to", "frequency"} => score[r] = LimitPoints(r) + DailyPoints(r)
  /\ pc[r] = "large amount" =>
       score[r] = LimitPoints(r) + DailyPoints(r) + FrequencyPoints(r)
  /\ pc[r] \in Last => score[r] = OwnScore(r)

\* What the checks have read of the sender and of its orders.
OwnReads(r) ==
  /\ pc[r] \in {"amount", "daily amount"} => level[r] = sender[r].level
  /\ pc[r] \in Unasked => books[r].asked = FALSE
  /\ pc[r] \in Daily => books[r].asked = TRUE /\ total[r] = books[r].total
  /\ pc[r] \in Unasked \cup Daily \cup {"from", "to", "frequency"} => books[r].count = 0

\* What the checks that block have found.
OwnChecks(r) ==
  /\ pc[r] = "receiver.status" => receiver[r] # Nil
  /\ pc[r] = "receiver id" => receiver[r] = Nil
  /\ pc[r] \in ReceiverPassed => receiver[r] # Nil /\ ~ IsFrozen(receiver[r])
  /\ pc[r] \in {"to"} \cup CountriesPassed => intent[r].from \notin RestrictedCountries
  /\ pc[r] \in CountriesPassed => intent[r].to \notin RestrictedCountries

OwnDecision(r) ==
  /\ pc[r] \in Undecided => decision[r] = "none"
  /\ decision[r] # "none" => decision[r] = OwnVerdict(r)
  /\ pc[r] # "broken"

\* The sender of a request may pay, by the row that was read.
Begun(r) ==
  /\ pc[r] # "new" => intent[r] \in Intents
  /\ pc[r] \in Undecided \ {"new"} =>
       CanTransact(sender[r]) /\ sender[r].id = intent[r].sender

Lone(r) ==
  r \notin disturbed => OwnContext(r) /\ OwnPoints(r) /\ OwnReads(r) /\ OwnChecks(r) /\ OwnDecision(r)

LoneShape ==
  /\ DOMAIN users = Members /\ \A u \in Members : users[u] # Nil => users[u].id = u
  /\ DOMAIN context = {"sender", "receiver", "kyc", "amount", "from", "to"}
  /\ DOMAIN pc = Requests /\ DOMAIN intent = Requests
  /\ DOMAIN sender = Requests /\ DOMAIN receiver = Requests
  /\ DOMAIN score = Requests /\ DOMAIN level = Requests /\ DOMAIN total = Requests
  /\ DOMAIN decision = Requests /\ DOMAIN books = Requests
  /\ \A r \in Requests : DOMAIN books[r] = {"asked", "total", "count"}

LoneInv == LoneShape /\ \A r \in Requests : Begun(r) /\ Lone(r)

\* A step of one request as the others see it.
SameLocals(q) ==
  /\ pc'[q] = pc[q] /\ intent'[q] = intent[q]
  /\ sender'[q] = sender[q] /\ receiver'[q] = receiver[q] /\ score'[q] = score[q]
  /\ level'[q] = level[q] /\ total'[q] = total[q] /\ decision'[q] = decision[q]
  /\ books'[q] = books[q]

Undisturbed(q) ==
  /\ q \in disturbed => q \in disturbed'
  /\ q \in disturbed' \/ pc[q] \notin Assessing \/ context' = context

OthersKept(r) == \A q \in Requests \ {r} : SameLocals(q) /\ Undisturbed(q)

LEMMA KeptIsLone ==
  ASSUME NEW q \in Requests, Begun(q) /\ Lone(q), SameLocals(q), Undisturbed(q)
  PROVE  (Begun(q) /\ Lone(q))'
<1>1. Begun(q)'
  BY DEF Begun, SameLocals
<1>2. /\ OwnPoints(q) => OwnPoints(q)'
      /\ OwnReads(q) => OwnReads(q)'
      /\ OwnChecks(q) => OwnChecks(q)'
      /\ OwnDecision(q) => OwnDecision(q)'
  <2>1. /\ LimitPoints(q)' = LimitPoints(q) /\ DailyPoints(q)' = DailyPoints(q)
        /\ FrequencyPoints(q)' = FrequencyPoints(q) /\ OwnScore(q)' = OwnScore(q)
    BY DEF SameLocals, LimitPoints, DailyPoints, FrequencyPoints, OwnScore
  <2>2. OwnVerdict(q)' = OwnVerdict(q)
    BY <2>1 DEF SameLocals, OwnVerdict
  <2>3. OwnPoints(q) => OwnPoints(q)'
    BY <2>1 DEF SameLocals, OwnPoints
  <2>4. OwnReads(q) => OwnReads(q)'
    BY DEF SameLocals, OwnReads
  <2>5. OwnChecks(q) => OwnChecks(q)'
    BY DEF SameLocals, OwnChecks
  <2>6. OwnDecision(q) => OwnDecision(q)'
    BY <2>2 DEF SameLocals, OwnDecision
  <2> QED
    BY <2>3, <2>4, <2>5, <2>6
<1>3. pc[q] \notin Assessing \/ context' = context => (OwnContext(q) => OwnContext(q)')
  BY DEF SameLocals, OwnContext, HasSender, HasReceiver, HasProfile, HasAmount, HasFrom, HasTo
<1>4. Lone(q)'
  BY <1>2, <1>3 DEF Lone, Undisturbed
<1> QED
  BY <1>1, <1>4

\* What a step has to show for its own request.
LEMMA StepIsLone ==
  ASSUME NEW r \in Requests, LoneInv, OthersKept(r), LoneShape', Begun(r)', Lone(r)'
  PROVE  LoneInv'
<1>1. ASSUME NEW q \in Requests PROVE (Begun(q) /\ Lone(q))'
  <2>1. CASE q = r
    BY <2>1
  <2>2. CASE q # r
    BY <2>2, KeptIsLone DEF LoneInv, OthersKept
  <2> QED
    BY <2>1, <2>2
<1> QED
  BY <1>1 DEF LoneInv

LEMMA NoStepIsLone ==
  ASSUME LoneInv, LoneShape', \A q \in Requests : SameLocals(q) /\ Undisturbed(q)
  PROVE  LoneInv'
<1>1. ASSUME NEW q \in Requests PROVE (Begun(q) /\ Lone(q))'
  BY KeptIsLone DEF LoneInv
<1> QED
  BY <1>1 DEF LoneInv


LEMMA GetSenderIsLone ==
  ASSUME NEW r \in Requests, NEW i \in Intents, LoneInv, GetSender(r, i) PROVE LoneInv'
<1>1. PICK label \in {"profile", "refused"} :
        /\ pc' = [pc EXCEPT ![r] = label]
        /\ label = "profile" => /\ users[i.sender] # Nil /\ CanTransact(users[i.sender])
                                /\ sender' = [sender EXCEPT ![r] = users[i.sender]]
        /\ label = "refused" => sender' = sender
  BY DEF GetSender, Goto
<1>2. /\ pc[r] = "new" /\ intent' = [intent EXCEPT ![r] = i]
      /\ UNCHANGED <<users, context, receiver, score, level, total, decision, disturbed, books>>
  BY DEF GetSender, tables
<1>3. LoneShape'
  BY <1>1, <1>2 DEF LoneInv, LoneShape
<1>4. OthersKept(r)
  BY <1>1, <1>2 DEF LoneInv, LoneShape, OthersKept, SameLocals, Undisturbed
<1>5. pc'[r] = label /\ intent'[r] = i
  BY <1>1, <1>2 DEF LoneInv, LoneShape
<1>6. Begun(r)'
  <2>1. label = "profile" => CanTransact(sender'[r]) /\ sender'[r].id = i.sender
    BY <1>1, IntentAssumption DEF LoneInv, LoneShape
  <2>2. "refused" \notin Undecided
    BY DEF Undecided, Unasked, StoreLabels, ReceiverPassed, Daily, CountriesPassed, Last
  <2> QED
    BY <1>1, <1>5, <2>1, <2>2 DEF Begun
<1>7. Lone(r)'
  <2>1. ASSUME r \notin disturbed
        PROVE  score[r] = 0 /\ books[r].asked = FALSE /\ books[r].count = 0 /\ decision[r] = "none"
    BY <1>2, <2>1 DEF LoneInv, Lone, OwnPoints, OwnReads, OwnDecision, Undecided, Unasked
  <2>2. label \notin Assessing \cup ReceiverPassed
    BY DEF Assessing, StoreLabels, Checks, ReceiverPassed, Daily, CountriesPassed, Last
  <2>3. OwnContext(r)'
    BY <1>5, <2>2 DEF OwnContext, HasSender, HasReceiver, HasProfile, HasAmount, HasFrom, HasTo
  <2>4. ASSUME r \notin disturbed PROVE (OwnPoints(r) /\ OwnReads(r))'
    BY <1>2, <1>5, <2>1, <2>2, <2>4 
    DEF OwnPoints, OwnReads, ReceiverPassed, Daily, CountriesPassed, Last
  <2>5. OwnChecks(r)'
    BY <1>5, <2>2 DEF OwnChecks, ReceiverPassed, Daily, CountriesPassed, Last
  <2>6. ASSUME r \notin disturbed PROVE OwnDecision(r)'
    BY <1>2, <1>5, <2>1, <2>2, <2>6 DEF OwnDecision
  <2> QED
    BY <1>2, <2>3, <2>4, <2>5, <2>6 DEF Lone
<1> QED
  BY <1>3, <1>4, <1>6, <1>7, StepIsLone


\* Up to the first check that may find something, nothing has been counted.
Early == {"profile", "receiver", "receiver?", "fetch", "KYC", "sender frozen", "receiver frozen"}
         \cup StoreLabels

EarlyStep(r) ==
  /\ pc[r] \in Early /\ pc'[r] \in Early \cup {"refused"}
  /\ r \in disturbed => r \in disturbed'
  /\ UNCHANGED <<intent, sender, score, decision, books>>

LEMMA EarlyIsLone ==
  ASSUME NEW r \in Requests, LoneInv, LoneShape', OthersKept(r), EarlyStep(r),
         r \notin disturbed' => OwnContext(r)'
  PROVE  LoneInv'
<1>1. Early \subseteq (Unasked \ {"new", "daily total", "receiver.status", "receiver id"})
  BY DEF Early, Unasked, StoreLabels
<1>2. pc'[r] \notin ReceiverPassed \cup Daily \cup CountriesPassed \cup Last
                    \cup {"daily total", "to", "from", "receiver.status", "receiver id",
                          "new", "broken", "frequency", "amount", "daily amount",
                          "large amount"}
  BY DEF EarlyStep, Early, StoreLabels, ReceiverPassed, Daily, CountriesPassed, Last
<1>3. Begun(r)'
  <2>1. Early \subseteq Undecided \ {"new"} /\ "refused" \notin Undecided
    BY <1>1 DEF Undecided, Unasked, StoreLabels, ReceiverPassed, Daily, CountriesPassed, Last
  <2> QED
    BY <2>1 DEF LoneInv, Begun, EarlyStep, Early
<1>4. ASSUME r \notin disturbed'
      PROVE  score'[r] = 0 /\ books'[r].asked = FALSE /\ books'[r].count = 0 /\ decision'[r] = "none"
  BY <1>1, <1>4 DEF EarlyStep, LoneInv, Lone, OwnPoints, OwnReads, OwnDecision, Undecided
<1>5. ASSUME r \notin disturbed' PROVE OwnPoints(r)'
  BY <1>2, <1>4, <1>5 DEF OwnPoints
<1>6. ASSUME r \notin disturbed' PROVE OwnReads(r)'
  BY <1>2, <1>4, <1>6 DEF OwnReads
<1>7. OwnChecks(r)'
  BY <1>2 DEF OwnChecks
<1>8. ASSUME r \notin disturbed' PROVE OwnDecision(r)'
  BY <1>2, <1>4, <1>8 DEF OwnDecision
<1>9. Lone(r)'
  BY <1>5, <1>6, <1>7, <1>8 DEF Lone
<1> QED
  BY <1>3, <1>9, StepIsLone

LEMMA GetProfileIsLone == ASSUME NEW r \in Requests, LoneInv, GetProfile(r) PROVE LoneInv'
<1>1. PICK label \in {"receiver", "refused"} : pc' = [pc EXCEPT ![r] = label]
  BY DEF GetProfile, Goto
<1>2. /\ pc[r] = "profile"
      /\ UNCHANGED <<users, context, intent, sender, receiver, score, level, total, decision,
                     disturbed, books>>
  BY DEF GetProfile, tables, locals, ghosts
<1>3. LoneShape' /\ OthersKept(r) /\ pc'[r] = label
  BY <1>1, <1>2 DEF LoneInv, LoneShape, OthersKept, SameLocals, Undisturbed
<1>4. EarlyStep(r)
  BY <1>2, <1>3 DEF EarlyStep, Early
<1>5. OwnContext(r)'
  <2>1. label \notin Assessing
    BY DEF Assessing, StoreLabels, Checks
  <2> QED
    BY <1>3, <2>1 DEF OwnContext, HasSender, HasReceiver, HasProfile, HasAmount, HasFrom, HasTo
<1> QED
  BY <1>3, <1>4, <1>5, EarlyIsLone

LEMMA GetReceiverIsLone == ASSUME NEW r \in Requests, LoneInv, GetReceiver(r) PROVE LoneInv'
<1>1. /\ pc[r] = "receiver" /\ pc' = [pc EXCEPT ![r] = "sender="]
      /\ UNCHANGED <<users, context, intent, sender, score, level, total, decision, disturbed, books>>
  BY DEF GetReceiver, Goto, tables, ghosts
<1>2. receiver' = receiver \/ receiver' = [receiver EXCEPT ![r] = users[intent[r].receiver]]
  BY DEF GetReceiver
<1>3. LoneShape' /\ pc'[r] = "sender="
  BY <1>1, <1>2 DEF LoneInv, LoneShape
<1>4. OthersKept(r)
  BY <1>1, <1>2 DEF LoneInv, LoneShape, OthersKept, SameLocals, Undisturbed
<1>5. EarlyStep(r)
  BY <1>1, <1>3 DEF EarlyStep, Early, StoreLabels
<1>6. OwnContext(r)'
  BY <1>3 DEF OwnContext, HasSender, HasReceiver, HasProfile, HasAmount, HasFrom, HasTo
<1> QED
  BY <1>3, <1>4, <1>5, <1>6, EarlyIsLone

\* A store of the sender's own value in the field whose turn it is.
Stored(r, label, field, value, next) ==
  /\ LoneShape' /\ OthersKept(r) /\ pc[r] = label /\ pc'[r] = next
  /\ context'[field] = value
  /\ \A other \in {"sender", "receiver", "kyc", "amount", "from", "to"} \ {field} :
       context'[other] = context[other]
  /\ r \in disturbed <=> r \in disturbed'
  /\ UNCHANGED <<intent, sender, receiver, score, decision, books>>

LEMMA StoreFrame ==
  ASSUME NEW r \in Requests, NEW label, NEW next,
         NEW field \in {"sender", "receiver", "kyc", "amount", "from", "to"}, NEW value,
         LoneInv, Store(r, label, field, value, next)
  PROVE  Stored(r, label, field, value, next)
<1>1. /\ pc[r] = label /\ context' = [context EXCEPT ![field] = value]
      /\ pc' = [pc EXCEPT ![r] = next]
      /\ disturbed' = disturbed \cup { q \in Requests \ {r} : pc[q] \in Assessing }
      /\ UNCHANGED <<users, intent, sender, receiver, score, level, total, decision, books>>
  BY DEF Store, Goto, Disturbs, tables, locals
<1>2. LoneShape'
  BY <1>1 DEF LoneInv, LoneShape
<1>3. OthersKept(r)
  BY <1>1 DEF LoneInv, LoneShape, OthersKept, SameLocals, Undisturbed
<1> QED
  BY <1>1, <1>2, <1>3 DEF LoneInv, LoneShape, Stored

LEMMA StoreContextIsLone == ASSUME NEW r \in Requests, LoneInv, StoreContext(r) PROVE LoneInv'
<1> USE DEF OwnContext, HasSender, HasReceiver, HasProfile, HasAmount, HasFrom, HasTo,
            Assessing, StoreLabels
<1>1. r \notin disturbed => OwnContext(r)
  BY DEF LoneInv, Lone
<1>2. CASE Store(r, "sender=", "sender", sender[r], "receiver=")
  <2>1. Stored(r, "sender=", "sender", sender[r], "receiver=")
    BY <1>2, StoreFrame
  <2>2. LoneShape' /\ OthersKept(r) /\ EarlyStep(r)
    BY <2>1 DEF EarlyStep, Early, Stored
  <2>3. r \notin disturbed' => OwnContext(r)'
    BY <1>1, <2>1 DEF Stored
  <2> QED
    BY <2>2, <2>3, EarlyIsLone
<1>3. CASE Store(r, "receiver=", "receiver", StoredReceiver(r), "kyc=")
  <2>1. Stored(r, "receiver=", "receiver", StoredReceiver(r), "kyc=")
    BY <1>3, StoreFrame
  <2>2. LoneShape' /\ OthersKept(r) /\ EarlyStep(r)
    BY <2>1 DEF EarlyStep, Early, Stored
  <2>3. r \notin disturbed' => OwnContext(r)'
    BY <1>1, <2>1 DEF StoredReceiver, Stored
  <2> QED
    BY <2>2, <2>3, EarlyIsLone
<1>4. CASE Store(r, "kyc=", "kyc", "APPROVED", "amount=")
  <2>1. Stored(r, "kyc=", "kyc", "APPROVED", "amount=")
    BY <1>4, StoreFrame
  <2>2. LoneShape' /\ OthersKept(r) /\ EarlyStep(r)
    BY <2>1 DEF EarlyStep, Early, Stored
  <2>3. r \notin disturbed' => OwnContext(r)'
    BY <1>1, <2>1 DEF IsApproved, Stored
  <2> QED
    BY <2>2, <2>3, EarlyIsLone
<1>5. CASE Store(r, "amount=", "amount", intent[r].amount, "from=")
  <2>1. Stored(r, "amount=", "amount", intent[r].amount, "from=")
    BY <1>5, StoreFrame
  <2>2. LoneShape' /\ OthersKept(r) /\ EarlyStep(r)
    BY <2>1 DEF EarlyStep, Early, Stored
  <2>3. r \notin disturbed' => OwnContext(r)'
    BY <1>1, <2>1 DEF Stored
  <2> QED
    BY <2>2, <2>3, EarlyIsLone
<1>6. CASE Store(r, "from=", "from", intent[r].from, "to=")
  <2>1. Stored(r, "from=", "from", intent[r].from, "to=")
    BY <1>6, StoreFrame
  <2>2. LoneShape' /\ OthersKept(r) /\ EarlyStep(r)
    BY <2>1 DEF EarlyStep, Early, Stored
  <2>3. r \notin disturbed' => OwnContext(r)'
    BY <1>1, <2>1 DEF Stored
  <2> QED
    BY <2>2, <2>3, EarlyIsLone
<1>7. CASE Store(r, "to=", "to", intent[r].to, "receiver?")
  <2>1. Stored(r, "to=", "to", intent[r].to, "receiver?")
    BY <1>7, StoreFrame
  <2>2. LoneShape' /\ OthersKept(r) /\ EarlyStep(r)
    BY <2>1 DEF EarlyStep, Early, Stored
  <2>3. r \notin disturbed' => OwnContext(r)'
    BY <1>1, <2>1 DEF Stored
  <2> QED
    BY <2>2, <2>3, EarlyIsLone
<1> QED
  BY <1>2, <1>3, <1>4, <1>5, <1>6, <1>7 DEF StoreContext


LEMMA ReceiverStoredIsLone == ASSUME NEW r \in Requests, LoneInv, ReceiverStored(r) PROVE LoneInv'
<1>1. PICK label \in {"fetch", "KYC"} : pc' = [pc EXCEPT ![r] = label]
  BY DEF ReceiverStored, Goto
<1>2. /\ pc[r] = "receiver?"
      /\ UNCHANGED <<users, context, intent, sender, receiver, score, level, total, decision,
                     disturbed, books>>
  BY DEF ReceiverStored, tables, locals, ghosts
<1>3. LoneShape' /\ OthersKept(r) /\ pc'[r] = label
  BY <1>1, <1>2 DEF LoneInv, LoneShape, OthersKept, SameLocals, Undisturbed
<1>4. EarlyStep(r)
  BY <1>2, <1>3 DEF EarlyStep, Early
<1>5. ASSUME r \notin disturbed' PROVE OwnContext(r)'
  <2>1. OwnContext(r)
    BY <1>2, <1>5 DEF LoneInv, Lone
  <2>2. pc[r] \in HasTo
    BY <1>2 DEF HasSender, HasReceiver, HasProfile, HasAmount, HasFrom, HasTo, Assessing, StoreLabels
  <2> QED
    BY <1>2, <2>1, <2>2 DEF OwnContext, HasSender, HasReceiver, HasProfile, HasAmount, HasFrom, HasTo
<1> QED
  BY <1>3, <1>4, <1>5, EarlyIsLone

LEMMA FetchReceiverIsLone == ASSUME NEW r \in Requests, LoneInv, FetchReceiver(r) PROVE LoneInv'
<1> DEFINE row == users[intent[r].receiver]
<1>1. /\ pc[r] = "fetch" /\ pc' = [pc EXCEPT ![r] = "KYC"]
      /\ UNCHANGED <<users, intent, sender, score, level, total, decision, books>>
  BY DEF FetchReceiver, Goto, tables
<1>2. \/ UNCHANGED <<receiver, context, disturbed>>
      \/ /\ receiver' = [receiver EXCEPT ![r] = row] /\ context' = [context EXCEPT !.receiver = row]
         /\ disturbed' = disturbed \cup { q \in Requests \ {r} : pc[q] \in Assessing }
  BY DEF FetchReceiver, Disturbs
<1>3. LoneShape' /\ pc'[r] = "KYC" /\ (r \in disturbed <=> r \in disturbed')
  BY <1>1, <1>2 DEF LoneInv, LoneShape
<1>4. OthersKept(r)
  BY <1>1, <1>2 DEF LoneInv, LoneShape, OthersKept, SameLocals, Undisturbed
<1>5. EarlyStep(r)
  BY <1>1, <1>3 DEF EarlyStep, Early
<1>6. ASSUME r \notin disturbed' PROVE OwnContext(r)'
  <2>1. OwnContext(r)
    BY <1>3, <1>6 DEF LoneInv, Lone
  <2>2. pc[r] \in HasTo
    BY <1>1 DEF HasSender, HasReceiver, HasProfile, HasAmount, HasFrom, HasTo, Assessing, StoreLabels
  <2>3. /\ context.sender = sender[r] /\ context.receiver = receiver[r] /\ IsApproved(context.kyc)
        /\ context.amount = intent[r].amount /\ context.from = intent[r].from
        /\ context.to = intent[r].to
    BY <2>1, <2>2 DEF OwnContext, HasSender, HasReceiver, HasProfile, HasAmount, HasFrom, HasTo
  <2>4. /\ context'.receiver = receiver'[r] /\ context'.sender = context.sender
        /\ context'.kyc = context.kyc /\ context'.amount = context.amount
        /\ context'.from = context.from /\ context'.to = context.to
    BY <1>2, <2>3 DEF LoneInv, LoneShape
  <2> QED
    BY <1>1, <2>3, <2>4 DEF OwnContext
<1> QED
  BY <1>3, <1>4, <1>5, <1>6, EarlyIsLone

-----------------------------------------------------------------------------
(* The checks *)

\* A step that writes no variable another request reads.
CheckFrame(r) ==
  /\ UNCHANGED <<users, context, intent, sender, receiver, disturbed>>
  /\ \E label : pc' = [pc EXCEPT ![r] = label]
  /\ score' = score \/ \E points : score' = [score EXCEPT ![r] = points]
  /\ level' = level \/ \E read : level' = [level EXCEPT ![r] = read]
  /\ total' = total \/ \E read : total' = [total EXCEPT ![r] = read]
  /\ decision' = decision \/ \E verdict : decision' = [decision EXCEPT ![r] = verdict]
  /\ \/ books' = books
     \/ \E row : DOMAIN row = {"asked", "total", "count"} /\ books' = [books EXCEPT ![r] = row]

LEMMA CheckFrameKeeps ==
  ASSUME NEW r \in Requests, LoneInv, CheckFrame(r) PROVE LoneShape' /\ OthersKept(r)
<1>1. PICK label : pc' = [pc EXCEPT ![r] = label]
  BY DEF CheckFrame
<1>2. UNCHANGED <<users, context, intent, sender, receiver, disturbed>>
  BY DEF CheckFrame
<1>3. DOMAIN score' = Requests /\ \A q \in Requests \ {r} : score'[q] = score[q]
  BY DEF CheckFrame, LoneInv, LoneShape
<1>4. DOMAIN level' = Requests /\ \A q \in Requests \ {r} : level'[q] = level[q]
  BY DEF CheckFrame, LoneInv, LoneShape
<1>5. DOMAIN total' = Requests /\ \A q \in Requests \ {r} : total'[q] = total[q]
  BY DEF CheckFrame, LoneInv, LoneShape
<1>6. DOMAIN decision' = Requests /\ \A q \in Requests \ {r} : decision'[q] = decision[q]
  BY DEF CheckFrame, LoneInv, LoneShape
<1>7. /\ DOMAIN books' = Requests /\ \A q \in Requests \ {r} : books'[q] = books[q]
      /\ \A q \in Requests : DOMAIN books'[q] = {"asked", "total", "count"}
  BY DEF CheckFrame, LoneInv, LoneShape
<1>8. LoneShape'
  BY <1>1, <1>2, <1>3, <1>4, <1>5, <1>6, <1>7 DEF LoneInv, LoneShape
<1>9. OthersKept(r)
  BY <1>1, <1>2, <1>3, <1>4, <1>5, <1>6, <1>7
  DEF LoneInv, LoneShape, OthersKept, SameLocals, Undisturbed
<1> QED
  BY <1>8, <1>9

\* A check that finds nothing, and one that rejects the payment.
Passes(r, next) ==
  /\ CheckFrame(r) /\ UNCHANGED <<books, level, total>>
  /\ pc'[r] = next /\ score'[r] = score[r] /\ decision'[r] = decision[r]

Rejects(r) ==
  CheckFrame(r) /\ UNCHANGED books /\ pc'[r] = "rejected" /\ decision'[r] = "REJECT"

\* A check that may add points.
Counts(r, triggered, points, next) ==
  /\ CheckFrame(r) /\ UNCHANGED <<level, total>>
  /\ pc'[r] = next /\ decision'[r] = decision[r]
  /\ score'[r] = IF triggered THEN score[r] + points ELSE score[r]

LEMMA BlockingJudge ==
  ASSUME NEW r \in Requests, NEW rule \in BlockingRules, NEW triggered \in BOOLEAN, NEW points,
         NEW next, LoneInv, Judge(r, rule, triggered, points, next), books' = books
  PROVE  IF triggered THEN Rejects(r) ELSE Passes(r, next)
<1>1. /\ pc' = [pc EXCEPT ![r] = IF triggered THEN "rejected" ELSE next]
      /\ score' = [score EXCEPT ![r] = IF triggered THEN score[r] + points ELSE score[r]]
      /\ decision' = [decision EXCEPT ![r] = IF triggered THEN "REJECT" ELSE decision[r]]
      /\ UNCHANGED <<users, context, intent, sender, receiver, level, total, disturbed, books>>
  BY DEF Judge, Goto, tables
<1>2. CheckFrame(r)
  BY <1>1 DEF CheckFrame
<1>3. /\ pc'[r] = IF triggered THEN "rejected" ELSE next
      /\ score'[r] = IF triggered THEN score[r] + points ELSE score[r]
      /\ decision'[r] = IF triggered THEN "REJECT" ELSE decision[r]
  BY <1>1 DEF LoneInv, LoneShape
<1> QED
  BY <1>1, <1>2, <1>3 DEF Rejects, Passes

LEMMA CountingJudge ==
  ASSUME NEW r \in Requests, NEW rule, rule \notin BlockingRules, NEW triggered,
         NEW points, NEW next, LoneInv, Judge(r, rule, triggered, points, next), 
         \/ books' = books
         \/ \E row : DOMAIN row = {"asked", "total", "count"} /\ books' = [books EXCEPT ![r] = row]
  PROVE  Counts(r, triggered, points, next)
<1>1. /\ pc' = [pc EXCEPT ![r] = next]
      /\ score' = [score EXCEPT ![r] = IF triggered THEN score[r] + points ELSE score[r]]
      /\ decision' = [decision EXCEPT ![r] = decision[r]]
      /\ UNCHANGED <<users, context, intent, sender, receiver, level, total, disturbed>>
  BY DEF Judge, Goto, tables
<1>2. CheckFrame(r)
  BY <1>1 DEF CheckFrame
<1>3. /\ pc'[r] = next /\ decision'[r] = decision[r]
      /\ score'[r] = IF triggered THEN score[r] + points ELSE score[r]
  BY <1>1 DEF LoneInv, LoneShape
<1> QED
  BY <1>1, <1>2, <1>3 DEF Counts


\* What the checks of an undisturbed request read is its own payment.
OwnPayment(r) ==
  /\ context.sender = sender[r] /\ context.receiver = receiver[r] /\ IsApproved(context.kyc)
  /\ context.amount = intent[r].amount
  /\ context.from = intent[r].from /\ context.to = intent[r].to
  /\ CanTransact(sender[r]) /\ sender[r].id = intent[r].sender

LEMMA ChecksReadOwn ==
  ASSUME NEW r \in Requests, LoneInv, r \notin disturbed, pc[r] \in Checks
  PROVE  /\ OwnPayment(r)
         /\ OwnPoints(r) /\ OwnReads(r) /\ OwnChecks(r) /\ OwnDecision(r) /\ OwnContext(r)
<1>1. Checks \subseteq HasTo /\ Checks \subseteq Undecided \ {"new"}
  BY DEF HasSender, HasReceiver, HasProfile, HasAmount, HasFrom, HasTo, Assessing, StoreLabels,
         Checks, Undecided, Unasked, ReceiverPassed, Daily, CountriesPassed, Last
<1>2. /\ OwnPoints(r) /\ OwnReads(r) /\ OwnChecks(r) /\ OwnDecision(r) /\ OwnContext(r)
      /\ Begun(r)
  BY DEF LoneInv, Lone
<1> QED
  BY <1>1, <1>2
  DEF OwnPayment, OwnContext, Begun, HasSender, HasReceiver, HasProfile, HasAmount, HasFrom, HasTo

LEMMA CheckIsLone ==
  ASSUME NEW r \in Requests, LoneInv, CheckFrame(r), pc[r] \in Checks,
         r \notin disturbed => (OwnPoints(r) /\ OwnReads(r) /\ OwnChecks(r) /\ OwnDecision(r))'
  PROVE  LoneInv'
<1>1. Checks \subseteq Undecided \ {"new"} /\ Checks \subseteq Assessing
  BY DEF Assessing, Checks, Undecided, Unasked, ReceiverPassed, Daily, CountriesPassed, Last
<1>2. LoneShape' /\ OthersKept(r)
  BY CheckFrameKeeps
<1>3. UNCHANGED <<context, intent, sender, receiver, disturbed>>
  BY DEF CheckFrame
<1>4. Begun(r)'
  BY <1>1, <1>3 DEF LoneInv, Begun
<1>5. ASSUME r \notin disturbed PROVE OwnContext(r)'
  BY <1>3, <1>5, ChecksReadOwn DEF OwnPayment, OwnContext
<1>6. Lone(r)'
  BY <1>3, <1>5 DEF Lone
<1> QED
  BY <1>2, <1>4, <1>6, StepIsLone

LEMMA RejectsIsLone ==
  ASSUME NEW r \in Requests, LoneInv, Rejects(r), pc[r] \in Checks,
         r \notin disturbed => OwnVerdict(r) = "REJECT"
  PROVE  LoneInv'
<1>1. CheckFrame(r) /\ pc'[r] = "rejected" /\ decision'[r] = "REJECT"
      /\ UNCHANGED <<intent, sender, receiver, books>>
  BY DEF Rejects, CheckFrame
<1>2. "rejected" \notin Undecided
  BY DEF Undecided, Unasked, StoreLabels, ReceiverPassed, Daily, CountriesPassed, Last
<1>3. OwnVerdict(r)' = OwnVerdict(r)
  BY <1>1 DEF OwnVerdict, OwnScore
<1>4. OwnPoints(r)' /\ OwnReads(r)' /\ OwnChecks(r)'
  BY <1>1 DEF OwnPoints, OwnReads, OwnChecks, Unasked, StoreLabels, ReceiverPassed, Daily,
              CountriesPassed, Last
<1>5. r \notin disturbed => OwnDecision(r)'
  BY <1>1, <1>2, <1>3 DEF OwnDecision
<1> QED
  BY <1>1, <1>4, <1>5, CheckIsLone

\* A check that finds nothing, before the first that counts points.
CleanLabels == {"sender frozen", "receiver frozen", "receiver.status", "receiver id"}

LEMMA CleanIsLone ==
  ASSUME NEW r \in Requests, LoneInv, NEW next \in CleanLabels, Passes(r, next),
         pc[r] \in {"KYC", "sender frozen", "receiver frozen"},
         r \notin disturbed => /\ next = "receiver.status" => receiver[r] # Nil
                               /\ next = "receiver id" => receiver[r] = Nil
  PROVE  LoneInv'
<1>1. pc[r] \in Checks /\ CheckFrame(r) /\ pc'[r] = next /\ score'[r] = score[r]
      /\ decision'[r] = decision[r] /\ UNCHANGED <<intent, sender, receiver, books>>
  BY DEF Passes, CheckFrame, Checks
<1>2. ASSUME r \notin disturbed
      PROVE  (OwnPoints(r) /\ OwnReads(r) /\ OwnChecks(r) /\ OwnDecision(r))'
  <2>1. OwnPoints(r) /\ OwnReads(r) /\ OwnDecision(r)
    BY <1>1, <1>2, ChecksReadOwn
  <2>2. score[r] = 0 /\ books[r].asked = FALSE /\ books[r].count = 0 /\ decision[r] = "none"
    BY <2>1 DEF OwnPoints, OwnReads, OwnDecision, Undecided, Unasked
  <2>3. OwnPoints(r)' /\ OwnReads(r)'
    BY <1>1, <2>2 DEF OwnPoints, OwnReads, CleanLabels, Daily, Last
  <2>4. OwnChecks(r)'
    BY <1>1, <1>2 DEF OwnChecks, CleanLabels, ReceiverPassed, Daily, CountriesPassed, Last
  <2>5. OwnDecision(r)'
    BY <1>1, <2>2 DEF OwnDecision, CleanLabels
  <2> QED
    BY <2>3, <2>4, <2>5
<1> QED
  BY <1>1, <1>2, CheckIsLone

LEMMA CheckKYCCompletedIsLone ==
  ASSUME NEW r \in Requests, LoneInv, CheckKYCCompleted(r) PROVE LoneInv'
<1> DEFINE triggered == ~ CanTransact(context.sender) \/ ~ IsApproved(context.kyc)
<1>1. triggered \in BOOLEAN /\ "KYC_NOT_COMPLETED" \in BlockingRules
  BY DEF BlockingRules
<1>2. pc[r] = "KYC" /\ Judge(r, "KYC_NOT_COMPLETED", triggered, 100, "sender frozen") /\ books' = books
  BY DEF CheckKYCCompleted, Check
<1>3. IF triggered THEN Rejects(r) ELSE Passes(r, "sender frozen")
  BY <1>1, <1>2, BlockingJudge
<1>4. r \notin disturbed => ~ triggered
  BY <1>2, ChecksReadOwn DEF OwnPayment, Checks
<1>5. CASE triggered
  BY <1>2, <1>3, <1>4, <1>5, RejectsIsLone DEF Checks
<1>6. CASE ~ triggered
  BY <1>2, <1>3, <1>6, CleanIsLone DEF CleanLabels
<1> QED
  BY <1>5, <1>6

LEMMA CheckSenderFrozenIsLone ==
  ASSUME NEW r \in Requests, LoneInv, CheckSenderFrozen(r) PROVE LoneInv'
<1> DEFINE triggered == IsFrozen(context.sender)
<1>1. triggered \in BOOLEAN /\ "USER_FROZEN" \in BlockingRules
  BY DEF BlockingRules, IsFrozen
<1>2. pc[r] = "sender frozen" /\ Judge(r, "USER_FROZEN", triggered, 100, "receiver frozen")
      /\ books' = books
  BY DEF CheckSenderFrozen, Check
<1>3. IF triggered THEN Rejects(r) ELSE Passes(r, "receiver frozen")
  BY <1>1, <1>2, BlockingJudge
<1>4. r \notin disturbed => ~ triggered
  BY <1>2, ChecksReadOwn DEF OwnPayment, Checks, CanTransact, IsFrozen
<1>5. CASE triggered
  BY <1>2, <1>3, <1>4, <1>5, RejectsIsLone DEF Checks
<1>6. CASE ~ triggered
  BY <1>2, <1>3, <1>6, CleanIsLone DEF CleanLabels
<1> QED
  BY <1>5, <1>6

LEMMA CheckReceiverFrozenIsLone ==
  ASSUME NEW r \in Requests, LoneInv, CheckReceiverFrozen(r) PROVE LoneInv'
<1> DEFINE next == IF context.receiver = Nil THEN "receiver id" ELSE "receiver.status"
<1>1. "USER_FROZEN" \in BlockingRules
  BY DEF BlockingRules
<1>2. pc[r] = "receiver frozen" /\ Judge(r, "USER_FROZEN", FALSE, 0, next) /\ books' = books
  BY DEF CheckReceiverFrozen, Check
<1>3. Passes(r, next)
  BY <1>1, <1>2, BlockingJudge
<1>4. r \notin disturbed => context.receiver = receiver[r]
  BY <1>2, ChecksReadOwn DEF OwnPayment, Checks
<1>5. next \in CleanLabels
  BY DEF CleanLabels
<1> QED
  BY <1>2, <1>3, <1>4, <1>5, CleanIsLone


LEMMA ReceiverPassedIsLone ==
  ASSUME NEW r \in Requests, LoneInv, Passes(r, "level"),
         pc[r] \in {"receiver.status", "receiver id"},
         r \notin disturbed => receiver[r] # Nil /\ ~ IsFrozen(receiver[r])
  PROVE  LoneInv'
<1>1. pc[r] \in Checks /\ CheckFrame(r) /\ pc'[r] = "level" /\ score'[r] = score[r]
      /\ decision'[r] = decision[r] /\ UNCHANGED <<intent, sender, receiver, books>>
  BY DEF Passes, CheckFrame, Checks
<1>2. ASSUME r \notin disturbed
      PROVE  (OwnPoints(r) /\ OwnReads(r) /\ OwnChecks(r) /\ OwnDecision(r))'
  <2>1. OwnPoints(r) /\ OwnReads(r) /\ OwnDecision(r)
    BY <1>1, <1>2, ChecksReadOwn
  <2>2. score[r] = 0 /\ books[r].asked = FALSE /\ books[r].count = 0 /\ decision[r] = "none"
    BY <2>1 DEF OwnPoints, OwnReads, OwnDecision, Undecided, Unasked
  <2>3. OwnPoints(r)' /\ OwnReads(r)'
    BY <1>1, <2>2 DEF OwnPoints, OwnReads, Daily, Last
  <2>4. OwnChecks(r)'
    BY <1>1, <1>2 DEF OwnChecks, CountriesPassed, Last
  <2>5. OwnDecision(r)'
    BY <1>1, <2>2 DEF OwnDecision
  <2> QED
    BY <2>3, <2>4, <2>5
<1> QED
  BY <1>1, <1>2, CheckIsLone

LEMMA ReadReceiverStatusIsLone ==
  ASSUME NEW r \in Requests, LoneInv, ReadReceiverStatus(r) PROVE LoneInv'
<1> DEFINE triggered == IsFrozen(context.receiver)
<1>1. triggered \in BOOLEAN /\ "USER_FROZEN" \in BlockingRules /\ "receiver.status" \in Checks
  BY DEF BlockingRules, IsFrozen, Checks
<1>2. CASE context.receiver = Nil
  <2>1. /\ pc[r] = "receiver.status" /\ pc' = [pc EXCEPT ![r] = "broken"]
        /\ UNCHANGED <<users, context, intent, sender, receiver, score, level, total, decision,
                       disturbed, books>>
    BY <1>2 DEF ReadReceiverStatus, Goto, tables, locals, ghosts
  <2>2. CheckFrame(r)
    BY <2>1 DEF CheckFrame
  <2>3. r \in disturbed
    BY <1>1, <1>2, <2>1, ChecksReadOwn DEF OwnPayment, OwnChecks
  <2> QED
    BY <1>1, <2>1, <2>2, <2>3, CheckIsLone
<1>3. CASE context.receiver # Nil
  <2>1. pc[r] = "receiver.status" /\ Judge(r, "USER_FROZEN", triggered, 100, "level")
        /\ books' = books
    BY <1>3 DEF ReadReceiverStatus, Check
  <2>2. IF triggered THEN Rejects(r) ELSE Passes(r, "level")
    BY <1>1, <2>1, BlockingJudge
  <2>3. r \notin disturbed => context.receiver = receiver[r]
    BY <1>1, <2>1, ChecksReadOwn DEF OwnPayment
  <2>4. CASE triggered
    <3>1. r \notin disturbed => OwnVerdict(r) = "REJECT"
      BY <2>3, <2>4 DEF OwnVerdict, IsFrozen
    <3> QED
      BY <1>1, <2>1, <2>2, <2>4, <3>1, RejectsIsLone
  <2>5. CASE ~ triggered
    BY <1>3, <2>1, <2>2, <2>3, <2>5, ReceiverPassedIsLone
  <2> QED
    BY <2>4, <2>5
<1> QED
  BY <1>2, <1>3

LEMMA LookupReceiverIsLone ==
  ASSUME NEW r \in Requests, LoneInv, LookupReceiver(r) PROVE LoneInv'
<1>1. "USER_FROZEN" \in BlockingRules /\ "receiver id" \in Checks
  BY DEF BlockingRules, Checks
<1>2. PICK triggered \in BOOLEAN :
        /\ Judge(r, "USER_FROZEN", triggered, 100, "level")
        /\ context.receiver = Nil => triggered
  BY DEF LookupReceiver, IsFrozen
<1>3. pc[r] = "receiver id" /\ books' = books
  BY DEF LookupReceiver
<1>4. IF triggered THEN Rejects(r) ELSE Passes(r, "level")
  BY <1>1, <1>2, <1>3, BlockingJudge
<1>5. r \notin disturbed => receiver[r] = Nil /\ context.receiver = Nil
  BY <1>1, <1>3, ChecksReadOwn DEF OwnPayment, OwnChecks
<1>6. CASE triggered
  <2>1. r \notin disturbed => OwnVerdict(r) = "REJECT"
    BY <1>5 DEF OwnVerdict
  <2> QED
    BY <1>1, <1>3, <1>4, <1>6, <2>1, RejectsIsLone
<1>7. CASE ~ triggered
  BY <1>2, <1>3, <1>4, <1>5, <1>7, ReceiverPassedIsLone
<1> QED
  BY <1>6, <1>7

LEMMA NothingAdded == ASSUME NEW n \in Nat PROVE n + 0 = n
  OBVIOUS

LEMMA PointsAreNat ==
  ASSUME NEW triggered, NEW points \in Nat PROVE Points(triggered, points) \in Nat
BY DEF Points

LEMMA CountsPoints ==
  ASSUME NEW r \in Requests, NEW triggered, NEW points, NEW next,
         score[r] \in Nat, Counts(r, triggered, points, next)
  PROVE  score'[r] = score[r] + Points(triggered, points)
<1>1. CASE triggered
  BY <1>1 DEF Counts, Points
<1>2. CASE ~ triggered
  BY <1>2 DEF Counts, Points
<1> QED
  BY <1>1, <1>2

LEMMA ReadFirstLevelIsLone ==
  ASSUME NEW r \in Requests, LoneInv, ReadLevel(r, "level", "amount") PROVE LoneInv'
<1>1. /\ pc[r] = "level" /\ pc' = [pc EXCEPT ![r] = "amount"]
      /\ level' = [level EXCEPT ![r] = context.sender.level]
      /\ UNCHANGED <<users, context, intent, sender, receiver, score, total, decision, disturbed, books>>
  BY DEF ReadLevel, Goto, tables, ghosts
<1>2. CheckFrame(r) /\ pc[r] \in Checks
  BY <1>1 DEF CheckFrame, Checks
<1>3. pc'[r] = "amount" /\ level'[r] = context.sender.level
  BY <1>1 DEF LoneInv, LoneShape
<1>4. ASSUME r \notin disturbed
      PROVE  (OwnPoints(r) /\ OwnReads(r) /\ OwnChecks(r) /\ OwnDecision(r))'
  <2>1. OwnPoints(r) /\ OwnReads(r) /\ OwnChecks(r) /\ OwnDecision(r) /\ context.sender = sender[r]
    BY <1>2, <1>4, ChecksReadOwn DEF OwnPayment
  <2>2. score[r] = 0 /\ books[r].asked = FALSE /\ books[r].count = 0 /\ decision[r] = "none"
        /\ receiver[r] # Nil /\ ~ IsFrozen(receiver[r])
    BY <1>1, <2>1 DEF OwnPoints, OwnReads, OwnChecks, OwnDecision, Undecided, Unasked, ReceiverPassed
  <2>3. OwnPoints(r)' /\ OwnReads(r)'
    BY <1>1, <1>3, <2>1, <2>2 DEF OwnPoints, OwnReads, Daily, Last
  <2>4. OwnChecks(r)' /\ OwnDecision(r)'
    BY <1>1, <1>3, <2>2 DEF OwnChecks, CountriesPassed, Last, OwnDecision
  <2> QED
    BY <2>3, <2>4
<1> QED
  BY <1>2, <1>4, CheckIsLone

LEMMA CheckAmountIsLone ==
  ASSUME NEW r \in Requests, LoneInv, CheckAmountLimit(r), pc[r] # "level"
  PROVE  LoneInv'
<1> DEFINE triggered == context.amount > SingleTxLimit(level[r])
<1>1. "AMOUNT_EXCEEDS_LIMIT" \notin BlockingRules
  BY DEF BlockingRules
<1>2. pc[r] = "amount" /\ Judge(r, "AMOUNT_EXCEEDS_LIMIT", triggered, 40, "daily total")
      /\ books' = books
  BY DEF CheckAmountLimit, ReadLevel, Check
<1> HIDE DEF triggered
<1>3. Counts(r, triggered, 40, "daily total")
  BY <1>1, <1>2, CountingJudge
<1>4. CheckFrame(r) /\ pc[r] \in Checks /\ UNCHANGED <<intent, sender, receiver>>
  BY <1>2, <1>3 DEF Counts, CheckFrame, Checks
<1>5. ASSUME r \notin disturbed
      PROVE  (OwnPoints(r) /\ OwnReads(r) /\ OwnChecks(r) /\ OwnDecision(r))'
  <2>1. OwnPoints(r) /\ OwnReads(r) /\ OwnChecks(r) /\ OwnDecision(r) /\ OwnPayment(r)
    BY <1>4, <1>5, ChecksReadOwn
  <2>2. score[r] = 0 /\ books[r].asked = FALSE /\ books[r].count = 0 /\ decision[r] = "none"
        /\ receiver[r] # Nil /\ ~ IsFrozen(receiver[r]) /\ level[r] = sender[r].level
        /\ context.amount = intent[r].amount
    BY <1>2, <2>1 DEF OwnPoints, OwnReads, OwnChecks, OwnDecision, Undecided, Unasked,
                      ReceiverPassed, OwnPayment
  <2>3. pc'[r] = "daily total" /\ score'[r] = LimitPoints(r)' /\ decision'[r] = "none"
    <3>1. score'[r] = Points(triggered, 40)
      <4>1. CASE triggered
        <5>1. score[r] = 0
          BY <2>2
        <5>2. score'[r] = score[r] + 40
          BY <1>3, <4>1 DEF Counts
        <5>3. Points(triggered, 40) = 40
          BY <4>1 DEF Points
        <5> QED
          BY <5>1, <5>2, <5>3
      <4>2. CASE ~ triggered
        BY <1>3, <2>2, <4>2 DEF Counts, Points
      <4> QED
        BY <4>1, <4>2
    <3>2. LimitPoints(r)' = Points(triggered, 40)
      BY <1>4, <2>2 DEF LimitPoints, triggered
    <3>3. pc'[r] = "daily total" /\ decision'[r] = "none"
      BY <1>3, <2>2 DEF Counts
    <3> QED
      BY <3>1, <3>2, <3>3
  <2>4. OwnPoints(r)' /\ OwnReads(r)'
    BY <1>2, <2>2, <2>3 DEF OwnPoints, OwnReads, Daily, Last
  <2>5. OwnChecks(r)' /\ OwnDecision(r)'
    BY <1>4, <2>2, <2>3 DEF OwnChecks, CountriesPassed, Last, OwnDecision
  <2> QED
    BY <2>4, <2>5
<1> QED
  BY <1>4, <1>5, CheckIsLone


\* A step between two labels at which the receiver has been accepted.
Accepted(r) ==
  receiver[r] # Nil /\ ~ IsFrozen(receiver[r]) /\ decision[r] = "none"

LEMMA AcceptedAt ==
  ASSUME NEW r \in Requests, OwnChecks(r), OwnDecision(r), pc[r] \in ReceiverPassed
  PROVE  Accepted(r)
BY DEF OwnChecks, OwnDecision, Undecided, Accepted

LEMMA GetDailyTotalIsLone ==
  ASSUME NEW r \in Requests, LoneInv, GetDailyTotal(r) PROVE LoneInv'
<1> DEFINE row == [asked |-> TRUE, total |-> DailyTotal(intent[r].sender), count |-> 0]
<1>1. pc[r] = "daily total"
      /\ UNCHANGED <<users, context, intent, sender, receiver, score, level, decision, disturbed>>
  BY DEF GetDailyTotal, tables
<1>2. \/ /\ pc' = [pc EXCEPT ![r] = "daily level"]
         /\ total' = [total EXCEPT ![r] = DailyTotal(context.sender.id)]
         /\ books' = [books EXCEPT ![r] = row]
      \/ pc' = [pc EXCEPT ![r] = "from"] /\ UNCHANGED <<total, books>>
  BY DEF GetDailyTotal, Goto
<1>3. CheckFrame(r) /\ pc[r] \in Checks
  <2>1. DOMAIN row = {"asked", "total", "count"}
    OBVIOUS
  <2> HIDE DEF row
  <2> QED
    BY <1>1, <1>2, <2>1 DEF CheckFrame, Checks
<1>4. ASSUME r \notin disturbed
      PROVE  (OwnPoints(r) /\ OwnReads(r) /\ OwnChecks(r) /\ OwnDecision(r))'
  <2>1. OwnPoints(r) /\ OwnReads(r) /\ OwnChecks(r) /\ OwnDecision(r) /\ OwnPayment(r)
    BY <1>3, <1>4, ChecksReadOwn
  <2>2. Accepted(r)
    BY <1>1, <2>1, AcceptedAt DEF ReceiverPassed
  <2>3. score[r] = LimitPoints(r) /\ books[r].asked = FALSE /\ books[r].count = 0
    BY <1>1, <2>1 DEF OwnPoints, OwnReads, Unasked
  <2>4. pc'[r] \in {"daily level", "from"} /\ score'[r] = LimitPoints(r)'
    BY <1>1, <1>2, <2>3 DEF LimitPoints, LoneInv, LoneShape
  <2>5. pc'[r] = "from" => DailyPoints(r)' = 0 /\ books'[r].count = 0
    BY <1>1, <1>2, <2>3 DEF LoneInv, LoneShape, DailyPoints, Points
  <2>6. pc'[r] = "daily level" =>
          books'[r].asked = TRUE /\ books'[r].count = 0 /\ total'[r] = books'[r].total
    <3>1. sender[r].id = intent[r].sender /\ context.sender = sender[r]
      BY <2>1 DEF OwnPayment
    <3>2. row.asked = TRUE /\ row.count = 0 /\ row.total = DailyTotal(intent[r].sender)
      OBVIOUS
    <3> HIDE DEF row
    <3>3. ASSUME pc'[r] = "daily level"
          PROVE  books'[r] = row /\ total'[r] = DailyTotal(context.sender.id)
      BY <1>2, <3>3 DEF LoneInv, LoneShape
    <3>4. DailyTotal(context.sender.id) = DailyTotal(intent[r].sender)
      BY <3>1
    <3> QED
      BY <3>2, <3>3, <3>4
  <2>7. LimitPoints(r)' \in Nat
    BY DEF LimitPoints, Points
  <2>8. OwnPoints(r)'
    <3>1. pc'[r] = "from" => score'[r] = LimitPoints(r)' + DailyPoints(r)'
      BY <2>4, <2>5, <2>7
    <3> QED
      BY <2>4, <3>1 DEF OwnPoints, Unasked, StoreLabels, Daily, Last
  <2>9. OwnReads(r)'
    BY <2>4, <2>5, <2>6 DEF OwnReads, Unasked, StoreLabels, Daily
  <2>10. OwnChecks(r)'
    BY <1>1, <2>2, <2>4 DEF OwnChecks, Accepted, CountriesPassed, Last
  <2>11. OwnDecision(r)'
    BY <1>1, <2>2, <2>4 DEF OwnDecision, Accepted
  <2> QED
    BY <2>8, <2>9, <2>10, <2>11
<1> QED
  BY <1>3, <1>4, CheckIsLone

LEMMA ReadDailyLevelIsLone ==
  ASSUME NEW r \in Requests, LoneInv, ReadLevel(r, "daily level", "daily amount") PROVE LoneInv'
<1>1. /\ pc[r] = "daily level" /\ pc' = [pc EXCEPT ![r] = "daily amount"]
      /\ level' = [level EXCEPT ![r] = context.sender.level]
      /\ UNCHANGED <<users, context, intent, sender, receiver, score, total, decision, disturbed, books>>
  BY DEF ReadLevel, Goto, tables, ghosts
<1>2. CheckFrame(r) /\ pc[r] \in Checks
  BY <1>1 DEF CheckFrame, Checks
<1>3. pc'[r] = "daily amount" /\ level'[r] = context.sender.level
  BY <1>1 DEF LoneInv, LoneShape
<1>4. ASSUME r \notin disturbed
      PROVE  (OwnPoints(r) /\ OwnReads(r) /\ OwnChecks(r) /\ OwnDecision(r))'
  <2>1. OwnPoints(r) /\ OwnReads(r) /\ OwnChecks(r) /\ OwnDecision(r) /\ context.sender = sender[r]
    BY <1>2, <1>4, ChecksReadOwn DEF OwnPayment
  <2>2. Accepted(r)
    BY <1>1, <2>1, AcceptedAt DEF ReceiverPassed, Daily
  <2>3. score[r] = LimitPoints(r) /\ books[r].asked = TRUE /\ total[r] = books[r].total
        /\ books[r].count = 0
    BY <1>1, <2>1 DEF OwnPoints, OwnReads, Daily
  <2>4. LimitPoints(r)' = LimitPoints(r)
    BY <1>1 DEF LimitPoints
  <2>5. OwnPoints(r)'
    BY <1>1, <1>3, <2>3, <2>4 DEF OwnPoints, Unasked, StoreLabels, Last
  <2>6. OwnReads(r)'
    BY <1>1, <1>3, <2>1, <2>3 DEF OwnReads, Unasked, StoreLabels
  <2>7. OwnChecks(r)' /\ OwnDecision(r)'
    BY <1>1, <1>3, <2>2 DEF OwnChecks, CountriesPassed, Last, OwnDecision, Accepted
  <2> QED
    BY <2>5, <2>6, <2>7
<1> QED
  BY <1>2, <1>4, CheckIsLone

LEMMA CheckDailyAmountIsLone ==
  ASSUME NEW r \in Requests, LoneInv, CheckDailyLimit(r), pc[r] = "daily amount"
  PROVE  LoneInv'
<1> DEFINE triggered == DailyExceeded(total[r], context.amount, level[r])
<1>1. "DAILY_LIMIT_EXCEEDED" \notin BlockingRules
  BY DEF BlockingRules
<1>2. Judge(r, "DAILY_LIMIT_EXCEEDED", triggered, 30, "from") /\ books' = books
  BY DEF CheckDailyLimit, ReadLevel, GetDailyTotal, Check
<1> HIDE DEF triggered
<1>3. Counts(r, triggered, 30, "from")
  BY <1>1, <1>2, CountingJudge
<1>4. CheckFrame(r) /\ pc[r] \in Checks /\ UNCHANGED <<intent, sender, receiver>>
  BY <1>3 DEF Counts, CheckFrame, Checks
<1>5. ASSUME r \notin disturbed
      PROVE  (OwnPoints(r) /\ OwnReads(r) /\ OwnChecks(r) /\ OwnDecision(r))'
  <2>1. OwnPoints(r) /\ OwnReads(r) /\ OwnChecks(r) /\ OwnDecision(r) /\ OwnPayment(r)
    BY <1>4, <1>5, ChecksReadOwn
  <2>2. Accepted(r)
    BY <2>1, AcceptedAt DEF ReceiverPassed, Daily
  <2>3. score[r] = LimitPoints(r) /\ books[r].asked = TRUE /\ total[r] = books[r].total
        /\ books[r].count = 0 /\ level[r] = sender[r].level /\ context.amount = intent[r].amount
    BY <2>1 DEF OwnPoints, OwnReads, Daily, OwnPayment
  <2>4. LimitPoints(r)' = LimitPoints(r) /\ LimitPoints(r) \in Nat
    BY <1>4 DEF LimitPoints, Points
  <2>5. DailyPoints(r)' = Points(triggered, 30)
    <3>1. DailyPoints(r)' = IF triggered THEN 30 ELSE 0
      BY <1>2, <1>4, <2>3 DEF DailyPoints, Points, triggered, DailyExceeded
    <3> QED
      BY <3>1 DEF Points
  <2>6. score'[r] = score[r] + Points(triggered, 30)
    <3>1. CASE triggered
      <4>1. score'[r] = score[r] + 30
        BY <1>3, <3>1 DEF Counts
      <4>2. Points(triggered, 30) = 30
        BY <3>1 DEF Points
      <4> QED
        BY <4>1, <4>2
    <3>2. CASE ~ triggered
      <4>1. score'[r] = score[r]
        BY <1>3, <3>2 DEF Counts
      <4>2. Points(triggered, 30) = 0
        BY <3>2 DEF Points
      <4>3. score[r] \in Nat
        BY <2>3, <2>4
      <4>4. score[r] + 0 = score[r]
        BY <4>3, NothingAdded
      <4> QED
        BY <4>1, <4>2, <4>4
    <3> QED
      BY <3>1, <3>2
  <2>7. pc'[r] = "from" /\ decision'[r] = "none"
    BY <1>3, <2>2 DEF Counts, Accepted
  <2>8. score'[r] = LimitPoints(r)' + DailyPoints(r)'
    BY <2>3, <2>4, <2>5, <2>6
  <2>9. OwnPoints(r)' /\ OwnReads(r)'
    BY <1>2, <2>3, <2>7, <2>8 DEF OwnPoints, OwnReads, Unasked, StoreLabels, Daily, Last
  <2>10. OwnChecks(r)' /\ OwnDecision(r)'
    BY <1>4, <2>2, <2>7 DEF OwnChecks, CountriesPassed, Last, OwnDecision, Accepted
  <2> QED
    BY <2>9, <2>10
<1> QED
  BY <1>4, <1>5, CheckIsLone


\* The countries of a payment that is rejected for one of them.
LEMMA RestrictedVerdict ==
  ASSUME NEW r \in Requests,
         intent[r].from \in RestrictedCountries \/ intent[r].to \in RestrictedCountries
  PROVE  OwnVerdict(r) = "REJECT"
<1>1. {intent[r].from, intent[r].to} \cap RestrictedCountries # {}
  OBVIOUS
<1> QED
  BY <1>1 DEF OwnVerdict

\* The points so far do not change with what a passing check leaves alone.
LEMMA SamePoints ==
  ASSUME NEW r \in Requests, UNCHANGED <<intent, sender, books>>
  PROVE  /\ LimitPoints(r)' = LimitPoints(r) /\ DailyPoints(r)' = DailyPoints(r)
         /\ FrequencyPoints(r)' = FrequencyPoints(r) /\ OwnScore(r)' = OwnScore(r)
BY DEF LimitPoints, DailyPoints, FrequencyPoints, OwnScore

LEMMA CountryPassedIsLone ==
  ASSUME NEW r \in Requests, LoneInv, NEW next \in {"to", "frequency"}, Passes(r, next),
         pc[r] = IF next = "to" THEN "from" ELSE "to",
         r \notin disturbed => IF next = "to" THEN intent[r].from \notin RestrictedCountries
                               ELSE intent[r].to \notin RestrictedCountries
  PROVE  LoneInv'
<1>1. CheckFrame(r) /\ pc'[r] = next /\ score'[r] = score[r]
      /\ decision'[r] = decision[r] /\ UNCHANGED <<intent, sender, receiver, books>>
  BY DEF Passes, CheckFrame
<1>2. pc[r] \in Checks /\ pc[r] \in {"from", "to"}
  BY DEF Checks
<1>3. ASSUME r \notin disturbed
      PROVE  (OwnPoints(r) /\ OwnReads(r) /\ OwnChecks(r) /\ OwnDecision(r))'
  <2>1. OwnPoints(r) /\ OwnReads(r) /\ OwnChecks(r) /\ OwnDecision(r)
    BY <1>2, <1>3, ChecksReadOwn
  <2>2. Accepted(r)
    BY <1>2, <2>1, AcceptedAt DEF ReceiverPassed
  <2>3. score[r] = LimitPoints(r) + DailyPoints(r) /\ books[r].count = 0
    BY <1>2, <2>1 DEF OwnPoints, OwnReads
  <2>4. score'[r] = LimitPoints(r)' + DailyPoints(r)'
    BY <1>1, <2>3, SamePoints
  <2>5. OwnPoints(r)' /\ OwnReads(r)'
    BY <1>1, <2>3, <2>4 DEF OwnPoints, OwnReads, Unasked, StoreLabels, Daily, Last
  <2>6. OwnChecks(r)'
    BY <1>1, <1>3, <2>1, <2>2 DEF OwnChecks, Accepted, CountriesPassed, Last
  <2>7. OwnDecision(r)'
    BY <1>1, <2>2 DEF OwnDecision, Accepted
  <2> QED
    BY <2>5, <2>6, <2>7
<1> QED
  BY <1>1, <1>2, <1>3, CheckIsLone

LEMMA CheckRestrictedCountryIsLone ==
  ASSUME NEW r \in Requests, LoneInv, CheckRestrictedCountry(r) PROVE LoneInv'
<1>1. "RESTRICTED_COUNTRY" \in BlockingRules /\ "from" \in Checks /\ "to" \in Checks
  BY DEF BlockingRules, Checks
<1>2. CASE Check(r, "from", "RESTRICTED_COUNTRY", context.from \in RestrictedCountries, 100, "to")
  <2> DEFINE triggered == context.from \in RestrictedCountries
  <2>1. pc[r] = "from" /\ Judge(r, "RESTRICTED_COUNTRY", triggered, 100, "to") /\ books' = books
    BY <1>2 DEF Check
  <2>2. IF triggered THEN Rejects(r) ELSE Passes(r, "to")
    <3>1. triggered \in BOOLEAN
      OBVIOUS
    <3> HIDE DEF triggered
    <3> QED
      BY <1>1, <2>1, <3>1, BlockingJudge
  <2>3. r \notin disturbed => context.from = intent[r].from
    BY <1>1, <2>1, ChecksReadOwn DEF OwnPayment
  <2>4. CASE triggered
    BY <1>1, <2>1, <2>2, <2>3, <2>4, RejectsIsLone, RestrictedVerdict
  <2>5. CASE ~ triggered
    BY <2>1, <2>2, <2>3, <2>5, CountryPassedIsLone
  <2> QED
    BY <2>4, <2>5
<1>3. CASE Check(r, "to", "RESTRICTED_COUNTRY", context.to \in RestrictedCountries, 100, "frequency")
  <2> DEFINE triggered == context.to \in RestrictedCountries
  <2>1. pc[r] = "to" /\ Judge(r, "RESTRICTED_COUNTRY", triggered, 100, "frequency")
        /\ books' = books
    BY <1>3 DEF Check
  <2>2. IF triggered THEN Rejects(r) ELSE Passes(r, "frequency")
    <3>1. triggered \in BOOLEAN
      OBVIOUS
    <3> HIDE DEF triggered
    <3> QED
      BY <1>1, <2>1, <3>1, BlockingJudge
  <2>3. r \notin disturbed => context.to = intent[r].to
    BY <1>1, <2>1, ChecksReadOwn DEF OwnPayment
  <2>4. CASE triggered
    BY <1>1, <2>1, <2>2, <2>3, <2>4, RejectsIsLone, RestrictedVerdict
  <2>5. CASE ~ triggered
    BY <2>1, <2>2, <2>3, <2>5, CountryPassedIsLone
  <2> QED
    BY <2>4, <2>5
<1> QED
  BY <1>2, <1>3 DEF CheckRestrictedCountry

LEMMA CheckHighFrequencyIsLone ==
  ASSUME NEW r \in Requests, LoneInv, CheckHighFrequency(r) PROVE LoneInv'
<1>1. pc[r] = "frequency" /\ "HIGH_FREQUENCY" \notin BlockingRules
  BY DEF CheckHighFrequency, BlockingRules
<1>2. CASE UNCHANGED books /\ Judge(r, "HIGH_FREQUENCY", FALSE, 50, "large amount")
  <2>1. Counts(r, FALSE, 50, "large amount")
    BY <1>1, <1>2, CountingJudge
  <2>2. CheckFrame(r) /\ pc[r] \in Checks /\ UNCHANGED <<intent, sender, receiver>>
        /\ pc'[r] = "large amount" /\ decision'[r] = decision[r] /\ score'[r] = score[r]
    BY <1>1, <2>1 DEF Counts, CheckFrame, Checks
  <2>3. ASSUME r \notin disturbed
        PROVE  (OwnPoints(r) /\ OwnReads(r) /\ OwnChecks(r) /\ OwnDecision(r))'
    <3>1. OwnPoints(r) /\ OwnReads(r) /\ OwnChecks(r) /\ OwnDecision(r)
      BY <2>2, <2>3, ChecksReadOwn
    <3>2. Accepted(r)
      BY <1>1, <3>1, AcceptedAt DEF ReceiverPassed, CountriesPassed
    <3>3. score[r] = LimitPoints(r) + DailyPoints(r) /\ books[r].count = 0
          /\ intent[r].from \notin RestrictedCountries /\ intent[r].to \notin RestrictedCountries
      BY <1>1, <3>1 DEF OwnPoints, OwnReads, OwnChecks, CountriesPassed
    <3>4. FrequencyPoints(r) = 0
      BY <3>3 DEF FrequencyPoints, Points, Frequent
    <3>5. LimitPoints(r) + DailyPoints(r) \in Nat
      BY DEF LimitPoints, DailyPoints, Points
    <3>6. score[r] = LimitPoints(r) + DailyPoints(r) + FrequencyPoints(r)
      BY <3>3, <3>4, <3>5, NothingAdded
    <3>7. score'[r] = LimitPoints(r)' + DailyPoints(r)' + FrequencyPoints(r)'
      BY <1>2, <2>2, <3>6, SamePoints
    <3>8. OwnPoints(r)' /\ OwnReads(r)'
      BY <2>2, <3>7 DEF OwnPoints, OwnReads, Unasked, StoreLabels, Daily, Last
    <3>9. OwnChecks(r)' /\ OwnDecision(r)'
      BY <2>2, <3>2, <3>3 DEF OwnChecks, OwnDecision, Accepted
    <3> QED
      BY <3>8, <3>9
  <2> QED
    BY <2>2, <2>3, CheckIsLone
<1>3. CASE /\ books' = [books EXCEPT ![r].count = RecentTxCount(intent[r].sender)]
           /\ Judge(r, "HIGH_FREQUENCY", RecentTxCount(context.sender.id) >= Frequent, 50,
                    "large amount")
  <2> DEFINE row == [books[r] EXCEPT !.count = RecentTxCount(intent[r].sender)]
             triggered == RecentTxCount(context.sender.id) >= Frequent
  <2>1. DOMAIN row = {"asked", "total", "count"} /\ books' = [books EXCEPT ![r] = row]
        /\ row.count = RecentTxCount(intent[r].sender)
        /\ row.asked = books[r].asked /\ row.total = books[r].total
    BY <1>3 DEF LoneInv, LoneShape
  <2> HIDE DEF row
  <2>2. Judge(r, "HIGH_FREQUENCY", triggered, 50, "large amount")
    BY <1>3
  <2> HIDE DEF triggered
  <2>3. Counts(r, triggered, 50, "large amount")
    BY <1>1, <2>1, <2>2, CountingJudge
  <2>4. CheckFrame(r) /\ pc[r] \in Checks /\ UNCHANGED <<intent, sender, receiver>>
        /\ pc'[r] = "large amount" /\ decision'[r] = decision[r]
    BY <1>1, <2>3 DEF Counts, CheckFrame, Checks
  <2>5. books'[r] = row
    BY <2>1 DEF LoneInv, LoneShape
  <2>6. ASSUME r \notin disturbed
        PROVE  (OwnPoints(r) /\ OwnReads(r) /\ OwnChecks(r) /\ OwnDecision(r))'
    <3>1. OwnPoints(r) /\ OwnReads(r) /\ OwnChecks(r) /\ OwnDecision(r) /\ OwnPayment(r)
      BY <2>4, <2>6, ChecksReadOwn
    <3>2. Accepted(r)
      BY <1>1, <3>1, AcceptedAt DEF ReceiverPassed, CountriesPassed
    <3>3. score[r] = LimitPoints(r) + DailyPoints(r)
          /\ intent[r].from \notin RestrictedCountries /\ intent[r].to \notin RestrictedCountries
      BY <1>1, <3>1 DEF OwnPoints, OwnChecks, CountriesPassed
    <3>4. RecentTxCount(context.sender.id) = RecentTxCount(intent[r].sender)
      BY <3>1 DEF OwnPayment
    <3>5. FrequencyPoints(r)' = IF triggered THEN 50 ELSE 0
      BY <2>1, <2>5, <3>4 DEF FrequencyPoints, Points, triggered
    <3>6. LimitPoints(r)' = LimitPoints(r) /\ DailyPoints(r)' = DailyPoints(r)
      BY <2>1, <2>4, <2>5 DEF LimitPoints, DailyPoints
    <3>7. LimitPoints(r) + DailyPoints(r) \in Nat
      BY DEF LimitPoints, DailyPoints, Points
    <3>8. score'[r] = LimitPoints(r)' + DailyPoints(r)' + FrequencyPoints(r)'
      <4>1. CASE triggered
        <5>1. score'[r] = score[r] + 50
          BY <2>3, <4>1 DEF Counts
        <5>2. FrequencyPoints(r)' = 50
          BY <3>5, <4>1
        <5> QED
          BY <3>3, <3>6, <5>1, <5>2
      <4>2. CASE ~ triggered
        <5>1. score'[r] = score[r]
          BY <2>3, <4>2 DEF Counts
        <5>2. FrequencyPoints(r)' = 0
          BY <3>5, <4>2
        <5>3. LimitPoints(r) + DailyPoints(r) + 0 = LimitPoints(r) + DailyPoints(r)
          BY <3>7, NothingAdded
        <5> QED
          BY <3>3, <3>6, <5>1, <5>2, <5>3
      <4> QED
        BY <4>1, <4>2
    <3>9. OwnPoints(r)' /\ OwnReads(r)'
      BY <2>4, <3>8 DEF OwnPoints, OwnReads, Unasked, StoreLabels, Daily, Last
    <3>10. OwnChecks(r)' /\ OwnDecision(r)'
      BY <2>4, <3>2, <3>3 DEF OwnChecks, OwnDecision, Accepted
    <3> QED
      BY <3>9, <3>10
  <2> QED
    BY <2>4, <2>6, CheckIsLone
<1> QED
  BY <1>2, <1>3 DEF CheckHighFrequency


LEMMA CheckLargeAmountIsLone ==
  ASSUME NEW r \in Requests, LoneInv, CheckNewUserLargeAmount(r) PROVE LoneInv'
<1> DEFINE triggered == context.amount > LargeAmount
<1>1. "NEW_USER_LARGE_AMOUNT" \notin BlockingRules
  BY DEF BlockingRules
<1>2. pc[r] = "large amount" /\ books' = books
      /\ Judge(r, "NEW_USER_LARGE_AMOUNT", triggered, 60, "sanctioned from")
  BY DEF CheckNewUserLargeAmount, Check
<1> HIDE DEF triggered
<1>3. Counts(r, triggered, 60, "sanctioned from")
  BY <1>1, <1>2, CountingJudge
<1>4. CheckFrame(r) /\ pc[r] \in Checks /\ UNCHANGED <<intent, sender, receiver>>
      /\ pc'[r] = "sanctioned from" /\ decision'[r] = decision[r]
  BY <1>2, <1>3 DEF Counts, CheckFrame, Checks
<1>5. ASSUME r \notin disturbed
      PROVE  (OwnPoints(r) /\ OwnReads(r) /\ OwnChecks(r) /\ OwnDecision(r))'
  <2> DEFINE before == LimitPoints(r) + DailyPoints(r) + FrequencyPoints(r)
             last == Points(intent[r].amount > LargeAmount, 60)
  <2>1. OwnPoints(r) /\ OwnReads(r) /\ OwnChecks(r) /\ OwnDecision(r) /\ OwnPayment(r)
    BY <1>4, <1>5, ChecksReadOwn
  <2>2. Accepted(r)
    BY <1>2, <2>1, AcceptedAt DEF ReceiverPassed, CountriesPassed
  <2>3. score[r] = before /\ context.amount = intent[r].amount
        /\ intent[r].from \notin RestrictedCountries /\ intent[r].to \notin RestrictedCountries
    BY <1>2, <2>1 DEF OwnPoints, OwnChecks, CountriesPassed, OwnPayment
  <2>4. before \in Nat
    BY DEF LimitPoints, DailyPoints, FrequencyPoints, Points
  <2>5. OwnScore(r) = before + last
    BY DEF OwnScore, LimitPoints, DailyPoints, FrequencyPoints
  <2>6. last = IF triggered THEN 60 ELSE 0
    BY <2>3 DEF Points, triggered
  <2> HIDE DEF before, last
  <2>7. score'[r] = OwnScore(r)
    <3>1. CASE triggered
      <4>1. score'[r] = score[r] + 60
        BY <1>3, <3>1 DEF Counts
      <4>2. last = 60
        BY <2>6, <3>1
      <4> QED
        BY <2>3, <2>5, <4>1, <4>2
    <3>2. CASE ~ triggered
      <4>1. score'[r] = score[r]
        BY <1>3, <3>2 DEF Counts
      <4>2. last = 0
        BY <2>6, <3>2
      <4>3. before + 0 = before
        BY <2>4, NothingAdded
      <4> QED
        BY <2>3, <2>5, <4>1, <4>2, <4>3
    <3> QED
      BY <3>1, <3>2
  <2>8. OwnScore(r)' = OwnScore(r)
    BY <1>2, <1>4, SamePoints
  <2>9. OwnPoints(r)' /\ OwnReads(r)'
    BY <1>4, <2>7, <2>8 DEF OwnPoints, OwnReads, Unasked, StoreLabels, Daily, Last
  <2>10. OwnChecks(r)' /\ OwnDecision(r)'
    BY <1>4, <2>2, <2>3 DEF OwnChecks, OwnDecision, Accepted
  <2> QED
    BY <2>9, <2>10
<1> QED
  BY <1>4, <1>5, CheckIsLone

LEMMA SanctionPassedIsLone ==
  ASSUME NEW r \in Requests, LoneInv, NEW next \in {"sanctioned to", "decide"}, Passes(r, next),
         pc[r] = IF next = "sanctioned to" THEN "sanctioned from" ELSE "sanctioned to"
  PROVE  LoneInv'
<1>1. CheckFrame(r) /\ pc'[r] = next /\ score'[r] = score[r]
      /\ decision'[r] = decision[r] /\ UNCHANGED <<intent, sender, receiver, books>>
  BY DEF Passes, CheckFrame
<1>2. pc[r] \in Checks /\ pc[r] \in {"sanctioned from", "sanctioned to"}
  BY DEF Checks
<1>3. ASSUME r \notin disturbed
      PROVE  (OwnPoints(r) /\ OwnReads(r) /\ OwnChecks(r) /\ OwnDecision(r))'
  <2>1. OwnPoints(r) /\ OwnReads(r) /\ OwnChecks(r) /\ OwnDecision(r)
    BY <1>2, <1>3, ChecksReadOwn
  <2>2. Accepted(r)
    BY <1>2, <2>1, AcceptedAt DEF ReceiverPassed, CountriesPassed, Last
  <2>3. score[r] = OwnScore(r)
        /\ intent[r].from \notin RestrictedCountries /\ intent[r].to \notin RestrictedCountries
    BY <1>2, <2>1 DEF OwnPoints, OwnChecks, CountriesPassed, Last
  <2>4. score'[r] = OwnScore(r)'
    BY <1>1, <2>3, SamePoints
  <2>5. OwnPoints(r)' /\ OwnReads(r)'
    BY <1>1, <2>4 DEF OwnPoints, OwnReads, Unasked, StoreLabels, Daily
  <2>6. OwnChecks(r)' /\ OwnDecision(r)'
    BY <1>1, <2>2, <2>3 DEF OwnChecks, OwnDecision, Accepted
  <2> QED
    BY <2>5, <2>6
<1> QED
  BY <1>1, <1>2, <1>3, CheckIsLone

LEMMA CheckSanctionedCountryIsLone ==
  ASSUME NEW r \in Requests, LoneInv, CheckSanctionedCountry(r) PROVE LoneInv'
<1>1. /\ "SANCTIONED_COUNTRY" \in BlockingRules
      /\ "sanctioned from" \in Checks /\ "sanctioned to" \in Checks
  BY DEF BlockingRules, Checks
<1>2. CASE Check(r, "sanctioned from", "SANCTIONED_COUNTRY", context.from \in RestrictedCountries,
                 100, "sanctioned to")
  <2> DEFINE triggered == context.from \in RestrictedCountries
  <2>1. pc[r] = "sanctioned from" /\ books' = books
        /\ Judge(r, "SANCTIONED_COUNTRY", triggered, 100, "sanctioned to")
    BY <1>2 DEF Check
  <2>2. IF triggered THEN Rejects(r) ELSE Passes(r, "sanctioned to")
    <3>1. triggered \in BOOLEAN
      OBVIOUS
    <3> HIDE DEF triggered
    <3> QED
      BY <1>1, <2>1, <3>1, BlockingJudge
  <2>3. r \notin disturbed => context.from = intent[r].from
    BY <1>1, <2>1, ChecksReadOwn DEF OwnPayment
  <2>4. CASE triggered
    BY <1>1, <2>1, <2>2, <2>3, <2>4, RejectsIsLone, RestrictedVerdict
  <2>5. CASE ~ triggered
    BY <2>1, <2>2, <2>5, SanctionPassedIsLone
  <2> QED
    BY <2>4, <2>5
<1>3. CASE Check(r, "sanctioned to", "SANCTIONED_COUNTRY", context.to \in RestrictedCountries,
                 100, "decide")
  <2> DEFINE triggered == context.to \in RestrictedCountries
  <2>1. pc[r] = "sanctioned to" /\ books' = books
        /\ Judge(r, "SANCTIONED_COUNTRY", triggered, 100, "decide")
    BY <1>3 DEF Check
  <2>2. IF triggered THEN Rejects(r) ELSE Passes(r, "decide")
    <3>1. triggered \in BOOLEAN
      OBVIOUS
    <3> HIDE DEF triggered
    <3> QED
      BY <1>1, <2>1, <3>1, BlockingJudge
  <2>3. r \notin disturbed => context.to = intent[r].to
    BY <1>1, <2>1, ChecksReadOwn DEF OwnPayment
  <2>4. CASE triggered
    BY <1>1, <2>1, <2>2, <2>3, <2>4, RejectsIsLone, RestrictedVerdict
  <2>5. CASE ~ triggered
    BY <2>1, <2>2, <2>5, SanctionPassedIsLone
  <2> QED
    BY <2>4, <2>5
<1> QED
  BY <1>2, <1>3 DEF CheckSanctionedCountry

-----------------------------------------------------------------------------
(* After the assessment *)

Late == {"rejected", "source rate", "target rate", "quote", "quoted", "placed", "refused"}

LEMMA LateIsLone ==
  ASSUME NEW r \in Requests, LoneInv, CheckFrame(r), pc[r] # "new", pc'[r] \in Late,
         r \notin disturbed => OwnDecision(r)'
  PROVE  LoneInv'
<1>1. LoneShape' /\ OthersKept(r)
  BY CheckFrameKeeps
<1>2. Late \cap (Undecided \cup Assessing) = {}
  BY DEF Late, Undecided, Unasked, StoreLabels, ReceiverPassed, Daily, CountriesPassed, Last,
         Assessing, Checks
<1>3. UNCHANGED <<intent, disturbed>>
  BY DEF CheckFrame
<1>4. Begun(r)'
  BY <1>2, <1>3 DEF LoneInv, Begun
<1>5. OwnContext(r)'
  BY <1>2 DEF OwnContext, HasSender, HasReceiver, HasProfile, HasAmount, HasFrom, HasTo
<1>6. OwnPoints(r)' /\ OwnReads(r)' /\ OwnChecks(r)'
  BY DEF OwnPoints, OwnReads, OwnChecks, Late, Unasked, StoreLabels, ReceiverPassed, Daily,
         CountriesPassed, Last
<1>7. Lone(r)'
  BY <1>3, <1>5, <1>6 DEF Lone
<1> QED
  BY <1>1, <1>4, <1>7, StepIsLone

LEMMA DecideIsLone == ASSUME NEW r \in Requests, LoneInv, Decide(r) PROVE LoneInv'
<1>1. /\ pc[r] = "decide"
      /\ pc' = [pc EXCEPT ![r] = IF Decision(score[r]) = "REJECT" THEN "rejected" ELSE "source rate"]
      /\ decision' = [decision EXCEPT ![r] = Decision(score[r])]
      /\ UNCHANGED <<users, context, intent, sender, receiver, score, level, total, disturbed, books>>
  BY DEF Decide, Goto, tables, ghosts
<1>2. CheckFrame(r)
  BY <1>1 DEF CheckFrame
<1>3. pc'[r] \in {"rejected", "source rate"} /\ decision'[r] = Decision(score[r])
  BY <1>1 DEF LoneInv, LoneShape
<1>4. ASSUME r \notin disturbed PROVE OwnDecision(r)'
  <2>1. OwnPoints(r) /\ OwnChecks(r) /\ OwnDecision(r)
    BY <1>4 DEF LoneInv, Lone
  <2>2. Accepted(r)
    BY <1>1, <2>1, AcceptedAt DEF ReceiverPassed, CountriesPassed, Last
  <2>3. score[r] = OwnScore(r)
        /\ intent[r].from \notin RestrictedCountries /\ intent[r].to \notin RestrictedCountries
    BY <1>1, <2>1 DEF OwnPoints, OwnChecks, CountriesPassed, Last
  <2>4. {intent[r].from, intent[r].to} \cap RestrictedCountries = {}
    BY <2>3
  <2>5. OwnVerdict(r) = Decision(score[r])
    BY <2>2, <2>3, <2>4 DEF OwnVerdict, Decision, Accepted, IsFrozen
  <2>6. OwnVerdict(r)' = OwnVerdict(r)
    BY ZenonT(40), <1>1 DEF OwnVerdict, OwnScore
  <2>7. {"rejected", "source rate"} \cap Undecided = {}
    BY DEF Undecided, Unasked, StoreLabels, ReceiverPassed, Daily, CountriesPassed, Last
  <2> QED
    BY <1>3, <2>5, <2>6, <2>7 DEF OwnDecision
<1> QED
  BY <1>1, <1>2, <1>3, <1>4, LateIsLone DEF Late

\* The quote and the order do not touch the assessment.
LateStep(r) ==
  /\ pc[r] \in Late /\ (\E label \in Late : pc' = [pc EXCEPT ![r] = label])
  /\ UNCHANGED <<users, context, intent, sender, receiver, score, level, total, decision,
                 disturbed, books>>

LEMMA LateStepIsLone == ASSUME NEW r \in Requests, LoneInv, LateStep(r) PROVE LoneInv'
<1>1. CheckFrame(r) /\ pc'[r] \in Late /\ pc[r] # "new"
  BY DEF LateStep, CheckFrame, LoneInv, LoneShape, Late
<1>2. ASSUME r \notin disturbed PROVE OwnDecision(r)'
  <2>1. OwnDecision(r)
    BY <1>2 DEF LoneInv, Lone
  <2>2. OwnVerdict(r)' = OwnVerdict(r)
    BY DEF OwnVerdict, OwnScore, LateStep
  <2>3. Late \cap Undecided = {} /\ "broken" \notin Late
    BY DEF Late, Undecided, Unasked, StoreLabels, ReceiverPassed, Daily, CountriesPassed, Last
  <2> QED
    BY <1>1, <2>1, <2>2, <2>3 DEF OwnDecision, LateStep
<1> QED
  BY <1>1, <1>2, LateIsLone


LEMMA RequestStepIsLone == ASSUME NEW r \in Requests, LoneInv, RequestStep(r) PROVE LoneInv'
<1>1. CASE GetProfile(r)
  BY <1>1, GetProfileIsLone
<1>2. CASE GetReceiver(r)
  BY <1>2, GetReceiverIsLone
<1>3. CASE StoreContext(r)
  BY <1>3, StoreContextIsLone
<1>4. CASE ReceiverStored(r) \/ FetchReceiver(r)
  BY <1>4, ReceiverStoredIsLone, FetchReceiverIsLone
<1>5. CASE CheckKYCCompleted(r) \/ CheckSenderFrozen(r) \/ CheckReceiverFrozen(r)
  BY <1>5, CheckKYCCompletedIsLone, CheckSenderFrozenIsLone, CheckReceiverFrozenIsLone
<1>6. CASE ReadReceiverStatus(r) \/ LookupReceiver(r)
  BY <1>6, ReadReceiverStatusIsLone, LookupReceiverIsLone
<1>7. CASE CheckAmountLimit(r)
  <2>1. CASE pc[r] = "level"
    <3>1. ReadLevel(r, "level", "amount")
      BY <1>7, <2>1 DEF CheckAmountLimit, Check
    <3> QED
      BY <3>1, ReadFirstLevelIsLone
  <2>2. CASE pc[r] # "level"
    BY <1>7, <2>2, CheckAmountIsLone
  <2> QED
    BY <2>1, <2>2
<1>8. CASE CheckDailyLimit(r)
  <2>1. CASE pc[r] = "daily amount"
    BY <1>8, <2>1, CheckDailyAmountIsLone
  <2>2. CASE pc[r] # "daily amount"
    <3>1. GetDailyTotal(r) \/ ReadLevel(r, "daily level", "daily amount")
      BY <1>8, <2>2 DEF CheckDailyLimit, Check
    <3> QED
      BY <3>1, GetDailyTotalIsLone, ReadDailyLevelIsLone
  <2> QED
    BY <2>1, <2>2
<1>9. CASE CheckRestrictedCountry(r) \/ CheckHighFrequency(r)
  BY <1>9, CheckRestrictedCountryIsLone, CheckHighFrequencyIsLone
<1>10. CASE CheckNewUserLargeAmount(r) \/ CheckSanctionedCountry(r)
  BY <1>10, CheckLargeAmountIsLone, CheckSanctionedCountryIsLone
<1>11. CASE Decide(r)
  BY <1>11, DecideIsLone
<1>12. CASE ReadSourceRate(r)
  <2>1. LateStep(r)
    BY <1>12 DEF ReadSourceRate, Goto, LateStep, Late, tables, ghosts
  <2> QED
    BY <2>1, LateStepIsLone
<1>13. CASE ReadTargetRate(r)
  <2>1. LateStep(r)
    BY <1>13 DEF ReadTargetRate, Goto, LateStep, Late, tables, ghosts
  <2> QED
    BY <2>1, LateStepIsLone
<1>14. CASE GetQuote(r)
  <2>1. LateStep(r)
    BY <1>14 DEF GetQuote, Goto, LateStep, Late, tables, ghosts
  <2> QED
    BY <2>1, LateStepIsLone
<1>15. CASE PlaceOrder(r)
  <2>1. \E label \in Late : pc' = [pc EXCEPT ![r] = label]
    BY <1>15 DEF PlaceOrder, Goto, Late
  <2>2. pc[r] \in Late /\ UNCHANGED <<users, context, intent, sender, receiver, score, level,
                                      total, decision, disturbed, books>>
    BY <1>15 DEF PlaceOrder, Late, locals, ghosts
  <2> QED
    BY <2>1, <2>2, LateStepIsLone DEF LateStep
<1> QED
  BY <1>1, <1>2, <1>3, <1>4, <1>5, <1>6, <1>7, <1>8, <1>9, <1>10, <1>11, <1>12, <1>13, <1>14, <1>15
  DEF RequestStep

\* A step of nobody's request; users may change under the requests.
Outside ==
  /\ UNCHANGED <<context, pc, intent, sender, receiver, score, level, total, decision,
                 disturbed, books>>
  /\ \/ users' = users
     \/ \E u \in Members : \E row \in UserRows : row.id = u /\ users' = [users EXCEPT ![u] = row]

LEMMA OutsideIsLone == ASSUME LoneInv, Outside PROVE LoneInv'
<1>1. DOMAIN users' = Members /\ \A u \in Members : users'[u] # Nil => users'[u].id = u
  BY DEF Outside, LoneInv, LoneShape
<1>2. LoneShape'
  BY <1>1 DEF Outside, LoneInv, LoneShape
<1>3. \A q \in Requests : SameLocals(q) /\ Undisturbed(q)
  BY DEF Outside, SameLocals, Undisturbed
<1> QED
  BY <1>2, <1>3, NoStepIsLone

LEMMA LoneInvStarts == Init => LoneInv
<1> SUFFICES ASSUME Init PROVE LoneInv
  OBVIOUS
<1>1. LoneShape
  BY UserAssumption, NilAssumption DEF Init, LoneShape, NoContext
<1>2. ASSUME NEW r \in Requests PROVE Begun(r) /\ Lone(r)
  <2>1. pc[r] = "new" /\ score[r] = 0 /\ decision[r] = "none"
        /\ books[r].asked = FALSE /\ books[r].count = 0
    BY DEF Init
  <2>2. Begun(r)
    BY <2>1 DEF Begun
  <2>3. OwnContext(r)
    BY <2>1 DEF OwnContext, HasSender, HasReceiver, HasProfile, HasAmount, HasFrom, HasTo,
                Assessing, StoreLabels, Checks
  <2>4. OwnPoints(r) /\ OwnReads(r)
    BY <2>1 DEF OwnPoints, OwnReads, Unasked, StoreLabels, Daily, Last
  <2>5. OwnChecks(r) /\ OwnDecision(r)
    BY <2>1 DEF OwnChecks, OwnDecision, ReceiverPassed, Daily, CountriesPassed, Last
  <2> QED
    BY <2>2, <2>3, <2>4, <2>5 DEF Lone
<1> QED
  BY <1>1, <1>2 DEF LoneInv

LEMMA LoneInvHolds == Spec => []LoneInv
<1>1. ASSUME LoneInv, [Next]_vars PROVE LoneInv'
  <2>1. ASSUME NEW r \in Requests, NEW i \in Intents, GetSender(r, i) PROVE LoneInv'
    BY <1>1, <2>1, GetSenderIsLone
  <2>2. ASSUME NEW r \in Requests, RequestStep(r) PROVE LoneInv'
    BY <1>1, <2>2, RequestStepIsLone
  <2>3. ASSUME NEW r \in Requests, FailOrder(r) PROVE LoneInv'
    <3>1. Outside
      BY <2>3 DEF FailOrder, Outside, locals, ghosts
    <3> QED
      BY <1>1, <3>1, OutsideIsLone
  <2>4. ASSUME NEW u \in Members, NEW row \in UserRows, UpdateUser(u, row) PROVE LoneInv'
    <3>1. Outside
      BY <2>4 DEF UpdateUser, Outside, locals, ghosts
    <3> QED
      BY <1>1, <3>1, OutsideIsLone
  <2>5. ASSUME NEW u \in Members, NEW s \in KYCStatuses, UpdateProfile(u, s) PROVE LoneInv'
    <3>1. Outside
      BY <2>5 DEF UpdateProfile, Outside, locals, ghosts
    <3> QED
      BY <1>1, <3>1, OutsideIsLone
  <2>6. ASSUME NEW fetched \in [Priced -> UsdRates], FetchLiveRates(fetched) PROVE LoneInv'
    <3>1. Outside
      BY <2>6 DEF FetchLiveRates, Outside, tables, locals
    <3> QED
      BY <1>1, <3>1, OutsideIsLone
  <2>7. CASE UNCHANGED vars
    <3>1. Outside
      BY <2>7 DEF vars, Outside, tables, locals, ghosts
    <3> QED
      BY <1>1, <3>1, OutsideIsLone
  <2> QED
    BY <1>1, <2>1, <2>2, <2>3, <2>4, <2>5, <2>6, <2>7 DEF Next
<1> QED
  BY <1>1, LoneInvStarts, PTL DEF Spec

\* An assessment that no concurrent request writes into decides about its own
\* payment and never meets a nil: whatever the assessments before it have left
\* in the service, AssessPayment overwrites it before its checks read it.
THEOREM LoneAssessments == Spec => []LoneAssessmentIsRight
<1>1. LoneInv => LoneAssessmentIsRight
  BY DEF LoneInv, Lone, OwnDecision, LoneAssessmentIsRight
<1> QED
  BY <1>1, LoneInvHolds, PTL

-----------------------------------------------------------------------------
(* The types *)

Decisions == {"none", "PASS", "MANUAL_REVIEW", "REJECT"}
Fields == {"sender", "receiver", "kyc", "amount", "from", "to"}

\* Where CreatePayment has the row of its sender.
HoldsSender == Assessing \cup {"profile", "receiver"}

TablesTyped ==
  /\ users \in [Members -> UserRows \cup {Nil}]
  /\ profiles \in [Members -> SUBSET KYCStatuses]
  /\ orders \in [Requests -> {"none", "open", "failed"}]

FieldsTyped ==
  /\ DOMAIN context = Fields
  /\ context.receiver \in UserRows \cup {Nil} /\ context.amount \in Int

LocalsTyped ==
  /\ sender \in [Requests -> UserRows \cup {Nil}]
  /\ receiver \in [Requests -> UserRows \cup {Nil}]
  /\ score \in [Requests -> Nat]
  /\ level \in [Requests -> RiskLevels]
  /\ total \in [Requests -> Int]
  /\ decision \in [Requests -> Decisions]

\* A request has its sender before it stores it, the service has one from then
\* on, and an order is that of a payment somebody asked for.
Typed(r) ==
  /\ pc[r] \in HoldsSender => sender[r] \in UserRows
  /\ pc[r] \in HasSender => context.sender \in UserRows
  /\ orders[r] # "none" => intent[r] \in Intents

TypeInv ==
  /\ TablesTyped /\ FieldsTyped /\ LocalsTyped
  /\ events \in 0..MaxEvents
  /\ \A r \in Requests : Typed(r)

LEMMA QuoteTyped == ASSUME QuoteInv, TypeInv PROVE TypeOK
BY DEF QuoteInv, QuoteShape, TypeInv, TablesTyped, FieldsTyped, LocalsTyped, Typed, TypeOK,
       Decisions, HasSender, Assessing, Checks, StoreLabels

LEMMA EventsTyped ==
  ASSUME events \in 0..MaxEvents, Succeeds \/ Fails \/ Happens
  PROVE  events' \in 0..MaxEvents
BY BoundAssumption DEF Succeeds, Fails, Happens

\* A request that goes on without a change of tables, fields or senders.
LEMMA StepIsTyped ==
  ASSUME NEW r \in Requests, NEW label, QuoteInv, TypeInv, LocalsTyped',
         pc' = [pc EXCEPT ![r] = label],
         label \in HasSender => pc[r] \in HasSender,
         label \in HoldsSender => pc[r] \in HoldsSender,
         UNCHANGED <<tables, context, intent, sender>>, Succeeds \/ Fails
  PROVE  TypeInv'
<1>1. pc \in [Requests -> Labels]
  BY DEF QuoteInv, QuoteShape
<1>2. events' \in 0..MaxEvents
  BY EventsTyped DEF TypeInv
<1>3. TablesTyped' /\ FieldsTyped'
  BY DEF TypeInv, TablesTyped, FieldsTyped, tables
<1>4. ASSUME NEW q \in Requests PROVE Typed(q)'
  <2>1. CASE q = r
    BY <1>1, <2>1 DEF TypeInv, Typed, tables
  <2>2. CASE q # r
    BY <1>1, <2>2 DEF TypeInv, Typed, tables
  <2> QED
    BY <2>1, <2>2
<1> QED
  BY <1>2, <1>3, <1>4 DEF TypeInv

LEMMA GetSenderIsTyped ==
  ASSUME NEW r \in Requests, NEW i \in Intents, QuoteInv, TypeInv, GetSender(r, i) PROVE TypeInv'
<1>1. /\ pc[r] = "new" /\ intent' = [intent EXCEPT ![r] = i]
      /\ UNCHANGED <<tables, context, receiver, score, level, total, decision>>
      /\ Succeeds \/ Fails
  BY DEF GetSender
<1>2. \/ /\ users[i.sender] # Nil
         /\ sender' = [sender EXCEPT ![r] = users[i.sender]] /\ pc' = [pc EXCEPT ![r] = "profile"]
      \/ UNCHANGED sender /\ pc' = [pc EXCEPT ![r] = "refused"]
  BY DEF GetSender, Goto
<1>3. pc \in [Requests -> Labels] /\ intent \in [Requests -> Intents \cup {NoIntent}]
  BY DEF QuoteInv, QuoteShape
<1>4. i.sender \in Members
  BY IntentAssumption
<1>5. users[i.sender] \in UserRows \cup {Nil}
  BY <1>4 DEF TypeInv, TablesTyped
<1>6. TablesTyped' /\ FieldsTyped' /\ events' \in 0..MaxEvents
  BY <1>1, EventsTyped DEF TypeInv, TablesTyped, FieldsTyped, tables
<1>7. LocalsTyped'
  BY <1>1, <1>2, <1>5 DEF TypeInv, LocalsTyped
<1>8. ASSUME NEW q \in Requests PROVE Typed(q)'
  <2>1. CASE q # r
    BY <1>1, <1>2, <1>3, <2>1 DEF TypeInv, Typed, LocalsTyped, tables
  <2>2. CASE q = r
    <3>1. sender \in [Requests -> UserRows \cup {Nil}]
      BY DEF TypeInv, LocalsTyped
    <3>2. pc'[q] = "profile" => sender'[q] \in UserRows
      BY <1>2, <1>3, <1>5, <2>2, <3>1
    <3>3. pc'[q] \in {"profile", "refused"} /\ intent'[q] \in Intents
      BY <1>1, <1>2, <1>3, <2>2
    <3> QED
      BY <3>2, <3>3 DEF Typed, HoldsSender, HasSender, Assessing, Checks, StoreLabels
  <2> QED
    BY <2>1, <2>2
<1> QED
  BY <1>6, <1>7, <1>8 DEF TypeInv

\* A store of a field: the sender of the service is one from the first on.
LEMMA StoreIsTyped ==
  ASSUME NEW r \in Requests, QuoteInv, TypeInv, NEW label, NEW field, NEW value, NEW next,
         Store(r, label, field, value, next), label \in StoreLabels,
         \/ label = "sender=" /\ field = "sender" /\ value \in UserRows
         \/ label # "sender=" /\ field # "sender",
         field = "receiver" => value \in UserRows \cup {Nil},
         field = "amount" => value \in Int
  PROVE  TypeInv'
<1>1. /\ pc[r] = label /\ context' = [context EXCEPT ![field] = value]
      /\ pc' = [pc EXCEPT ![r] = next]
      /\ UNCHANGED <<tables, intent, locals, events>>
  BY DEF Store, Goto
<1>2. pc \in [Requests -> Labels]
  BY DEF QuoteInv, QuoteShape
<1>3. TablesTyped' /\ LocalsTyped' /\ events' \in 0..MaxEvents
  BY <1>1 DEF TypeInv, TablesTyped, LocalsTyped, tables, locals
<1>4. FieldsTyped'
  BY <1>1 DEF TypeInv, FieldsTyped, Fields
<1>5. label # "sender=" => context'.sender = context.sender
  BY <1>1
<1>6. label = "sender=" => context'.sender \in UserRows
  BY <1>1 DEF TypeInv, FieldsTyped, Fields
<1>7. label # "sender=" => label \in HasSender
  BY DEF HasSender, Assessing
<1>8. label \in HoldsSender
  BY DEF HoldsSender, Assessing
<1>9. ASSUME NEW q \in Requests PROVE Typed(q)'
  <2>1. /\ pc'[q] \in HoldsSender => sender[q] \in UserRows
        /\ pc'[q] \in HasSender => label = "sender=" \/ context.sender \in UserRows
        /\ orders[q] # "none" => intent[q] \in Intents
    BY <1>1, <1>2, <1>7, <1>8 DEF TypeInv, Typed
  <2> QED
    BY <1>1, <1>5, <1>6, <2>1 DEF Typed, tables, locals
<1> QED
  BY <1>3, <1>4, <1>9 DEF TypeInv

LEMMA StoreContextIsTyped ==
  ASSUME NEW r \in Requests, QuoteInv, TypeInv, StoreContext(r) PROVE TypeInv'
<1>1. pc[r] \in StoreLabels
  BY DEF StoreContext, Store, StoreLabels
<1>2. sender[r] \in UserRows /\ receiver[r] \in UserRows \cup {Nil}
  BY <1>1 DEF TypeInv, Typed, HoldsSender, Assessing, LocalsTyped
<1>3. intent[r] \in Intents
  BY <1>1 DEF QuoteInv, Quoting, StoreLabels
<1>4. intent[r].amount \in Int
  BY <1>3, IntentFields
<1>5. CASE Store(r, "sender=", "sender", sender[r], "receiver=")
  BY <1>2, <1>5, StoreIsTyped DEF StoreLabels
<1>6. CASE Store(r, "receiver=", "receiver", StoredReceiver(r), "kyc=")
  BY <1>2, <1>6, StoreIsTyped DEF StoreLabels, StoredReceiver
<1>7. CASE Store(r, "kyc=", "kyc", "APPROVED", "amount=")
  BY <1>7, StoreIsTyped DEF StoreLabels
<1>8. CASE Store(r, "amount=", "amount", intent[r].amount, "from=")
  BY <1>4, <1>8, StoreIsTyped DEF StoreLabels
<1>9. CASE Store(r, "from=", "from", intent[r].from, "to=")
  BY <1>9, StoreIsTyped DEF StoreLabels
<1>10. CASE Store(r, "to=", "to", intent[r].to, "receiver?")
  BY <1>10, StoreIsTyped DEF StoreLabels
<1> QED
  BY <1>5, <1>6, <1>7, <1>8, <1>9, <1>10 DEF StoreContext

LEMMA FetchReceiverIsTyped ==
  ASSUME NEW r \in Requests, QuoteInv, TypeInv, FetchReceiver(r) PROVE TypeInv'
<1> DEFINE row == users[intent[r].receiver]
<1>0. pc[r] = "fetch" /\ (Succeeds \/ Fails)
  BY DEF FetchReceiver
<1>1. /\ pc' = [pc EXCEPT ![r] = "KYC"]
      /\ UNCHANGED <<tables, intent, sender, score, level, total, decision>>
      /\ \/ /\ receiver' = [receiver EXCEPT ![r] = row]
            /\ context' = [context EXCEPT !.receiver = row]
         \/ UNCHANGED <<receiver, context>>
  BY DEF FetchReceiver, Goto
<1>2. pc \in [Requests -> Labels]
  BY DEF QuoteInv, QuoteShape
<1>3. intent[r] \in Intents
  BY <1>0 DEF QuoteInv, Quoting
<1>4. intent[r].receiver \in Members
  BY <1>3, IntentAssumption
<1>5. row \in UserRows \cup {Nil}
  BY <1>4 DEF TypeInv, TablesTyped
<1> HIDE DEF row
<1>6. TablesTyped' /\ events' \in 0..MaxEvents
  BY <1>0, <1>1, EventsTyped DEF TypeInv, TablesTyped, tables
<1>7. LocalsTyped' /\ FieldsTyped'
  BY <1>1, <1>5 DEF TypeInv, LocalsTyped, FieldsTyped, Fields
<1>8. context'.sender = context.sender
  BY <1>1 DEF TypeInv, FieldsTyped, Fields
<1>9. ASSUME NEW q \in Requests PROVE Typed(q)'
  <2>1. "fetch" \in HasSender /\ "fetch" \in HoldsSender
    BY DEF HasSender, HoldsSender, Assessing
  <2>2. /\ pc'[q] \in HasSender => pc[q] \in HasSender
        /\ pc'[q] \in HoldsSender => pc[q] \in HoldsSender
    BY <1>0, <1>1, <1>2, <2>1
  <2> QED
    BY <1>1, <1>8, <2>2 DEF TypeInv, Typed, tables
<1> QED
  BY <1>6, <1>7, <1>9 DEF TypeInv

\* The total of a day is a number.
LEMMA DailyTotalIsInt ==
  ASSUME TypeInv, NEW u \in Members
  PROVE  DailyTotal(u) \in Int
<1> DEFINE sums == [r \in Counted(u) |-> intent[r].amount]
<1>1. Counted(u) \subseteq Requests
  BY DEF Counted, Sent
<1>2. IsFiniteSet(Counted(u))
  BY <1>1, RequestAssumption, FS_Subset
<1>3. \A r \in Counted(u) : intent[r] \in Intents
  BY <1>1 DEF Counted, Sent, TypeInv, Typed
<1>4. \A r \in Counted(u) : intent[r].amount \in Int
  BY <1>3, IntentFields
<1>5. SumFunctionOnSet(sums, Counted(u)) \in Int
  BY <1>2, <1>4, SumInt
<1>6. SumFunction(sums) \in Int
  BY <1>5 DEF SumFunction
<1>7. History[u].total \in Nat
  BY UserAssumption
<1> QED
  BY <1>6, <1>7 DEF DailyTotal

\* A check that triggers adds its points, whatever it has read.
LEMMA JudgeIsTyped ==
  ASSUME NEW r \in Requests, QuoteInv, TypeInv, NEW rule, NEW triggered, NEW points \in Nat,
         NEW next \in Checks \cup {"decide"}, pc[r] \in Checks,
         Judge(r, rule, triggered, points, next), Succeeds \/ Fails
  PROVE  TypeInv'
<1> DEFINE label == IF triggered /\ rule \in BlockingRules THEN "rejected" ELSE next
<1>1. /\ pc' = [pc EXCEPT ![r] = label]
      /\ score' = [score EXCEPT ![r] = IF triggered THEN @ + points ELSE @]
      /\ decision' = [decision EXCEPT ![r] =
                        IF triggered /\ rule \in BlockingRules THEN "REJECT" ELSE @]
      /\ UNCHANGED <<tables, context, intent, sender, receiver, level, total>>
  BY DEF Judge, Goto
<1>2. label \in Checks \cup {"decide", "rejected"}
  OBVIOUS
<1> HIDE DEF label
<1>3. pc[r] \in HasSender /\ pc[r] \in HoldsSender
  BY DEF HasSender, HoldsSender, Assessing, Checks
<1>4. score[r] \in Nat /\ decision[r] \in Decisions
  BY DEF TypeInv, LocalsTyped
<1>5. \E n \in Nat : score' = [score EXCEPT ![r] = n]
  <2> DEFINE sum == IF triggered THEN score[r] + points ELSE score[r]
  <2>1. score[r] + points \in Nat
    BY <1>4
  <2>2. sum \in Nat
    BY <1>4, <2>1
  <2>3. score' = [score EXCEPT ![r] = sum]
    BY <1>1
  <2> QED
    BY <2>2, <2>3
<1>6. \E d \in Decisions : decision' = [decision EXCEPT ![r] = d]
  BY <1>1, <1>4 DEF Decisions
<1>7. LocalsTyped'
  BY <1>1, <1>5, <1>6 DEF TypeInv, LocalsTyped
<1> QED
  BY <1>1, <1>3, <1>7, StepIsTyped

LEMMA CheckIsTyped ==
  ASSUME NEW r \in Requests, QuoteInv, TypeInv, NEW label \in Checks, NEW rule, NEW triggered,
         NEW points \in Nat, NEW next \in Checks \cup {"decide"},
         Check(r, label, rule, triggered, points, next)
  PROVE  TypeInv'
BY JudgeIsTyped DEF Check, Succeeds

LEMMA ReadLevelIsTyped ==
  ASSUME NEW r \in Requests, QuoteInv, TypeInv, NEW label \in Checks, NEW next \in Checks,
         ReadLevel(r, label, next)
  PROVE  TypeInv'
<1>1. /\ pc[r] = label /\ pc' = [pc EXCEPT ![r] = next]
      /\ level' = [level EXCEPT ![r] = context.sender.level]
      /\ UNCHANGED <<tables, context, intent, sender, receiver, score, total, decision, events>>
  BY DEF ReadLevel, Goto
<1>2. pc[r] \in HasSender /\ pc[r] \in HoldsSender
  BY <1>1 DEF HasSender, HoldsSender, Assessing, Checks
<1>3. context.sender \in UserRows
  BY <1>2 DEF TypeInv, Typed
<1>4. context.sender.level \in RiskLevels
  BY <1>3 DEF UserRows
<1>5. LocalsTyped'
  BY <1>1, <1>4 DEF TypeInv, LocalsTyped
<1> QED
  BY <1>1, <1>2, <1>5, StepIsTyped DEF Succeeds

LEMMA GetDailyTotalIsTyped ==
  ASSUME NEW r \in Requests, QuoteInv, TypeInv, GetDailyTotal(r) PROVE TypeInv'
<1> DEFINE sent == DailyTotal(context.sender.id)
<1>0. pc[r] = "daily total" /\ (Succeeds \/ Fails)
  BY DEF GetDailyTotal
<1>1. /\ UNCHANGED <<tables, context, intent, sender, receiver, score, level, decision>>
      /\ \/ total' = [total EXCEPT ![r] = sent] /\ pc' = [pc EXCEPT ![r] = "daily level"]
         \/ UNCHANGED total /\ pc' = [pc EXCEPT ![r] = "from"]
  BY DEF GetDailyTotal, Goto
<1>2. pc[r] \in HasSender /\ pc[r] \in HoldsSender
  BY <1>0 DEF HasSender, HoldsSender, Assessing, Checks
<1>3. context.sender \in UserRows
  BY <1>2 DEF TypeInv, Typed
<1>4. context.sender.id \in Members
  BY <1>3 DEF UserRows
<1>5. sent \in Int
  BY <1>4, DailyTotalIsInt
<1> HIDE DEF sent
<1>6. LocalsTyped'
  BY <1>1, <1>5 DEF TypeInv, LocalsTyped
<1> QED
  BY <1>0, <1>1, <1>2, <1>6, StepIsTyped

LEMMA PlaceOrderIsTyped ==
  ASSUME NEW r \in Requests, QuoteInv, TypeInv, PlaceOrder(r) PROVE TypeInv'
<1>1. /\ pc[r] = "quoted"
      /\ \/ orders' = [orders EXCEPT ![r] = "open"] /\ pc' = [pc EXCEPT ![r] = "placed"]
         \/ UNCHANGED orders /\ pc' = [pc EXCEPT ![r] = "refused"]
      /\ UNCHANGED <<users, profiles, context, intent, locals, events>>
  BY DEF PlaceOrder, Goto
<1>2. pc \in [Requests -> Labels] /\ intent[r] \in Intents
  BY <1>1 DEF QuoteInv, QuoteShape, Quoting
<1>3. TablesTyped' /\ FieldsTyped' /\ LocalsTyped' /\ events' \in 0..MaxEvents
  BY <1>1 DEF TypeInv, TablesTyped, FieldsTyped, LocalsTyped, locals
<1>4. ASSUME NEW q \in Requests PROVE Typed(q)'
  <2>1. CASE q = r
    <3>1. pc'[q] \in {"placed", "refused"} /\ intent'[q] \in Intents
      BY <1>1, <1>2, <2>1
    <3> QED
      BY <3>1 DEF Typed, HoldsSender, HasSender, Assessing, Checks, StoreLabels
  <2>2. CASE q # r
    BY <1>1, <1>2, <2>2 DEF TypeInv, Typed, TablesTyped, locals
  <2> QED
    BY <2>1, <2>2
<1> QED
  BY <1>3, <1>4 DEF TypeInv

LEMMA RequestStepIsTyped ==
  ASSUME NEW r \in Requests, QuoteInv, TypeInv, RequestStep(r) PROVE TypeInv'
<1>1. CASE GetProfile(r)
  <2>1. \E label \in {"receiver", "refused"} : pc' = [pc EXCEPT ![r] = label]
    BY <1>1 DEF GetProfile, Goto
  <2>2. LocalsTyped'
    BY <1>1 DEF GetProfile, TypeInv, LocalsTyped, locals
  <2>3. pc[r] = "profile" /\ "profile" \in HoldsSender
        /\ "receiver" \notin HasSender /\ "refused" \notin HasSender
    BY <1>1 DEF GetProfile, HoldsSender, HasSender, Assessing, Checks, StoreLabels
  <2>4. UNCHANGED <<tables, context, intent, sender>> /\ (Succeeds \/ Fails)
    BY <1>1 DEF GetProfile, locals
  <2> QED
    BY <2>1, <2>2, <2>3, <2>4, StepIsTyped
<1>2. CASE GetReceiver(r)
  <2>1. pc[r] = "receiver" /\ "receiver" \in HoldsSender /\ "sender=" \notin HasSender
    BY <1>2 DEF GetReceiver, HoldsSender, HasSender
  <2>2. /\ pc' = [pc EXCEPT ![r] = "sender="]
        /\ Succeeds \/ Fails
        /\ UNCHANGED <<tables, context, intent, sender, score, level, total, decision>>
        /\ \/ receiver' = [receiver EXCEPT ![r] = users[intent[r].receiver]]
           \/ UNCHANGED receiver
    BY <1>2 DEF GetReceiver, Goto
  <2>3. intent[r] \in Intents
    BY <2>1 DEF QuoteInv, Quoting
  <2>4. users[intent[r].receiver] \in UserRows \cup {Nil}
    <3>1. intent[r].receiver \in Members
      BY <2>3, IntentAssumption
    <3> QED
      BY <3>1 DEF TypeInv, TablesTyped
  <2>5. LocalsTyped'
    BY <2>2, <2>4 DEF TypeInv, LocalsTyped
  <2> QED
    BY <2>1, <2>2, <2>5, StepIsTyped
<1>3. CASE StoreContext(r)
  BY <1>3, StoreContextIsTyped
<1>4. CASE ReceiverStored(r)
  <2>1. \E label \in {"fetch", "KYC"} : pc' = [pc EXCEPT ![r] = label]
    BY <1>4 DEF ReceiverStored, Goto
  <2>2. LocalsTyped'
    BY <1>4 DEF ReceiverStored, TypeInv, LocalsTyped, locals
  <2>3. pc[r] \in HoldsSender /\ pc[r] \in HasSender
    BY <1>4 DEF ReceiverStored, HoldsSender, HasSender, Assessing
  <2>4. UNCHANGED <<tables, context, intent, sender>> /\ Succeeds
    BY <1>4 DEF ReceiverStored, locals, Succeeds
  <2> QED
    BY <2>1, <2>2, <2>3, <2>4, StepIsTyped
<1>5. CASE FetchReceiver(r)
  BY <1>5, FetchReceiverIsTyped
<1>6. CASE CheckKYCCompleted(r) \/ CheckSenderFrozen(r)
  BY <1>6, CheckIsTyped DEF CheckKYCCompleted, CheckSenderFrozen, Checks
<1>7. CASE CheckReceiverFrozen(r)
  BY <1>7, CheckIsTyped DEF CheckReceiverFrozen, Checks
<1>8. CASE ReadReceiverStatus(r)
  <2>1. CASE Check(r, "receiver.status", "USER_FROZEN", IsFrozen(context.receiver), 100, "level")
    BY <2>1, CheckIsTyped DEF Checks
  <2>2. CASE /\ pc' = [pc EXCEPT ![r] = "broken"]
             /\ UNCHANGED <<tables, rates, context, intent, locals, ghosts, events>>
    <3>1. "broken" \notin HasSender /\ "broken" \notin HoldsSender
      BY DEF HasSender, HoldsSender, Assessing, Checks, StoreLabels
    <3>2. LocalsTyped'
      BY <2>2 DEF TypeInv, LocalsTyped, locals
    <3> QED
      BY <2>2, <3>1, <3>2, StepIsTyped DEF Succeeds, locals
  <2> QED
    BY <1>8, <2>1, <2>2 DEF ReadReceiverStatus, Goto
<1>9. CASE LookupReceiver(r)
  <2>1. pc[r] \in Checks /\ "level" \in Checks
    BY <1>9 DEF LookupReceiver, Checks
  <2> QED
    BY <1>9, <2>1, JudgeIsTyped DEF LookupReceiver
<1>10. CASE CheckAmountLimit(r)
  BY <1>10, CheckIsTyped, ReadLevelIsTyped DEF CheckAmountLimit, Checks
<1>11. CASE CheckDailyLimit(r)
  BY <1>11, CheckIsTyped, ReadLevelIsTyped, GetDailyTotalIsTyped DEF CheckDailyLimit, Checks
<1>12. CASE CheckRestrictedCountry(r)
  BY <1>12, CheckIsTyped DEF CheckRestrictedCountry, Checks
<1>13. CASE CheckHighFrequency(r)
  <2>1. pc[r] \in Checks /\ "large amount" \in Checks
    BY <1>13 DEF CheckHighFrequency, Checks
  <2> QED
    BY <1>13, <2>1, JudgeIsTyped DEF CheckHighFrequency
<1>14. CASE CheckNewUserLargeAmount(r)
  BY <1>14, CheckIsTyped DEF CheckNewUserLargeAmount, Checks
<1>15. CASE CheckSanctionedCountry(r)
  BY <1>15, CheckIsTyped DEF CheckSanctionedCountry, Checks
<1>16. {"rejected", "source rate", "target rate", "quote", "quoted"} \cap HoldsSender = {}
       /\ HasSender \subseteq HoldsSender
  BY DEF HoldsSender, HasSender, Assessing, Checks, StoreLabels
<1>17. CASE Decide(r)
  <2>1. \E label \in {"rejected", "source rate"} : pc' = [pc EXCEPT ![r] = label]
    BY <1>17 DEF Decide, Goto
  <2>2. Decision(score[r]) \in Decisions
    BY DEF Decision, Decisions
  <2>3. LocalsTyped'
    BY <1>17, <2>2 DEF Decide, TypeInv, LocalsTyped
  <2>4. UNCHANGED <<tables, context, intent, sender>> /\ Succeeds
    BY <1>17 DEF Decide, Succeeds
  <2> QED
    BY <1>16, <2>1, <2>3, <2>4, StepIsTyped
<1>18. CASE ReadSourceRate(r) \/ ReadTargetRate(r) \/ GetQuote(r)
  <2>1. \E label \in {"target rate", "quote", "quoted"} : pc' = [pc EXCEPT ![r] = label]
    BY <1>18 DEF ReadSourceRate, ReadTargetRate, GetQuote, Goto
  <2>2. UNCHANGED <<tables, context, intent, sender, receiver, score, level, total, decision,
                    events>>
    BY <1>18 DEF ReadSourceRate, ReadTargetRate, GetQuote
  <2>3. LocalsTyped'
    BY <2>2 DEF TypeInv, LocalsTyped
  <2> QED
    BY <1>16, <2>1, <2>2, <2>3, StepIsTyped DEF Succeeds
<1>19. CASE PlaceOrder(r)
  BY <1>19, PlaceOrderIsTyped
<1> QED
  BY <1>1, <1>2, <1>3, <1>4, <1>5, <1>6, <1>7, <1>8, <1>9, <1>10, <1>11, <1>12, <1>13, <1>14,
     <1>15, <1>17, <1>18, <1>19
  DEF RequestStep

\* A change of tables alone.
LEMMA TablesAreTyped ==
  ASSUME TypeInv, Happens \/ UNCHANGED events, TablesTyped', UNCHANGED <<context, pc, intent, locals>>,
         \A r \in Requests : orders'[r] # "none" => orders[r] # "none"
  PROVE  TypeInv'
<1>1. events' \in 0..MaxEvents
  BY EventsTyped DEF TypeInv, Succeeds
<1>2. FieldsTyped' /\ LocalsTyped'
  BY DEF TypeInv, FieldsTyped, LocalsTyped, locals
<1>3. \A r \in Requests : Typed(r)'
  BY DEF TypeInv, Typed, locals
<1> QED
  BY <1>1, <1>2, <1>3 DEF TypeInv

LEMMA TypeInvStarts == Init => TypeInv
<1> SUFFICES ASSUME Init PROVE TypeInv
  OBVIOUS
<1>1. TablesTyped
  BY UserAssumption DEF Init, TablesTyped
<1>2. FieldsTyped
  <2>1. context.receiver = Nil /\ context.amount = 0
    BY DEF Init, NoContext
  <2>2. DOMAIN context = Fields
    BY DEF Init, NoContext, Fields
  <2> QED
    BY <2>1, <2>2 DEF FieldsTyped
<1>3. LocalsTyped
  BY DEF Init, LocalsTyped, Decisions, RiskLevels
<1>4. \A r \in Requests : Typed(r)
  BY DEF Init, Typed, HoldsSender, HasSender, Assessing, Checks, StoreLabels
<1>5. events \in 0..MaxEvents
  BY BoundAssumption DEF Init
<1> QED
  BY <1>1, <1>2, <1>3, <1>4, <1>5 DEF TypeInv

\* Whatever the requests write into each other's assessments, every field and
\* every local of assessInternal keeps the values its rules are written for:
\* no check reads a sender that nobody has stored.
THEOREM ScreeningTypeOK == Spec => []TypeOK
<1>1. ASSUME QuoteInv, TypeInv, [Next]_vars PROVE TypeInv'
  <2>1. ASSUME NEW r \in Requests, NEW i \in Intents, GetSender(r, i) PROVE TypeInv'
    BY <1>1, <2>1, GetSenderIsTyped
  <2>2. ASSUME NEW r \in Requests, RequestStep(r) PROVE TypeInv'
    BY <1>1, <2>2, RequestStepIsTyped
  <2>3. ASSUME NEW r \in Requests, FailOrder(r) PROVE TypeInv'
    <3>1. TablesTyped' /\ \A q \in Requests : orders'[q] # "none" => orders[q] # "none"
      BY <1>1, <2>3 DEF FailOrder, TypeInv, TablesTyped
    <3> QED
      BY <1>1, <2>3, <3>1, TablesAreTyped DEF FailOrder
  <2>4. ASSUME NEW u \in Members, NEW row \in UserRows, UpdateUser(u, row) PROVE TypeInv'
    <3>1. TablesTyped'
      BY <1>1, <2>4 DEF UpdateUser, TypeInv, TablesTyped
    <3> QED
      BY <1>1, <2>4, <3>1, TablesAreTyped DEF UpdateUser
  <2>5. ASSUME NEW u \in Members, NEW s \in KYCStatuses, UpdateProfile(u, s) PROVE TypeInv'
    <3>1. \E next \in SUBSET KYCStatuses : profiles' = [profiles EXCEPT ![u] = next]
      BY <1>1, <2>5 DEF UpdateProfile, TypeInv, TablesTyped
    <3>2. TablesTyped'
      BY <1>1, <2>5, <3>1 DEF UpdateProfile, TypeInv, TablesTyped
    <3> QED
      BY <1>1, <2>5, <3>2, TablesAreTyped DEF UpdateProfile
  <2>6. ASSUME NEW fetched \in [Priced -> UsdRates], FetchLiveRates(fetched) PROVE TypeInv'
    <3>1. TablesTyped' /\ UNCHANGED orders
      BY <1>1, <2>6 DEF FetchLiveRates, TypeInv, TablesTyped, tables
    <3> QED
      BY <1>1, <2>6, <3>1, TablesAreTyped DEF FetchLiveRates
  <2>7. CASE UNCHANGED vars
    <3>1. TablesTyped' /\ UNCHANGED <<orders, context, pc, intent, locals, events>>
      BY <1>1, <2>7 DEF vars, TypeInv, TablesTyped, tables
    <3> QED
      BY <1>1, <3>1, TablesAreTyped
  <2> QED
    BY <1>1, <2>1, <2>2, <2>3, <2>4, <2>5, <2>6, <2>7 DEF Next
<1>2. QuoteInv /\ TypeInv => TypeOK
  BY QuoteTyped
<1> QED
  BY <1>1, <1>2, TypeInvStarts, QuoteInvHolds, PTL DEF Spec
===============================================================================
