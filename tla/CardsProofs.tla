------------------------------ MODULE CardsProofs ------------------------------
(***************************************************************************)
(* What Cards guarantees for every number of owners, cards, currencies and *)
(* requests and every table of rates, proved by one inductive invariant.   *)
(***************************************************************************)
EXTENDS Cards, Sums, SequenceTheorems

\* The tables and the requests have their shape.
ShapeInv ==
  /\ cards \in [CardIds -> CardRows \cup {NoCard}]
  /\ accounts \in [Wallets -> Row]
  /\ held \in [Wallets -> Int]
  /\ auths \subseteq AuthRows
  /\ pc \in [Requests -> Labels]
  /\ DOMAIN request = Requests
  /\ quote \in [Requests -> [debit: Int, currency: Currencies \cup {None}]]
  /\ live \subseteq Requests
  /\ moves \in 0..MaxMoves /\ mishaps \in 0..MaxMishaps

\* Where an authorization or a quote is under way.
Paying == {"spend", "currency", "balance", "freeze", "record", "answer", "release", "decline"}

\* A request under way has the fields its next steps read, and a card that exists.
RequestInv ==
  \A r \in Requests :
    /\ pc[r] = "insert" => request[r].user \in Owners /\ request[r].currency \in Currencies
    /\ pc[r] \in Paying \cup {"update"} =>
         request[r].card \in CardIds /\ cards[request[r].card] \in CardRows
    /\ pc[r] \in Paying => /\ request[r].amount \in Amounts
                          /\ request[r].currency \in Currencies
                          /\ request[r].op \in {"authorize", "quote"}
    /\ pc[r] \in Paying \ {"spend", "currency"} => request[r].op = "authorize"
    /\ pc[r] \in {"insert", "update"} => request[r].op # "authorize"
    /\ pc[r] = "new" => request[r].op # "authorize"

\* Nothing is to be debited before there is a quote, the quote of a price that is
\* not negative covers the fee, and the account it was found in exists.
QuoteInv ==
  \A r \in Requests :
    /\ pc[r] \in {"new", "spend", "currency"} => quote[r].debit = 0
    /\ pc[r] \in {"balance", "freeze", "record", "answer", "release"} =>
         /\ quote[r].currency \in Currencies
         /\ quote[r].currency # request[r].currency /\ request[r].amount >= 0
              => quote[r].debit >= FixedFee
    /\ pc[r] \in {"freeze", "record", "release"} => WalletOf(r, quote[r].currency) \in Wallets

\* A recorded authorization is that of its request, which has got as far.
AuthInv ==
  \A a \in auths :
    /\ a.id \in Requests /\ request[a.id].op = "authorize"
    /\ a.card = request[a.id].card /\ a.amount = request[a.id].amount
    /\ a.status = "AUTH_APPROVED" =>
         /\ pc[a.id] \in {"answer", "served", "dead"}
         /\ a.id \in live
         /\ a.currency # request[a.id].currency /\ a.amount >= 0 => a.debit >= FixedFee
    /\ a.status # "AUTH_APPROVED" => pc[a.id] = "declined"

\* An approval that is told, or about to be, is recorded.
ServedInv ==
  \A r \in Requests :
    pc[r] = "answer" \/ (pc[r] = "served" /\ request[r].op = "authorize") => Approved(r)

\* A purchase under way found its card active at least once.
LiveInv ==
  \A r \in Requests :
    pc[r] \in Paying \ {"decline", "answer"} /\ request[r].op = "authorize" => r \in live

IInv == ShapeInv /\ RequestInv /\ QuoteInv /\ AuthInv /\ ServedInv /\ LiveInv

-----------------------------------------------------------------------------
LEMMA Divides ==
  \A a \in Int, b \in Nat \ {0} : a \div b \in Int /\ (a >= 0 => a \div b >= 0)
  OBVIOUS

LEMMA Products ==
  /\ \A a, b \in Int : a * b \in Int
  /\ \A a, b \in Nat : a * b \in Nat
  OBVIOUS

\* A purchase in another currency debits at least the fixed fee, if its price is
\* not negative.
LEMMA DebitCoversFee ==
  ASSUME NEW amount \in Amounts, NEW source \in UsdRates, NEW target \in UsdRates
  PROVE  /\ ForeignDebit(amount, PairRate(source, target)) \in Int
         /\ amount >= 0 => ForeignDebit(amount, PairRate(source, target)) >= FixedFee
<1>1. source \in Nat \ {0} /\ target \in Nat \ {0} /\ PairRate(source, target) > 0
  BY RateAssumption
<1>2. amount \in Int /\ Precision \in Nat /\ FixedFee \in Nat
  BY AmountAssumption, PrecisionAssumption
<1>3. 2 * target * Precision + source \in Nat /\ 2 * source \in Nat \ {0}
  BY <1>1, <1>2, Products
<1>4. PairRate(source, target) \in Nat \ {0}
  BY <1>1, <1>3, Divides DEF PairRate
<1>5. amount * Precision \in Int /\ (amount >= 0 => amount * Precision >= 0)
  BY <1>2, Products
<1>6. /\ SourceAmount(amount, PairRate(source, target)) \in Int
      /\ amount >= 0 => SourceAmount(amount, PairRate(source, target)) >= 0
  BY <1>4, <1>5, Divides DEF SourceAmount
<1> QED
  BY <1>2, <1>6 DEF ForeignDebit

LEMMA RowsHaveStatus == NoCard \notin CardRows /\ NoCard.status = "none"
  BY DEF NoCard, CardRows, None

-----------------------------------------------------------------------------
LEMMA InitIInv == Init => IInv
<1> SUFFICES ASSUME Init PROVE IInv
  OBVIOUS
<1>1. ShapeInv
  BY LimitAssumption, WalletAssumption
     DEF Init, ShapeInv, NewRow, Row, Labels, NoQuote, None
<1>2. RequestInv /\ QuoteInv /\ LiveInv /\ ServedInv
  BY DEF Init, RequestInv, QuoteInv, LiveInv, ServedInv, Paying, NoRequest, NoQuote, None
<1>3. AuthInv
  BY DEF Init, AuthInv
<1> QED
  BY <1>1, <1>2, <1>3 DEF IInv

\* The rows of cards change, but no card ever goes or changes hands.
CardsKept ==
  \A c \in CardIds : cards[c] \in CardRows =>
    cards'[c] \in CardRows /\ cards'[c].owner = cards[c].owner

\* A step of the tables alone leaves the requests where they are.
LEMMA TablesIInv ==
  ASSUME IInv, CardsKept, ShapeInv', UNCHANGED <<auths, pc, request, quote, live>>
  PROVE  IInv'
<1> USE DEF IInv
<1>1. RequestInv'
  BY DEF RequestInv, CardsKept
<1>2. \A r \in Requests : pc[r] \in Paying =>
        CardOf(r)' \in CardRows /\ CardOf(r)'.owner = CardOf(r).owner
  BY DEF RequestInv, CardsKept, CardOf
<1>3. QuoteInv'
  BY <1>2 DEF QuoteInv, WalletOf, Paying
<1>4. AuthInv' /\ ServedInv' /\ LiveInv'
  BY DEF AuthInv, ServedInv, LiveInv, Approved
<1> QED
  BY <1>1, <1>3, <1>4

LEMMA CreateVirtualIInv ==
  ASSUME IInv, NEW c \in CardIds, NEW owner \in Owners, NEW currency \in Currencies,
         CreateVirtualCard(c, owner, currency)
  PROVE  IInv'
<1> USE DEF CreateVirtualCard
<1>1. Card(owner, currency) \in CardRows
  BY DEF Card, CardRows, CardStatuses
<1>2. CardsKept
  BY RowsHaveStatus DEF CardsKept, IInv, ShapeInv
<1>3. ShapeInv'
  BY <1>1 DEF IInv, ShapeInv
<1> QED
  BY <1>2, <1>3, TablesIInv

LEMMA ReviewIInv ==
  ASSUME IInv, NEW c \in CardIds, NEW decision \in {"APPROVED", "REJECTED"},
         ReviewCardApplication(c, decision)
  PROVE  IInv'
<1> DEFINE row == [cards[c] EXCEPT !.status = ReviewedStatus(decision, @)]
<1>1. cards[c] \in CardRows
  BY DEF IInv, ShapeInv, ReviewCardApplication
<1>2. row \in CardRows /\ row.owner = cards[c].owner
  BY <1>1 DEF CardRows, CardStatuses, ReviewedStatus
<1>3. cards' = [cards EXCEPT ![c] = row]
  BY <1>1 DEF ReviewCardApplication, CardRows
<1> HIDE DEF row
<1>4. CardsKept
  BY <1>2, <1>3 DEF CardsKept, IInv, ShapeInv
<1>5. ShapeInv'
  BY <1>2, <1>3 DEF IInv, ShapeInv, ReviewCardApplication
<1> QED
  BY <1>4, <1>5, TablesIInv DEF ReviewCardApplication

LEMMA PaymentIInv ==
  ASSUME IInv, NEW w \in Wallets, NEW amount \in PaymentAmounts[w], PaymentStep(w, amount)
  PROVE  IInv'
<1>1. amount \in Int /\ accounts[w] \in Row /\ held[w] \in Int
  BY AmountAssumption DEF IInv, ShapeInv
<1>2. PICK row \in Row : PaymentSets(w, row)
  BY <1>1 DEF PaymentStep, PaymentFreezes, PaymentReleases, PaymentDebits, PaymentCredits,
              FreezeFunds, UnfreezeFunds, DebitAccount, CreditAccount, Row
<1>3. row.frozen \in Int /\ accounts[w].frozen \in Int
  BY <1>1 DEF Row
<1>4. ShapeInv'
  BY <1>1, <1>2, <1>3, LimitAssumption DEF IInv, ShapeInv, PaymentSets
<1>5. CardsKept
  BY <1>2 DEF CardsKept, PaymentSets
<1> QED
  BY <1>2, <1>4, <1>5, TablesIInv DEF PaymentSets

LEMMA CrashIInv ==
  ASSUME IInv, Crash
  PROVE  IInv'
<1> USE DEF IInv, Crash, tableVars
<1>1. \A r \in Requests :
        \/ pc'[r] = pc[r] /\ pc[r] \notin Running
        \/ pc'[r] \in {"stranded", "dead"} /\ pc[r] \in Running
        /\ (pc[r] = "answer" => pc'[r] = "dead")
  BY DEF ShapeInv, Running
<1>2. ShapeInv'
  BY LimitAssumption DEF ShapeInv, Labels, Running
<1>3. RequestInv' /\ QuoteInv' /\ LiveInv'
  BY <1>1 DEF RequestInv, QuoteInv, LiveInv, Paying, Running
<1>4. AuthInv'
  BY <1>1 DEF AuthInv, Running
<1>5. ServedInv'
  BY <1>1 DEF ServedInv, Approved
<1> QED
  BY <1>2, <1>3, <1>4, <1>5

-----------------------------------------------------------------------------
(* A request comes or takes a step *)

\* The next state of request r has what its label asks for, and no
\* authorization is recorded.
Arrives(r) ==
  /\ pc'[r] \notin {"new", "answer"}
  /\ pc'[r] = "served" => request'[r].op # "authorize"
  /\ pc'[r] = "insert" => request'[r].user \in Owners /\ request'[r].currency \in Currencies
  /\ pc'[r] \in Paying \cup {"update"} =>
       request'[r].card \in CardIds /\ cards'[request'[r].card] \in CardRows
  /\ pc'[r] \in Paying => /\ request'[r].amount \in Amounts
                          /\ request'[r].currency \in Currencies
                          /\ request'[r].op \in {"authorize", "quote"}
  /\ pc'[r] \in Paying \ {"spend", "currency"} => request'[r].op = "authorize"
  /\ pc'[r] \in {"insert", "update"} => request'[r].op # "authorize"
  /\ pc'[r] \in {"balance", "freeze", "record", "release"} =>
       /\ quote'[r].currency \in Currencies
       /\ quote'[r].currency # request'[r].currency /\ request'[r].amount >= 0
            => quote'[r].debit >= FixedFee
  /\ pc'[r] \in {"spend", "currency"} => quote'[r].debit = 0
  /\ pc'[r] \in {"freeze", "record", "release"} => WalletOf(r, quote[r].currency)' \in Wallets
  /\ pc'[r] \in Paying \ {"decline"} /\ request'[r].op = "authorize" => r \in live'

\* It leaves the other requests alone.
OthersKept(r) ==
  /\ \A q \in Requests \ {r} : /\ pc'[q] = pc[q] /\ request'[q] = request[q]
                               /\ quote'[q] = quote[q]
  /\ \A q \in live : q \in live'

LEMMA ArrivesIInv ==
  ASSUME IInv, NEW r \in Requests, Arrives(r), OthersKept(r), ShapeInv', CardsKept,
         UNCHANGED auths, \A a \in auths : a.id # r
  PROVE  IInv'
<1> USE DEF Arrives, OthersKept
<1>1. RequestInv'
  BY DEF IInv, RequestInv, CardsKept
<1>2. \A q \in Requests \ {r} : pc[q] \in Paying =>
        WalletOf(q, quote[q].currency)' = WalletOf(q, quote[q].currency)
  BY DEF IInv, RequestInv, CardsKept, CardOf, WalletOf
<1>3. QuoteInv'
  BY <1>2 DEF IInv, QuoteInv, Paying
<1>4. AuthInv'
  BY DEF IInv, AuthInv
<1>5. ServedInv'
  BY DEF IInv, ServedInv, Approved
<1>6. LiveInv'
  BY DEF IInv, LiveInv
<1> QED
  BY <1>1, <1>3, <1>4, <1>5, <1>6 DEF IInv

\* A request that is not told and has not approved has nothing in the books.
LEMMA NothingBooked ==
  ASSUME IInv, NEW r \in Requests, pc[r] \notin {"answer", "served", "dead", "declined"}
  PROVE  \A a \in auths : a.id # r
BY DEF IInv, AuthInv

LEMMA ApplyIInv ==
  ASSUME IInv, NEW r \in Requests, NEW owner \in Owners, NEW currency \in Currencies,
         ApplyForCard(r, owner, currency)
  PROVE  IInv'
<1> USE DEF ApplyForCard, tableVars
<1>1. PICK label \in {"insert", "refused"} : pc' = [pc EXCEPT ![r] = label]
  BY DEF Goto
<1>2. request' = [request EXCEPT ![r] = [op |-> "apply", user |-> owner, currency |-> currency]]
  OBVIOUS
<1>3. ShapeInv'
  BY <1>1, <1>2, LimitAssumption DEF IInv, ShapeInv, Labels, Running, Succeeds, Fails
<1>4. Arrives(r) /\ OthersKept(r)
  BY <1>1, <1>2 DEF IInv, ShapeInv, QuoteInv, Arrives, OthersKept, Paying
<1>5. CardsKept
  BY DEF CardsKept
<1> QED
  BY <1>3, <1>4, <1>5, ArrivesIInv, NothingBooked

LEMMA CreateIInv ==
  ASSUME IInv, NEW r \in Requests, CreateCard(r)
  PROVE  IInv'
<1> USE DEF CreateCard
<1>1. PICK label \in {"served", "refused"} : pc' = [pc EXCEPT ![r] = label]
  BY DEF Goto
<1>2. Card(request[r].user, request[r].currency) \in CardRows /\ request[r].op # "authorize"
  BY DEF IInv, RequestInv, Card, CardRows, CardStatuses
<1>3. cards' \in [CardIds -> CardRows \cup {NoCard}] /\ CardsKept
  BY <1>2, RowsHaveStatus DEF IInv, ShapeInv, CardsKept
<1>4. ShapeInv'
  BY <1>1, <1>3, LimitAssumption DEF IInv, ShapeInv, Labels, Running, Succeeds, Fails
<1>5. Arrives(r) /\ OthersKept(r)
  BY <1>1, <1>2 DEF IInv, ShapeInv, QuoteInv, Arrives, OthersKept, Paying
<1> QED
  BY <1>3, <1>4, <1>5, ArrivesIInv, NothingBooked

LEMMA GetIInv ==
  ASSUME IInv, NEW r \in Requests, NEW op \in {"cancel", "freeze", "unfreeze"},
         NEW user \in Owners, NEW c \in CardIds, GetCard(r, op, user, c)
  PROVE  IInv'
<1> USE DEF GetCard, tableVars
<1>1. PICK label \in {"update", "refused"} :
        pc' = [pc EXCEPT ![r] = label] /\ (label = "update" => cards[c] # NoCard)
  BY DEF Goto
<1>2. request' = [request EXCEPT ![r] = [op |-> op, user |-> user, card |-> c]]
  OBVIOUS
<1>3. ShapeInv'
  BY <1>1, <1>2, LimitAssumption DEF IInv, ShapeInv, Labels, Running, Succeeds, Fails
<1>4. Arrives(r) /\ OthersKept(r)
  BY <1>1, <1>2 DEF IInv, ShapeInv, QuoteInv, Arrives, OthersKept, Paying
<1>5. CardsKept
  BY DEF CardsKept
<1> QED
  BY <1>3, <1>4, <1>5, ArrivesIInv, NothingBooked

LEMMA UpdateIInv ==
  ASSUME IInv, NEW r \in Requests, UpdateCardStatus(r)
  PROVE  IInv'
<1> USE DEF UpdateCardStatus
<1> DEFINE c == request[r].card
           row == [cards[c] EXCEPT !.status = StatusAsked(request[r].op)]
<1>1. PICK label \in {"served", "refused"} : pc' = [pc EXCEPT ![r] = label]
  BY DEF Goto
<1>2. c \in CardIds /\ cards[c] \in CardRows /\ request[r].op # "authorize"
  BY DEF IInv, RequestInv
<1>3. row \in CardRows /\ row.owner = cards[c].owner
  BY <1>2 DEF CardRows, CardStatuses, StatusAsked
<1>4. cards' = cards \/ cards' = [cards EXCEPT ![c] = row]
  BY <1>2 DEF CardRows
<1>5. live \subseteq live' /\ live' \subseteq Requests
  BY DEF IInv, ShapeInv, Waiting
<1> HIDE DEF row, c
<1>6. cards' \in [CardIds -> CardRows \cup {NoCard}] /\ CardsKept
  BY <1>2, <1>3, <1>4 DEF IInv, ShapeInv, CardsKept
<1>7. ShapeInv'
  BY <1>1, <1>5, <1>6, LimitAssumption DEF IInv, ShapeInv, Labels, Running, Succeeds, Fails
<1>8. Arrives(r) /\ OthersKept(r)
  BY <1>1, <1>2, <1>5 DEF IInv, ShapeInv, QuoteInv, Arrives, OthersKept, Paying
<1> QED
  BY <1>6, <1>7, <1>8, ArrivesIInv, NothingBooked

LEMMA AuthorizeIInv ==
  ASSUME IInv, NEW r \in Requests, NEW c \in CardIds, NEW amount \in Amounts,
         NEW currency \in Currencies,
         Authorize(r, c, amount, currency) \/ AskQuote(r, c, amount, currency)
  PROVE  IInv'
<1> USE DEF Authorize, AskQuote, tableVars
<1>1. PICK op \in {"authorize", "quote"} :
        request' = [request EXCEPT ![r] = [op |-> op, card |-> c, amount |-> amount,
                                           currency |-> currency]]
  OBVIOUS
<1>2. PICK label \in {"refused", "decline", "spend"} :
        /\ pc' = [pc EXCEPT ![r] = label]
        /\ label # "refused" => cards[c] # NoCard
        /\ label = "decline" => request'[r].op = "authorize"
        /\ label = "spend" /\ request'[r].op = "authorize" => r \in live'
  BY DEF Goto, AfterToken, IsUsable, IInv, ShapeInv
<1>3. live \subseteq live' /\ live' \subseteq Requests
  BY DEF IInv, ShapeInv
<1>4. ShapeInv'
  BY <1>1, <1>2, <1>3, LimitAssumption DEF IInv, ShapeInv, Labels, Running, Succeeds, Fails
<1>5. Arrives(r) /\ OthersKept(r)
  BY <1>1, <1>2, <1>3 DEF IInv, ShapeInv, QuoteInv, Arrives, OthersKept, Paying
<1>6. CardsKept
  BY DEF CardsKept
<1> QED
  BY <1>4, <1>5, <1>6, ArrivesIInv, NothingBooked

LEMMA SpendIInv ==
  ASSUME IInv, NEW r \in Requests, SpendQuote(r)
  PROVE  IInv'
<1> USE DEF SpendQuote, tableVars
<1>1. PICK label \in {"currency", "refused", "decline"} :
        /\ pc' = [pc EXCEPT ![r] = label]
        /\ label = "decline" => request[r].op = "authorize"
  <2>1. WithoutQuote(r) \in {"refused", "decline"}
    BY DEF WithoutQuote
  <2>2. request[r].op # "quote" => request[r].op = "authorize"
    BY DEF IInv, RequestInv, Paying
  <2> QED
    BY <2>1, <2>2 DEF Goto, WithoutQuote
<1>2. ShapeInv'
  BY <1>1, LimitAssumption DEF IInv, ShapeInv, Labels, Running, Succeeds, Fails
<1>3. Arrives(r) /\ OthersKept(r)
  BY <1>1 DEF IInv, ShapeInv, RequestInv, QuoteInv, LiveInv, Arrives, OthersKept, Paying
<1>4. CardsKept
  BY DEF CardsKept
<1> QED
  BY <1>2, <1>3, <1>4, ArrivesIInv, NothingBooked

LEMMA SelectIInv ==
  ASSUME IInv, NEW r \in Requests, SelectDebitCurrency(r)
  PROVE  IInv'
<1> USE DEF SelectDebitCurrency, tableVars
<1>1. /\ request[r].amount \in Amounts /\ request[r].currency \in Currencies
      /\ request[r].op \in {"quote", "authorize"}
  BY DEF IInv, RequestInv, Paying
<1>2. PICK label \in {"served", "balance", "refused", "decline"} :
        /\ pc' = [pc EXCEPT ![r] = label]
        /\ label \in {"balance", "decline"} => request[r].op = "authorize"
        /\ label = "served" => request[r].op = "quote"
  BY <1>1 DEF Goto, WithoutQuote
<1>3. PICK q \in [debit: Int, currency: Currencies \cup {None}] :
        /\ quote' = [quote EXCEPT ![r] = q]
        /\ label = "balance" =>
             q.currency \in Currencies /\ (q.currency # request[r].currency /\ request[r].amount >= 0 => q.debit >= FixedFee)
  <2> DEFINE Enough(currency, debit) ==
    currency # request[r].currency /\ request[r].amount >= 0 => debit >= FixedFee
  <2>1. request[r].amount \in Int
    BY <1>1, AmountAssumption
  <2>2. \/ \E currency \in Currencies, debit \in Int :
             /\ Enough(currency, debit)
             /\ quote' = [quote EXCEPT ![r] = [debit |-> debit, currency |-> currency]]
        \/ UNCHANGED quote /\ Goto(r, WithoutQuote(r))
    BY <2>1, <1>1, DebitCoversFee
  <2>3. CASE UNCHANGED quote /\ Goto(r, WithoutQuote(r))
    <3>1. label # "balance"
      BY <1>2, <2>3 DEF Goto, WithoutQuote, IInv, ShapeInv
    <3>2. quote[r] \in [debit: Int, currency: Currencies \cup {None}]
          /\ quote' = [quote EXCEPT ![r] = quote[r]]
      BY <2>3 DEF IInv, ShapeInv
    <3> QED
      BY <3>1, <3>2
  <2>4. CASE \E currency \in Currencies, debit \in Int :
               /\ Enough(currency, debit)
               /\ quote' = [quote EXCEPT ![r] = [debit |-> debit, currency |-> currency]]
    <3>1. PICK currency \in Currencies, debit \in Int :
            /\ Enough(currency, debit)
            /\ quote' = [quote EXCEPT ![r] = [debit |-> debit, currency |-> currency]]
      BY <2>4
    <3>2. [debit |-> debit, currency |-> currency]
            \in [debit: Int, currency: Currencies \cup {None}]
      OBVIOUS
    <3> QED
      BY <3>1, <3>2
  <2> QED
    BY <2>2, <2>3, <2>4
<1>4. ShapeInv'
  BY <1>2, <1>3, LimitAssumption DEF IInv, ShapeInv, Labels, Running, Succeeds, Fails
<1>5. Arrives(r) /\ OthersKept(r)
  BY <1>1, <1>2, <1>3 DEF IInv, ShapeInv, RequestInv, QuoteInv, LiveInv, Arrives, OthersKept, Paying
<1>6. CardsKept
  BY DEF CardsKept
<1> QED
  BY <1>4, <1>5, <1>6, ArrivesIInv, NothingBooked

LEMMA BalanceIInv ==
  ASSUME IInv, NEW r \in Requests, CheckBalance(r)
  PROVE  IInv'
<1> USE DEF CheckBalance, tableVars
<1>1. PICK label \in {"freeze", "decline"} :
        /\ pc' = [pc EXCEPT ![r] = label]
        /\ label = "freeze" => WalletOf(r, quote[r].currency) \in Wallets
  BY DEF Goto, Affords
<1>2. request[r].op = "authorize"
  BY DEF IInv, RequestInv, Paying
<1>3. WalletOf(r, quote[r].currency)' = WalletOf(r, quote[r].currency)
  BY DEF WalletOf, CardOf
<1>4. ShapeInv'
  BY <1>1, LimitAssumption DEF IInv, ShapeInv, Labels, Running, Succeeds, Fails
<1>5. Arrives(r) /\ OthersKept(r)
  BY <1>1, <1>2, <1>3 DEF IInv, ShapeInv, RequestInv, QuoteInv, LiveInv, Arrives, OthersKept, Paying
<1>6. CardsKept
  BY DEF CardsKept
<1> QED
  BY <1>4, <1>5, <1>6, ArrivesIInv, NothingBooked

LEMMA FreezeIInv ==
  ASSUME IInv, NEW r \in Requests, FreezeForCard(r)
  PROVE  IInv'
<1> USE DEF FreezeForCard
<1> DEFINE w == WalletOf(r, quote[r].currency)
           row == FreezeFunds(accounts[w], quote[r].debit)
<1>1. PICK label \in {"record", "decline"} : pc' = [pc EXCEPT ![r] = label]
  BY DEF Goto
<1>2. /\ request[r].op = "authorize" /\ w \in Wallets
      /\ accounts[w] \in Row /\ quote[r].debit \in Int
  BY DEF IInv, RequestInv, QuoteInv, ShapeInv, Paying
<1>3. row \in Row
  BY <1>2 DEF Row, FreezeFunds
<1>4. accounts' = accounts \/ accounts' = [accounts EXCEPT ![w] = row]
  OBVIOUS
<1>5. WalletOf(r, quote[r].currency)' = w
  BY DEF WalletOf, CardOf
<1> HIDE DEF row
<1>6. accounts' \in [Wallets -> Row]
  BY <1>2, <1>3, <1>4 DEF IInv, ShapeInv
<1>7. ShapeInv'
  BY <1>1, <1>6, LimitAssumption DEF IInv, ShapeInv, Labels, Running, Succeeds, Fails
<1>8. Arrives(r) /\ OthersKept(r)
  BY <1>1, <1>2, <1>5 DEF IInv, ShapeInv, RequestInv, QuoteInv, LiveInv, Arrives, OthersKept, Paying
<1>9. CardsKept
  BY DEF CardsKept
<1> QED
  BY <1>6, <1>7, <1>8, <1>9, ArrivesIInv, NothingBooked

LEMMA ReleaseIInv ==
  ASSUME IInv, NEW r \in Requests, ReleaseFreeze(r)
  PROVE  IInv'
<1> USE DEF ReleaseFreeze
<1> DEFINE w == WalletOf(r, quote[r].currency)
           row == UnfreezeFunds(accounts[w], Released(r))
<1>1. PICK label \in {"refused", "stranded"} : pc' = [pc EXCEPT ![r] = label]
  BY DEF Goto
<1>2. w \in Wallets /\ accounts[w] \in Row /\ Released(r) \in Int
  BY DEF IInv, QuoteInv, ShapeInv, Released
<1>3. row \in Row
  BY <1>2 DEF Row, UnfreezeFunds
<1>4. accounts' = accounts \/ accounts' = [accounts EXCEPT ![w] = row]
  OBVIOUS
<1> HIDE DEF row
<1>5. accounts' \in [Wallets -> Row]
  BY <1>2, <1>3, <1>4 DEF IInv, ShapeInv
<1>6. ShapeInv'
  BY <1>1, <1>5, LimitAssumption DEF IInv, ShapeInv, Labels, Running, Succeeds, Fails
<1>7. Arrives(r) /\ OthersKept(r)
  BY <1>1 DEF IInv, ShapeInv, QuoteInv, Arrives, OthersKept, Paying
<1>8. CardsKept
  BY DEF CardsKept
<1> QED
  BY <1>5, <1>6, <1>7, <1>8, ArrivesIInv, NothingBooked

\* The authorization is recorded: the request has its freeze and its quote.
LEMMA RecordIInv ==
  ASSUME IInv, NEW r \in Requests, RecordAuthorization(r)
  PROVE  IInv'
<1> USE DEF RecordAuthorization
<1> DEFINE a == Approval(r)
<1>1. CASE UNCHANGED auths
  <2>1. PICK label \in {"release", "answer"} :
          pc' = [pc EXCEPT ![r] = label] /\ (label = "answer" => a \in auths)
    BY <1>1 DEF Goto, AfterRecordError
  <2>2. a.id = r
    BY DEF Approval, Authorization
  <2>3. pc' = [pc EXCEPT ![r] = "release"]
    BY <2>1, <2>2, NothingBooked
  <2>4. ShapeInv'
    BY <1>1, <2>3, LimitAssumption DEF IInv, ShapeInv, Labels, Running, Succeeds, Fails
  <2>5. WalletOf(r, quote[r].currency)' = WalletOf(r, quote[r].currency)
    BY DEF WalletOf, CardOf
  <2>6. Arrives(r) /\ OthersKept(r)
    BY <2>3, <2>5
       DEF IInv, ShapeInv, RequestInv, QuoteInv, LiveInv, Arrives, OthersKept, Paying
  <2>7. CardsKept
    BY DEF CardsKept
  <2> QED
    BY <1>1, <2>4, <2>6, <2>7, ArrivesIInv, NothingBooked
<1>2. CASE auths' = auths \cup {a} /\ pc' = [pc EXCEPT ![r] = "answer"]
  <2>1. /\ request[r].op = "authorize" /\ request[r].card \in CardIds
        /\ request[r].amount \in Amounts /\ r \in live
        /\ quote[r] \in [debit: Int, currency: Currencies \cup {None}]
        /\ quote[r].currency \in Currencies
        /\ quote[r].currency # request[r].currency /\ request[r].amount >= 0
             => quote[r].debit >= FixedFee
    BY DEF IInv, ShapeInv, RequestInv, QuoteInv, LiveInv, Paying
  <2>2. /\ a \in AuthRows /\ a.id = r /\ a.status = "AUTH_APPROVED"
        /\ a.card = request[r].card /\ a.amount = request[r].amount
        /\ a.currency = quote[r].currency /\ a.debit = quote[r].debit
    BY <2>1 DEF Approval, Authorization, AuthRows
  <2> HIDE DEF a
  <2>3. ShapeInv'
    BY <1>2, <2>2, LimitAssumption DEF IInv, ShapeInv, Labels, Running, Succeeds, Fails
  <2>4. RequestInv'
    BY <1>2 DEF IInv, ShapeInv, RequestInv, Paying
  <2>5. \A q \in Requests :
          WalletOf(q, quote[q].currency)' = WalletOf(q, quote[q].currency)
    BY DEF WalletOf, CardOf
  <2>6. QuoteInv'
    BY <1>2, <2>1, <2>5 DEF IInv, ShapeInv, QuoteInv
  <2>7. LiveInv'
    BY <1>2 DEF IInv, ShapeInv, LiveInv, Paying
  <2>8. AuthInv'
    BY <1>2, <2>1, <2>2 DEF IInv, ShapeInv, AuthInv
  <2>9. ServedInv'
    BY <1>2, <2>2 DEF IInv, ShapeInv, ServedInv, Approved
  <2> QED
    BY <2>3, <2>4, <2>6, <2>7, <2>8, <2>9 DEF IInv
<1> QED
  BY <1>1, <1>2 DEF Goto

LEMMA AnswerIInv ==
  ASSUME IInv, NEW r \in Requests, AnswerApproval(r)
  PROVE  IInv'
<1> USE DEF AnswerApproval, tableVars
<1>1. pc' = [pc EXCEPT ![r] = "served"] /\ Approved(r)
  BY DEF Goto, IInv, ServedInv
<1>2. ShapeInv'
  BY <1>1 DEF IInv, ShapeInv, Labels
<1>3. RequestInv' /\ LiveInv'
  BY <1>1 DEF IInv, ShapeInv, RequestInv, LiveInv, Paying
<1>4. \A q \in Requests :
        WalletOf(q, quote[q].currency)' = WalletOf(q, quote[q].currency)
  BY DEF WalletOf, CardOf
<1>5. QuoteInv'
  BY <1>1, <1>4 DEF IInv, ShapeInv, QuoteInv
<1>6. AuthInv' /\ ServedInv'
  BY <1>1 DEF IInv, ShapeInv, AuthInv, ServedInv, Approved
<1> QED
  BY <1>2, <1>3, <1>5, <1>6 DEF IInv

LEMMA DeclineIInv ==
  ASSUME IInv, NEW r \in Requests, DeclineAuth(r)
  PROVE  IInv'
<1> USE DEF DeclineAuth
<1> DEFINE a == Declined(r)
<1>1. pc' = [pc EXCEPT ![r] = "declined"] /\ (auths' = auths \/ auths' = auths \cup {a})
  BY DEF Goto
<1>2. /\ request[r].op = "authorize" /\ request[r].card \in CardIds
      /\ request[r].amount \in Amounts
  BY DEF IInv, RequestInv, Paying
<1>3. /\ a \in AuthRows /\ a.id = r /\ a.status = "AUTH_DECLINED"
      /\ a.card = request[r].card /\ a.amount = request[r].amount
  BY <1>2 DEF Declined, Authorization, NoQuote, AuthRows
<1> HIDE DEF a
<1>4. ShapeInv'
  BY <1>1, <1>3, LimitAssumption DEF IInv, ShapeInv, Labels, Running, Succeeds, Fails
<1>5. RequestInv' /\ LiveInv'
  BY <1>1 DEF IInv, ShapeInv, RequestInv, LiveInv, Paying
<1>6. \A q \in Requests :
        WalletOf(q, quote[q].currency)' = WalletOf(q, quote[q].currency)
  BY DEF WalletOf, CardOf
<1>7. QuoteInv'
  BY <1>1, <1>6 DEF IInv, ShapeInv, QuoteInv
<1>8. AuthInv'
  BY <1>1, <1>2, <1>3, NothingBooked DEF IInv, ShapeInv, AuthInv
<1>9. ServedInv'
  BY <1>1 DEF IInv, ShapeInv, ServedInv, Approved
<1> QED
  BY <1>4, <1>5, <1>7, <1>8, <1>9 DEF IInv

-----------------------------------------------------------------------------
LEMMA NextIInv == IInv /\ [Next]_vars => IInv'
<1> SUFFICES ASSUME IInv, [Next]_vars PROVE IInv'
  OBVIOUS
<1>1. CASE UNCHANGED vars
  <2>1. ShapeInv' /\ RequestInv'
    BY <1>1 DEF vars, IInv, ShapeInv, RequestInv
  <2>2. \A q \in Requests :
          WalletOf(q, quote[q].currency)' = WalletOf(q, quote[q].currency)
    BY <1>1 DEF vars, WalletOf, CardOf
  <2>3. QuoteInv' /\ AuthInv' /\ ServedInv' /\ LiveInv'
    BY <1>1, <2>2 DEF vars, IInv, QuoteInv, AuthInv, ServedInv, LiveInv, Approved
  <2> QED
    BY <2>1, <2>3 DEF IInv
<1>2. CASE Crash
  BY <1>2, CrashIInv
<1>3. ASSUME NEW r \in Requests, RequestStep(r) PROVE IInv'
  BY <1>3, CreateIInv, UpdateIInv, SpendIInv, SelectIInv, BalanceIInv, FreezeIInv, RecordIInv,
     AnswerIInv, ReleaseIInv, DeclineIInv DEF RequestStep
<1>4. ASSUME NEW r \in Requests, Arrival(r) PROVE IInv'
  BY <1>4, ApplyIInv, GetIInv, AuthorizeIInv DEF Arrival
<1> QED
  BY <1>1, <1>2, <1>3, <1>4, CreateVirtualIInv, ReviewIInv, PaymentIInv DEF Next

LEMMA InvariantIInv == Spec => []IInv
  BY InitIInv, NextIInv, PTL DEF Spec

-----------------------------------------------------------------------------
(* What is frozen: the requests that hold money, and what their quotes come *)
(* to, change with exactly the statements that change the accounts.         *)

\* There are finitely many holders at any time, their cards exist, and every
\* cent that is frozen is somebody's.
HoldInv ==
  /\ IsFiniteSet({ r \in Requests : Holding(r) })
  /\ \A r \in Requests : Holding(r) =>
       request[r].card \in CardIds /\ cards[request[r].card] \in CardRows
  /\ \A w \in Wallets : accounts[w].frozen = held[w] + HeldByCards(w)

\* The request of a step in which no other one gains, loses or changes a hold.
HoldsKept(Kept) ==
  \A q \in Kept : /\ Holding(q)' <=> Holding(q)
                  /\ Holding(q) => quote'[q] = quote[q] /\ request'[q] = request[q]

\* What can be said of the holders of a wallet and their quotes.
LEMMA HoldersAreFinite ==
  ASSUME IInv, HoldInv, NEW w
  PROVE  /\ IsFiniteSet(Holders(w))
         /\ \A r \in Holders(w) : Debits[r] \in Int
         /\ HeldByCards(w) \in Int
<1>1. IsFiniteSet(Holders(w))
  BY FS_Subset DEF HoldInv, Holders
<1>2. \A r \in Holders(w) : Debits[r] \in Int
  BY DEF Holders, Debits, IInv, ShapeInv
<1> QED BY <1>1, <1>2, SumInt DEF HeldByCards

\* Who keeps the hold keeps the wallet it is on.
LEMMA WalletsKept ==
  ASSUME IInv, HoldInv, CardsKept, NEW Kept \in SUBSET Requests, HoldsKept(Kept)
  PROVE  \A q \in Kept : Holding(q) =>
           /\ WalletOf(q, quote[q].currency)' = WalletOf(q, quote[q].currency)
           /\ request'[q].card \in CardIds /\ cards'[request'[q].card] \in CardRows
BY DEF HoldsKept, CardsKept, HoldInv, WalletOf, CardOf

\* A step that leaves every hold as it is.
LEMMA HoldersStay ==
  ASSUME IInv, HoldInv, CardsKept, HoldsKept(Requests),
         \A w \in Wallets : accounts'[w].frozen - held'[w] = accounts[w].frozen - held[w],
         IInv'
  PROVE  HoldInv'
<1>1. \A q \in Requests : Holding(q) =>
        /\ WalletOf(q, quote[q].currency)' = WalletOf(q, quote[q].currency)
        /\ request'[q].card \in CardIds /\ cards'[request'[q].card] \in CardRows
  BY WalletsKept
<1>2. { r \in Requests : Holding(r) }' = { r \in Requests : Holding(r) }
  BY DEF HoldsKept
<1>3. ASSUME NEW w \in Wallets
      PROVE  accounts'[w].frozen = held'[w] + HeldByCards(w)'
  <2>1. Holders(w)' = Holders(w)
    BY <1>1 DEF HoldsKept, Holders
  <2>2. \A r \in Holders(w) : Debits'[r] = Debits[r]
    BY DEF HoldsKept, Holders, Debits
  <2>3. HeldByCards(w)' = HeldByCards(w) /\ HeldByCards(w) \in Int
    <3>1. SumFunctionOnSet(Debits, Holders(w)) = SumFunctionOnSet(Debits', Holders(w))
      BY <2>2, HoldersAreFinite, SumSame
    <3> QED BY <2>1, <3>1, HoldersAreFinite DEF HeldByCards
  <2>4. /\ accounts[w].frozen \in Int /\ held[w] \in Int
        /\ accounts'[w].frozen \in Int /\ held'[w] \in Int
    BY DEF IInv, ShapeInv, Row
  <2>5. accounts[w].frozen = held[w] + HeldByCards(w)
    BY DEF HoldInv
  <2> QED BY <2>3, <2>4, <2>5
<1> QED BY <1>1, <1>2, <1>3 DEF HoldInv, HoldsKept

\* A request freezes what its quote says: it is one holder more.
LEMMA HolderAdded ==
  ASSUME IInv, HoldInv, IInv', CardsKept, NEW r \in Requests, HoldsKept(Requests \ {r}),
         ~ Holding(r), Holding(r)', UNCHANGED <<held, request, quote>>,
         request[r].card \in CardIds, cards[request[r].card] \in CardRows,
         WalletOf(r, quote[r].currency) \in Wallets,
         accounts' = [accounts EXCEPT ![WalletOf(r, quote[r].currency)] =
                                        FreezeFunds(@, quote[r].debit)]
  PROVE  HoldInv'
<1> DEFINE v == WalletOf(r, quote[r].currency)
<1>1. \A q \in Requests \ {r} : Holding(q) =>
        /\ WalletOf(q, quote[q].currency)' = WalletOf(q, quote[q].currency)
        /\ request'[q].card \in CardIds /\ cards'[request'[q].card] \in CardRows
  BY WalletsKept
<1>2. WalletOf(r, quote[r].currency)' = v /\ cards'[request'[r].card] \in CardRows
  BY DEF CardsKept, WalletOf, CardOf
<1>3. IsFiniteSet({ q \in Requests : Holding(q) }')
  <2>1. { q \in Requests : Holding(q) }' = { q \in Requests : Holding(q) } \cup {r}
    BY DEF HoldsKept
  <2> QED BY <2>1, FS_AddElement DEF HoldInv
<1>4. ASSUME NEW w \in Wallets
      PROVE  accounts'[w].frozen = held'[w] + HeldByCards(w)'
  <2>1. /\ accounts[w] \in Row /\ held[w] \in Int /\ quote[r].debit \in Int
        /\ accounts[w].frozen = held[w] + HeldByCards(w)
    BY DEF IInv, ShapeInv, HoldInv
  <2>2. /\ IsFiniteSet(Holders(w)) /\ HeldByCards(w) \in Int
        /\ \A q \in Holders(w) : Debits[q] \in Int
    BY HoldersAreFinite
  <2>3. Debits' = Debits /\ Debits[r] = quote[r].debit
    BY DEF Debits
  <2>4. CASE w = v
    <3>1. Holders(w)' = Holders(w) \cup {r} /\ r \notin Holders(w)
      BY <1>1, <1>2, <2>4 DEF HoldsKept, Holders
    <3>2. SumFunctionOnSet(Debits, Holders(w) \cup {r})
            = SumFunctionOnSet(Debits, Holders(w)) + Debits[r]
      BY <2>1, <2>2, <2>3, <3>1, SumAdd
    <3>3. HeldByCards(w)' = HeldByCards(w) + quote[r].debit
      BY <2>3, <3>1, <3>2 DEF HeldByCards
    <3>4. accounts'[w].frozen = accounts[w].frozen + quote[r].debit
      BY <2>4 DEF FreezeFunds, IInv, ShapeInv
    <3> QED BY <2>1, <2>2, <3>3, <3>4
  <2>5. CASE w # v
    <3>1. Holders(w)' = Holders(w)
      BY <1>1, <1>2, <2>5 DEF HoldsKept, Holders
    <3>2. HeldByCards(w)' = HeldByCards(w)
      BY <2>3, <3>1 DEF HeldByCards
    <3>3. accounts'[w] = accounts[w]
      BY <2>5 DEF IInv, ShapeInv
    <3> QED BY <2>1, <3>2, <3>3
  <2> QED BY <2>4, <2>5
<1> QED BY <1>1, <1>2, <1>3, <1>4 DEF HoldInv, HoldsKept

\* A request gives back what its quote says: it is one holder fewer.
LEMMA HolderRemoved ==
  ASSUME IInv, HoldInv, IInv', CardsKept, NEW r \in Requests, HoldsKept(Requests \ {r}),
         Holding(r), ~ Holding(r)', UNCHANGED <<held, request, quote>>,
         WalletOf(r, quote[r].currency) \in Wallets,
         accounts' = [accounts EXCEPT ![WalletOf(r, quote[r].currency)] =
                                        UnfreezeFunds(@, quote[r].debit)]
  PROVE  HoldInv'
<1> DEFINE v == WalletOf(r, quote[r].currency)
<1>1. \A q \in Requests \ {r} : Holding(q) =>
        /\ WalletOf(q, quote[q].currency)' = WalletOf(q, quote[q].currency)
        /\ request'[q].card \in CardIds /\ cards'[request'[q].card] \in CardRows
  BY WalletsKept
<1>2. IsFiniteSet({ q \in Requests : Holding(q) }')
  <2>1. { q \in Requests : Holding(q) }' = { q \in Requests : Holding(q) } \ {r}
    BY DEF HoldsKept
  <2> QED BY <2>1, FS_RemoveElement DEF HoldInv
<1>3. ASSUME NEW w \in Wallets
      PROVE  accounts'[w].frozen = held'[w] + HeldByCards(w)'
  <2>1. /\ accounts[w] \in Row /\ held[w] \in Int /\ quote[r].debit \in Int
        /\ accounts[w].frozen = held[w] + HeldByCards(w)
    BY DEF IInv, ShapeInv, HoldInv
  <2>2. /\ IsFiniteSet(Holders(w)) /\ HeldByCards(w) \in Int
        /\ \A q \in Holders(w) : Debits[q] \in Int
    BY HoldersAreFinite
  <2>3. Debits' = Debits /\ Debits[r] = quote[r].debit
    BY DEF Debits
  <2>4. CASE w = v
    <3>1. Holders(w)' = Holders(w) \ {r} /\ r \in Holders(w)
      BY <1>1, <2>4 DEF HoldsKept, Holders
    <3>2. SumFunctionOnSet(Debits, Holders(w))
            = Debits[r] + SumFunctionOnSet(Debits, Holders(w) \ {r})
      BY <2>2, <3>1, SumRemove
    <3>3. HeldByCards(w) = quote[r].debit + HeldByCards(w)'
      BY <2>3, <3>1, <3>2 DEF HeldByCards
    <3>4. accounts'[w].frozen = accounts[w].frozen - quote[r].debit
      BY <2>4 DEF UnfreezeFunds, IInv, ShapeInv
    <3>5. HeldByCards(w)' \in Int
      <4>1. IsFiniteSet(Holders(w) \ {r})
        BY <2>2, FS_RemoveElement
      <4> QED BY <2>2, <2>3, <3>1, <4>1, SumInt DEF HeldByCards
    <3> QED BY <2>1, <2>2, <3>3, <3>4, <3>5
  <2>5. CASE w # v
    <3>1. Holders(w)' = Holders(w)
      BY <1>1, <2>5 DEF HoldsKept, Holders
    <3>2. HeldByCards(w)' = HeldByCards(w)
      BY <2>3, <3>1 DEF HeldByCards
    <3>3. accounts'[w] = accounts[w]
      BY <2>5 DEF IInv, ShapeInv
    <3> QED BY <2>1, <3>2, <3>3
  <2> QED BY <2>4, <2>5
<1> QED BY <1>1, <1>2, <1>3 DEF HoldInv, HoldsKept

\* No step takes a card away or gives it to somebody else.
LEMMA NextKeepsCards ==
  ASSUME IInv, [Next]_vars
  PROVE  CardsKept
<1>1. ASSUME NEW c \in CardIds, NEW owner \in Owners, NEW currency \in Currencies,
             CreateVirtualCard(c, owner, currency)
      PROVE  CardsKept
  BY <1>1, RowsHaveStatus DEF CreateVirtualCard, CardsKept, IInv, ShapeInv
<1>2. ASSUME NEW c \in CardIds, NEW status \in CardStatuses, cards[c] \in CardRows,
             cards' = [cards EXCEPT ![c].status = status]
      PROVE  CardsKept
  BY <1>2 DEF CardsKept, IInv, ShapeInv, CardRows
<1>3. ASSUME NEW c \in CardIds, NEW decision \in {"APPROVED", "REJECTED"},
             ReviewCardApplication(c, decision)
      PROVE  CardsKept
  <2>1. cards[c] \in CardRows
    BY <1>3 DEF IInv, ShapeInv, ReviewCardApplication
  <2>2. ReviewedStatus(decision, cards[c].status) \in CardStatuses
    BY <2>1 DEF ReviewedStatus, CardRows, CardStatuses
  <2> QED BY <1>2, <1>3, <2>1, <2>2 DEF ReviewCardApplication
<1>4. ASSUME NEW r \in Requests, CreateCard(r) PROVE CardsKept
  <2>1. \A c \in CardIds : cards[c] = NoCard => cards[c] \notin CardRows
    BY RowsHaveStatus
  <2> QED BY <1>4, <2>1 DEF CreateCard, CardsKept, IInv, ShapeInv
<1>5. ASSUME NEW r \in Requests, UpdateCardStatus(r) PROVE CardsKept
  <2>1. request[r].card \in CardIds /\ cards[request[r].card] \in CardRows
    BY <1>5 DEF UpdateCardStatus, IInv, RequestInv
  <2>2. StatusAsked(request[r].op) \in CardStatuses
    BY DEF StatusAsked, CardStatuses
  <2>3. CASE UNCHANGED cards
    BY <2>3 DEF CardsKept
  <2> QED BY <1>2, <1>5, <2>1, <2>2, <2>3 DEF UpdateCardStatus
<1>6. CASE UNCHANGED cards
  BY <1>6 DEF CardsKept
<1>7. ASSUME NEW r \in Requests, Arrival(r) PROVE CardsKept
  BY <1>6, <1>7 DEF Arrival, ApplyForCard, GetCard, Authorize, AskQuote, tableVars
<1>8. ASSUME NEW r \in Requests, RequestStep(r) PROVE CardsKept
  BY <1>4, <1>5, <1>6, <1>8
     DEF RequestStep, SpendQuote, SelectDebitCurrency, CheckBalance, FreezeForCard,
         RecordAuthorization, AnswerApproval, ReleaseFreeze, DeclineAuth, tableVars
<1>9. CASE Crash \/ UNCHANGED vars
  BY <1>6, <1>9 DEF Crash, vars, tableVars
<1>10. ASSUME NEW w \in Wallets, NEW amount \in PaymentAmounts[w], PaymentStep(w, amount)
       PROVE  CardsKept
  BY <1>6, <1>10 DEF PaymentStep, PaymentFreezes, PaymentReleases, PaymentDebits,
                     PaymentCredits, PaymentSets
<1> QED BY <1>1, <1>3, <1>7, <1>8, <1>9, <1>10 DEF Next

\* A request that neither holds money nor comes to hold any, and books no approval.
LEMMA StepWithoutHold ==
  ASSUME IInv, NEW r \in Requests,
         pc[r] \notin {"answer", "served", "dead", "declined", "record", "release", "stranded"},
         pc'[r] \notin {"record", "release", "stranded"},
         \A q \in Requests : Approved(q)' <=> Approved(q),
         \A q \in Requests \ {r} : /\ pc'[q] = pc[q]
                                   /\ quote'[q] = quote[q] /\ request'[q] = request[q]
  PROVE  HoldsKept(Requests)
<1>1. ~ Holding(r)
  BY NothingBooked DEF Holding, Approved
<1>2. ~ Holding(r)'
  BY <1>1 DEF Holding
<1>3. \A q \in Requests \ {r} : Holding(q)' <=> Holding(q)
  BY DEF Holding
<1> QED BY <1>1, <1>2, <1>3 DEF HoldsKept

\* The approvals in the books are those of the rows in them.
LEMMA SameBooks ==
  ASSUME UNCHANGED auths
  PROVE  \A q \in Requests : Approved(q)' <=> Approved(q)
BY DEF Approved

LEMMA ArrivalHolds ==
  ASSUME IInv, NEW r \in Requests, Arrival(r)
  PROVE  HoldsKept(Requests) /\ UNCHANGED <<accounts, held>>
<1>1. /\ pc[r] = "new" /\ UNCHANGED <<accounts, held, auths, quote>>
      /\ \E label \in {"insert", "update", "refused", "decline", "spend"} :
           pc' = [pc EXCEPT ![r] = label]
      /\ \E row : request' = [request EXCEPT ![r] = row]
  <2>1. ASSUME NEW c \in CardIds, NEW amount \in Amounts
        PROVE  AfterToken(cards[c], amount) \in {"refused", "decline", "spend"}
    BY DEF AfterToken
  <2> QED BY <2>1 DEF Arrival, ApplyForCard, GetCard, Authorize, AskQuote, tableVars, Goto
<1>2. \A q \in Requests \ {r} : quote'[q] = quote[q] /\ request'[q] = request[q]
  BY <1>1 DEF IInv, ShapeInv
<1>3. PICK label \in {"insert", "update", "refused", "decline", "spend"} :
        pc' = [pc EXCEPT ![r] = label]
  BY <1>1
<1>4. \A q \in Requests : Approved(q)' <=> Approved(q)
  BY <1>1, SameBooks
<1>5. pc'[r] = label /\ \A q \in Requests \ {r} : pc'[q] = pc[q]
  BY <1>3 DEF IInv, ShapeInv
<1>6. HoldsKept(Requests)
  BY <1>1, <1>2, <1>4, <1>5, StepWithoutHold
<1> QED BY <1>1, <1>6

\* The steps of a request that neither freeze, release nor record anything.
LEMMA PlainStepHolds ==
  ASSUME IInv, NEW r \in Requests,
         \/ CreateCard(r) \/ UpdateCardStatus(r) \/ SpendQuote(r) \/ SelectDebitCurrency(r)
         \/ CheckBalance(r)
  PROVE  HoldsKept(Requests) /\ UNCHANGED <<accounts, held>>
<1>1. /\ pc[r] \in {"insert", "update", "spend", "currency", "balance"}
      /\ UNCHANGED <<accounts, held, auths, request>>
      /\ \E label \in {"served", "refused", "currency", "decline", "balance", "freeze"} :
           pc' = [pc EXCEPT ![r] = label]
  <2>1. WithoutQuote(r) \in {"refused", "decline"}
    BY DEF WithoutQuote
  <2>2. CASE CreateCard(r) \/ UpdateCardStatus(r)
    BY <2>2 DEF CreateCard, UpdateCardStatus, Goto
  <2>3. CASE SpendQuote(r) \/ CheckBalance(r)
    BY <2>1, <2>3 DEF SpendQuote, CheckBalance, tableVars, Goto
  <2>4. CASE SelectDebitCurrency(r)
    BY <2>1, <2>4 DEF SelectDebitCurrency, tableVars, Goto
  <2> QED BY <2>2, <2>3, <2>4
<1>2. \A q \in Requests \ {r} : quote'[q] = quote[q]
  <2>1. CASE SelectDebitCurrency(r)
    <3>1. quote' = quote \/ \E row : quote' = [quote EXCEPT ![r] = row]
      BY <2>1 DEF SelectDebitCurrency
    <3> QED BY <3>1 DEF IInv, ShapeInv
  <2> QED
    BY <2>1 DEF CreateCard, UpdateCardStatus, SpendQuote, CheckBalance, tableVars
<1>3. PICK label \in {"served", "refused", "currency", "decline", "balance", "freeze"} :
        pc' = [pc EXCEPT ![r] = label]
  BY <1>1
<1>4. \A q \in Requests : Approved(q)' <=> Approved(q)
  BY <1>1, SameBooks
<1>5. pc'[r] = label /\ \A q \in Requests \ {r} : pc'[q] = pc[q]
  BY <1>3 DEF IInv, ShapeInv
<1>6. HoldsKept(Requests)
  BY <1>1, <1>2, <1>4, <1>5, StepWithoutHold
<1> QED BY <1>1, <1>6

LEMMA FreezeHolds ==
  ASSUME IInv, HoldInv, IInv', CardsKept, NEW r \in Requests, FreezeForCard(r)
  PROVE  HoldInv'
<1>1. ~ Approved(r) /\ (\A q \in Requests : Approved(q)' <=> Approved(q))
  BY NothingBooked, SameBooks DEF FreezeForCard, Approved
<1>2. UNCHANGED <<held, request, quote>>
  BY DEF FreezeForCard
<1>3. CASE UNCHANGED accounts /\ Goto(r, "decline")
  <2>1. /\ pc[r] = "freeze" /\ pc'[r] = "decline"
        /\ \A q \in Requests \ {r} : pc'[q] = pc[q]
    BY <1>3 DEF FreezeForCard, Goto, IInv, ShapeInv
  <2>2. HoldsKept(Requests)
    BY <1>1, <1>2, <2>1, StepWithoutHold
  <2> QED BY <1>2, <1>3, <2>2, HoldersStay
<1>4. CASE /\ accounts' = [accounts EXCEPT ![WalletOf(r, quote[r].currency)] =
                                              FreezeFunds(@, quote[r].debit)]
           /\ Goto(r, "record")
  <2>1. HoldsKept(Requests \ {r}) /\ ~ Holding(r) /\ Holding(r)'
    BY <1>1, <1>2, <1>4 DEF HoldsKept, Holding, FreezeForCard, Goto, IInv, ShapeInv
  <2>2. /\ request[r].card \in CardIds /\ cards[request[r].card] \in CardRows
        /\ WalletOf(r, quote[r].currency) \in Wallets
    BY DEF FreezeForCard, IInv, RequestInv, QuoteInv, Paying
  <2> QED BY <1>2, <1>4, <2>1, <2>2, HolderAdded
<1> QED BY <1>3, <1>4 DEF FreezeForCard

LEMMA ReleaseHolds ==
  ASSUME IInv, HoldInv, IInv', CardsKept, NEW r \in Requests, ReleaseFreeze(r)
  PROVE  HoldInv'
<1>1. ~ Approved(r) /\ (\A q \in Requests : Approved(q)' <=> Approved(q))
  BY NothingBooked, SameBooks DEF ReleaseFreeze, Approved
<1>2. UNCHANGED <<held, request, quote>> /\ pc[r] = "release"
  BY DEF ReleaseFreeze
<1>3. CASE UNCHANGED accounts /\ Goto(r, "stranded")
  <2>1. HoldsKept(Requests)
    BY <1>1, <1>2, <1>3 DEF HoldsKept, Holding, Goto, IInv, ShapeInv
  <2> QED BY <1>2, <1>3, <2>1, HoldersStay
<1>4. CASE /\ accounts' = [accounts EXCEPT ![WalletOf(r, quote[r].currency)] =
                                              UnfreezeFunds(@, quote[r].debit)]
           /\ Goto(r, "refused")
  <2>1. HoldsKept(Requests \ {r}) /\ Holding(r) /\ ~ Holding(r)'
    BY <1>1, <1>2, <1>4 DEF HoldsKept, Holding, Goto, IInv, ShapeInv
  <2>2. WalletOf(r, quote[r].currency) \in Wallets
    BY <1>2 DEF IInv, QuoteInv
  <2> QED BY <1>2, <1>4, <2>1, <2>2, HolderRemoved
<1> QED BY <1>3, <1>4 DEF ReleaseFreeze, Released

\* An approval that is recorded holds what was frozen before; a declined
\* purchase that is recorded holds nothing.
LEMMA BookingHolds ==
  ASSUME IInv, NEW r \in Requests, RecordAuthorization(r) \/ AnswerApproval(r) \/ DeclineAuth(r)
  PROVE  HoldsKept(Requests) /\ UNCHANGED <<accounts, held>>
<1>1. CASE RecordAuthorization(r)
  <2> USE DEF RecordAuthorization
  <2>1. Approval(r).id = r /\ Approval(r).status = "AUTH_APPROVED"
    BY DEF Approval, Authorization
  <2>2. \A q \in Requests \ {r} : Approved(q)' <=> Approved(q)
    BY <1>1, <2>1 DEF Approved
  <2>3. Holding(r) /\ Holding(r)'
    BY <1>1, <2>1 DEF Holding, Approved, Goto, AfterRecordError, IInv, ShapeInv
  <2>4. \A q \in Requests \ {r} : Holding(q)' <=> Holding(q)
    BY <1>1, <2>2 DEF Holding, Goto, IInv, ShapeInv
  <2> QED BY <1>1, <2>3, <2>4 DEF HoldsKept
<1>2. CASE AnswerApproval(r)
  <2>1. \A q \in Requests : Approved(q)' <=> Approved(q)
    BY <1>2, SameBooks DEF AnswerApproval, tableVars
  <2>2. \A q \in Requests : Holding(q)' <=> Holding(q)
    BY <1>2, <2>1 DEF Holding, AnswerApproval, Goto, IInv, ShapeInv
  <2> QED BY <1>2, <2>2 DEF HoldsKept, AnswerApproval, tableVars
<1>3. CASE DeclineAuth(r)
  <2> USE DEF DeclineAuth
  <2>1. Declined(r).status = "AUTH_DECLINED"
    BY DEF Declined, Authorization
  <2>2. \A q \in Requests : Approved(q)' <=> Approved(q)
    BY <1>3, <2>1 DEF Approved
  <2>3. /\ pc[r] = "decline" /\ pc'[r] = "declined" /\ UNCHANGED <<request, quote>>
        /\ \A q \in Requests \ {r} : pc'[q] = pc[q]
    BY <1>3 DEF Goto, IInv, ShapeInv
  <2> HIDE DEF DeclineAuth
  <2>4. HoldsKept(Requests)
    BY <2>2, <2>3, StepWithoutHold
  <2> QED BY <1>3, <2>4 DEF DeclineAuth
<1> QED BY <1>1, <1>2, <1>3

\* Who dies with money frozen is stranded, and who dies told or not of an
\* approval has it in the books.
LEMMA CrashHolds ==
  ASSUME IInv, Crash
  PROVE  HoldsKept(Requests) /\ UNCHANGED <<accounts, held>>
<1>1. \A q \in Requests : Approved(q)' <=> Approved(q)
  BY SameBooks DEF Crash, tableVars
<1>2. \A q \in Requests :
        pc'[q] \in {"record", "release", "stranded"}
          <=> pc[q] \in {"record", "release", "stranded"}
  BY DEF Crash, Running
<1> QED BY <1>1, <1>2 DEF HoldsKept, Holding, Crash, tableVars

LEMMA PaymentHolds ==
  ASSUME IInv, NEW w \in Wallets, NEW amount \in PaymentAmounts[w], PaymentStep(w, amount)
  PROVE  /\ HoldsKept(Requests)
         /\ \A v \in Wallets : accounts'[v].frozen - held'[v] = accounts[v].frozen - held[v]
<1>1. PICK row \in Row : PaymentSets(w, row)
  <2>1. amount \in Int /\ accounts[w] \in Row
    BY AmountAssumption DEF IInv, ShapeInv
  <2> QED
    BY <2>1 DEF PaymentStep, PaymentFreezes, PaymentReleases, PaymentDebits, PaymentCredits,
                FreezeFunds, UnfreezeFunds, DebitAccount, CreditAccount, Row
<1>2. \A q \in Requests : Approved(q)' <=> Approved(q)
  BY <1>1, SameBooks DEF PaymentSets
<1>3. HoldsKept(Requests)
  BY <1>1, <1>2 DEF HoldsKept, Holding, PaymentSets
<1>4. accounts[w].frozen \in Int /\ row.frozen \in Int /\ held[w] \in Int
  BY DEF IInv, ShapeInv, Row
<1>5. accounts'[w].frozen - held'[w] = accounts[w].frozen - held[w]
  BY <1>1, <1>4 DEF IInv, ShapeInv, PaymentSets
<1>6. \A v \in Wallets \ {w} : accounts'[v] = accounts[v] /\ held'[v] = held[v]
  BY <1>1 DEF IInv, ShapeInv, PaymentSets
<1> QED BY <1>3, <1>5, <1>6

LEMMA InitHoldInv == Init => HoldInv
<1> SUFFICES ASSUME Init PROVE HoldInv
  OBVIOUS
<1>1. \A r \in Requests : ~ Holding(r)
  BY DEF Init, Holding, Approved
<1>2. { r \in Requests : Holding(r) } = {} /\ \A w \in Wallets : Holders(w) = {}
  BY <1>1 DEF Holders
<1>3. \A w \in Wallets : HeldByCards(w) = 0
  BY <1>2, SumEmpty DEF HeldByCards
<1>4. \A w \in Wallets : accounts[w].frozen = held[w] + HeldByCards(w)
  BY <1>3 DEF Init, NewRow
<1> QED BY <1>1, <1>2, <1>4, FS_EmptySet DEF HoldInv

LEMMA NextHoldInv ==
  ASSUME IInv, HoldInv, [Next]_vars
  PROVE  HoldInv'
<1>1. IInv' /\ CardsKept
  BY NextIInv, NextKeepsCards
<1>2. ASSUME HoldsKept(Requests), UNCHANGED <<accounts, held>> PROVE HoldInv'
  BY <1>1, <1>2, HoldersStay
<1>4. ASSUME UNCHANGED <<accounts, held, auths, pc, request, quote>> PROVE HoldInv'
  BY <1>2, <1>4 DEF HoldsKept, Holding, Approved
<1>5. ASSUME NEW w \in Wallets, NEW amount \in PaymentAmounts[w], PaymentStep(w, amount)
      PROVE  HoldInv'
  BY <1>1, <1>5, PaymentHolds, HoldersStay
<1>6. ASSUME NEW r \in Requests, RequestStep(r) PROVE HoldInv'
  BY <1>1, <1>2, <1>6, PlainStepHolds, FreezeHolds, ReleaseHolds, BookingHolds DEF RequestStep
<1>7. ASSUME NEW r \in Requests, Arrival(r) PROVE HoldInv'
  BY <1>2, <1>7, ArrivalHolds
<1>8. CASE Crash
  BY <1>2, <1>8, CrashHolds
<1> QED
  BY <1>4, <1>5, <1>6, <1>7, <1>8 DEF Next, CreateVirtualCard, ReviewCardApplication, vars

-----------------------------------------------------------------------------
(* Balances.  An account is regular for as long as no negative amount is    *)
(* asked of it, and for as long it is not overdrawn.                        *)

BalanceInv == \A w \in Wallets : Regular(w) => accounts[w].available >= 0

\* What is to be debited changes only from nothing, so an account that is still
\* regular after a step was so before.
LEMMA RegularBefore ==
  ASSUME IInv, [Next]_vars, NEW w \in Wallets, Regular(w)'
  PROVE  Regular(w)
<1>1. ASSUME \A r \in Requests : request[r].op = "authorize" =>
               /\ request'[r].op = "authorize"
               /\ quote'[r] = quote[r] \/ quote[r].debit = 0
      PROVE  Regular(w)
  BY <1>1 DEF Regular
<1>2. CASE UNCHANGED <<request, quote>>
  BY <1>1, <1>2
<1>3. ASSUME NEW r \in Requests, Arrival(r) PROVE Regular(w)
  <2>1. UNCHANGED quote /\ \E row : request' = [request EXCEPT ![r] = row]
    BY <1>3 DEF Arrival, ApplyForCard, GetCard, Authorize, AskQuote, tableVars
  <2>2. request[r].op # "authorize"
    BY <1>3 DEF Arrival, ApplyForCard, GetCard, Authorize, AskQuote, IInv, RequestInv
  <2>3. \A q \in Requests \ {r} : request'[q] = request[q]
    BY <2>1 DEF IInv, ShapeInv
  <2> QED BY <1>1, <2>1, <2>2, <2>3
<1>4. ASSUME NEW r \in Requests, SelectDebitCurrency(r) PROVE Regular(w)
  <2>1. UNCHANGED request /\ quote[r].debit = 0
    BY <1>4 DEF SelectDebitCurrency, IInv, QuoteInv
  <2>2. \A q \in Requests \ {r} : quote'[q] = quote[q]
    <3>1. quote' = quote \/ \E row : quote' = [quote EXCEPT ![r] = row]
      BY <1>4 DEF SelectDebitCurrency
    <3> QED BY <3>1 DEF IInv, ShapeInv
  <2> QED BY <1>1, <2>1, <2>2
<1>5. ASSUME NEW r \in Requests, RequestStep(r) PROVE Regular(w)
  BY <1>2, <1>4, <1>5
     DEF RequestStep, CreateCard, UpdateCardStatus, SpendQuote, CheckBalance, FreezeForCard,
         RecordAuthorization, AnswerApproval, ReleaseFreeze, DeclineAuth, tableVars
<1>6. ASSUME NEW v \in Wallets, NEW amount \in PaymentAmounts[v], PaymentStep(v, amount)
      PROVE  Regular(w)
  BY <1>2, <1>6 DEF PaymentStep, PaymentFreezes, PaymentReleases, PaymentDebits,
                    PaymentCredits, PaymentSets
<1>7. CASE Crash \/ UNCHANGED vars
  BY <1>2, <1>7 DEF Crash, vars
<1> QED
  BY <1>2, <1>3, <1>5, <1>6, <1>7 DEF Next, CreateVirtualCard, ReviewCardApplication

\* A statement on one account leaves the others, and this one not overdrawn.
LEMMA OneRowBalance ==
  ASSUME IInv, BalanceInv, [Next]_vars, NEW v \in Wallets, NEW row \in Row,
         accounts' = [accounts EXCEPT ![v] = row],
         Regular(v) => row.available >= 0
  PROVE  BalanceInv'
<1> SUFFICES ASSUME NEW w \in Wallets, Regular(w)' PROVE accounts'[w].available >= 0
  BY DEF BalanceInv
<1>1. Regular(w)
  BY RegularBefore
<1>2. CASE w = v
  BY <1>1, <1>2 DEF IInv, ShapeInv
<1>3. CASE w # v
  BY <1>1, <1>3 DEF IInv, ShapeInv, BalanceInv
<1> QED BY <1>2, <1>3

LEMMA NextBalanceInv ==
  ASSUME IInv, BalanceInv, [Next]_vars
  PROVE  BalanceInv'
<1>1. CASE UNCHANGED accounts
  BY <1>1, RegularBefore DEF BalanceInv
<1>2. ASSUME NEW r \in Requests, FreezeForCard(r) PROVE BalanceInv'
  <2> DEFINE v == WalletOf(r, quote[r].currency)
             row == FreezeFunds(accounts[v], quote[r].debit)
  <2>1. v \in Wallets /\ accounts[v] \in Row /\ quote[r].debit \in Int
    BY <1>2 DEF FreezeForCard, IInv, ShapeInv, QuoteInv
  <2>2. CASE CanDebit(accounts[v], quote[r].debit) /\ accounts' = [accounts EXCEPT ![v] = row]
    <3>1. row \in Row /\ row.available >= 0
      BY <2>1, <2>2 DEF FreezeFunds, CanDebit, Row
    <3> HIDE DEF v, row
    <3> QED BY <2>1, <2>2, <3>1, OneRowBalance
  <2> QED BY <1>1, <1>2, <2>2 DEF FreezeForCard
<1>3. ASSUME NEW r \in Requests, ReleaseFreeze(r) PROVE BalanceInv'
  <2> DEFINE v == WalletOf(r, quote[r].currency)
             row == UnfreezeFunds(accounts[v], quote[r].debit)
  <2>1. /\ v \in Wallets /\ accounts[v] \in Row /\ quote[r].debit \in Int
        /\ request[r].op = "authorize"
    BY <1>3 DEF ReleaseFreeze, IInv, ShapeInv, QuoteInv, RequestInv, Paying
  <2>2. CASE accounts' = [accounts EXCEPT ![v] = row]
    <3>1. row \in Row /\ (Regular(v) => row.available >= 0)
      <4>1. Regular(v) => accounts[v].available >= 0 /\ quote[r].debit >= 0
        BY <2>1 DEF Regular, BalanceInv
      <4> QED BY <2>1, <4>1 DEF UnfreezeFunds, Row
    <3> HIDE DEF v, row
    <3> QED BY <2>1, <2>2, <3>1, OneRowBalance
  <2> QED BY <1>1, <1>3, <2>2 DEF ReleaseFreeze, Released
<1>4. ASSUME NEW v \in Wallets, NEW amount \in PaymentAmounts[v], PaymentStep(v, amount)
      PROVE  BalanceInv'
  <2>1. amount \in Int /\ accounts[v] \in Row
    BY AmountAssumption DEF IInv, ShapeInv
  <2>2. Regular(v) => amount >= 0 /\ accounts[v].available >= 0
    BY DEF Regular, BalanceInv
  <2>3. PICK row \in Row : PaymentSets(v, row) /\ (Regular(v) => row.available >= 0)
    <3>1. CASE PaymentFreezes(v, amount)
      BY <2>1, <3>1 DEF PaymentFreezes, CanDebit, FreezeFunds, Row
    <3>2. CASE PaymentReleases(v, amount)
      BY <2>1, <2>2, <3>2 DEF PaymentReleases, UnfreezeFunds, Row
    <3>3. CASE PaymentDebits(v, amount)
      BY <2>1, <2>2, <3>3 DEF PaymentDebits, DebitAccount, Row
    <3>4. CASE PaymentCredits(v, amount)
      BY <2>1, <2>2, <3>4 DEF PaymentCredits, CreditAccount, Row
    <3> QED BY <1>4, <3>1, <3>2, <3>3, <3>4 DEF PaymentStep
  <2> QED BY <2>3, OneRowBalance DEF PaymentSets
<1>5. ASSUME NEW r \in Requests, Arrival(r) PROVE BalanceInv'
  BY <1>1, <1>5, ArrivalHolds
<1>6. ASSUME NEW r \in Requests, RequestStep(r) PROVE BalanceInv'
  BY <1>1, <1>2, <1>3, <1>6, PlainStepHolds, BookingHolds DEF RequestStep
<1>7. CASE Crash \/ UNCHANGED vars
  BY <1>1, <1>7 DEF Crash, vars, tableVars
<1> QED
  BY <1>1, <1>4, <1>5, <1>6, <1>7 DEF Next, CreateVirtualCard, ReviewCardApplication

LEMMA InvariantBalanceInv == Spec => []BalanceInv
<1>1. Init => BalanceInv
  BY WalletAssumption DEF Init, BalanceInv, NewRow
<1>2. IInv /\ BalanceInv /\ [Next]_vars => BalanceInv'
  BY NextBalanceInv
<1> QED
  BY <1>1, <1>2, InvariantIInv, PTL DEF Spec

-----------------------------------------------------------------------------
\* The tables and requests keep their shape.
THEOREM TypeCorrect == Spec => []TypeOK
<1>1. IInv => TypeOK
  BY DEF IInv, ShapeInv, TypeOK
<1> QED
  BY <1>1, InvariantIInv, PTL

\* A merchant told of an approval has it in the books, and only then, whatever
\* fails and however often the service dies; what is debited covers the fee of a
\* price that is not negative.
THEOREM AnswersAreTrue == Spec => []AnswersTellAuthorizations
<1>1. IInv => AnswersTellAuthorizations
  BY DEF IInv, AuthInv, ServedInv, AnswersTellAuthorizations, Approved
<1> QED
  BY <1>1, InvariantIInv, PTL

\* Nothing is recorded for a card that was inactive all the time.
THEOREM InactiveCardsPayNothing == Spec => []InactiveCardPaysNothing
<1>1. IInv => InactiveCardPaysNothing
  BY DEF IInv, AuthInv, InactiveCardPaysNothing, Approved
<1> QED
  BY <1>1, InvariantIInv, PTL

\* Purchases and payments that spend one account at once never overdraw it,
\* whatever the balances they had read, as long as no payment moves a negative
\* amount on it and no purchase is quoted a negative debit.
THEOREM NoAccountOverdrawn ==
  Spec => [](\A w \in Wallets : Regular(w) => accounts[w].available >= 0)
<1>1. BalanceInv => \A w \in Wallets : Regular(w) => accounts[w].available >= 0
  BY DEF BalanceInv
<1> QED
  BY <1>1, InvariantBalanceInv, PTL

\* What is frozen is what the approved authorizations and the requests on their
\* way or cut off froze, and what payments froze less what they released or took:
\* a purchase that is declined, refused or undone leaves nothing frozen behind,
\* for any number of requests that meet each other and payments on one account,
\* and any amounts, negative ones included.  And no regular account is overdrawn.
THEOREM FreezesExplained == Spec => []FreezesAreExplained
<1>1. Init => HoldInv
  BY InitHoldInv
<1>2. IInv /\ HoldInv /\ [Next]_vars => HoldInv'
  BY NextHoldInv
<1>3. BalanceInv /\ HoldInv => FreezesAreExplained
  BY DEF BalanceInv, HoldInv, FreezesAreExplained
<1> QED
  BY <1>1, <1>2, <1>3, InvariantIInv, InvariantBalanceInv, PTL DEF Spec

-----------------------------------------------------------------------------
(* Card numbers                                                             *)

\* Doubling keeps digits apart.
LEMMA DoubledIsInjective ==
  /\ \A x \in Digits : Doubled(x) \in Digits
  /\ \A x, y \in Digits : x # y => Doubled(x) # Doubled(y)
BY DEF Digits, Doubled

\* Every position of a body weighs a digit, and a different digit weighs something else.
LEMMA WeightsTellDigits ==
  ASSUME NEW body \in Seq(Digits), NEW i \in DOMAIN body, NEW d \in Digits \ {body[i]}
  PROVE  /\ Weighted(body, i) \in Digits
         /\ Weighted([body EXCEPT ![i] = d], i) \in Digits
         /\ Weighted([body EXCEPT ![i] = d], i) # Weighted(body, i)
<1> DEFINE other == [body EXCEPT ![i] = d]
<1>1. body[i] \in Digits /\ other[i] = d /\ Len(other) = Len(body)
  OBVIOUS
<1> QED BY <1>1, DoubledIsInjective DEF Weighted

\* The sum of a body is a number, and changes with a digit by the difference of its weights.
LEMMA LuhnSumChanges ==
  ASSUME NEW body \in Seq(Digits)
  PROVE  /\ LuhnSum(body) \in Nat
         /\ \A i \in DOMAIN body, d \in Digits :
              LuhnSum([body EXCEPT ![i] = d])
                = LuhnSum(body) + Weighted([body EXCEPT ![i] = d], i) - Weighted(body, i)
<1> DEFINE f == [i \in DOMAIN body |-> Weighted(body, i)]
<1>1. IsFiniteSet(DOMAIN body)
  BY FS_Interval
<1>2. \A i \in DOMAIN body : f[i] \in Nat
  <2>1. \A i \in DOMAIN body : body[i] \in Digits
    OBVIOUS
  <2> QED BY <2>1, DoubledIsInjective DEF Weighted, Digits
<1>3. LuhnSum(body) \in Nat
  <2> HIDE DEF f
  <2>1. SumFunctionOnSet(f, DOMAIN body) \in Nat
    BY <1>1, <1>2, SumNat
  <2> QED BY <2>1 DEF LuhnSum, f
<1>4. ASSUME NEW i \in DOMAIN body, NEW d \in Digits
      PROVE  LuhnSum([body EXCEPT ![i] = d])
               = LuhnSum(body) + Weighted([body EXCEPT ![i] = d], i) - Weighted(body, i)
  <2> DEFINE other == [body EXCEPT ![i] = d]
             g == [j \in DOMAIN body |-> Weighted(other, j)]
  <2>1. DOMAIN other = DOMAIN body /\ Len(other) = Len(body) /\ other \in Seq(Digits)
    OBVIOUS
  <2>2. \A j \in DOMAIN body \ {i} : f[j] = g[j]
    BY <2>1 DEF Weighted
  <2>3. g[i] \in Int
    <3>1. other[i] \in Digits
      OBVIOUS
    <3> QED BY <3>1, DoubledIsInjective DEF Weighted, Digits
  <2>4. f[i] = Weighted(body, i) /\ g[i] = Weighted(other, i)
    OBVIOUS
  <2>5. LuhnSum(other) = SumFunctionOnSet(g, DOMAIN body)
    BY <2>1 DEF LuhnSum
  <2>6. LuhnSum(body) = SumFunctionOnSet(f, DOMAIN body)
    BY DEF LuhnSum
  <2>7. SumFunctionOnSet(g, DOMAIN body) = SumFunctionOnSet(f, DOMAIN body) + g[i] - f[i]
    <3>1. \A j \in DOMAIN body : f[j] \in Int
      BY <1>2
    <3> HIDE DEF f, g
    <3> QED BY <1>1, <2>2, <2>3, <3>1, SumChange
  <2> QED BY <2>4, <2>5, <2>6, <2>7
<1> QED BY <1>3, <1>4

\* Sums that differ by the difference of two digits have different check digits.
LEMMA CheckDigitsDiffer ==
  ASSUME NEW s \in Nat, NEW t \in Nat, NEW a \in Digits, NEW b \in Digits, a # b, t = s + a - b
  PROVE  (10 - (t % 10)) % 10 # (10 - (s % 10)) % 10
BY DEF Digits

\* What a number is made of.
LEMMA NumberParts ==
  ASSUME NEW body \in Seq(Digits), Len(body) >= 1, NEW check \in Digits
  PROVE  /\ Len(Append(body, check)) = Len(body) + 1
         /\ SubSeq(Append(body, check), 1, Len(body)) = body
         /\ \A d \in Digits :
              /\ [Append(body, check) EXCEPT ![Len(body) + 1] = d] = Append(body, d)
              /\ \A i \in DOMAIN body :
                   [Append(body, check) EXCEPT ![i] = d] = Append([body EXCEPT ![i] = d], check)
<1> DEFINE pan == Append(body, check)
           n == Len(body)
<1>1. /\ n \in Nat /\ n >= 1 /\ pan \in Seq(Digits) /\ Len(pan) = n + 1
      /\ pan[n + 1] = check /\ \A j \in 1..n : pan[j] = body[j]
  OBVIOUS
<1>2. SubSeq(pan, 1, n) = body
  OBVIOUS
<1>3. \A s \in Seq(Digits), d \in Digits :
        /\ Append(s, d) \in Seq(Digits) /\ Len(Append(s, d)) = Len(s) + 1
        /\ \A j \in 1..Len(s) + 1 : Append(s, d)[j] = IF j = Len(s) + 1 THEN d ELSE s[j]
  BY AppendProperties
<1>4. \A s \in Seq(Digits) : DOMAIN s = 1..Len(s) /\ Len(s) \in Nat
  OBVIOUS
<1> HIDE DEF pan
<1>5. ASSUME NEW d \in Digits PROVE [pan EXCEPT ![n + 1] = d] = Append(body, d)
  <2>1. n + 1 \in 1..Len(pan)
    BY <1>1
  <2>2. /\ [pan EXCEPT ![n + 1] = d] \in Seq(Digits) /\ Len([pan EXCEPT ![n + 1] = d]) = n + 1
        /\ \A j \in 1..n + 1 : [pan EXCEPT ![n + 1] = d][j] = IF j = n + 1 THEN d ELSE pan[j]
    <3> HIDE DEF n
    <3> QED BY <1>1, <2>1, ExceptSeq
  <2>3. \A j \in 1..n + 1 : [pan EXCEPT ![n + 1] = d][j] = Append(body, d)[j]
    BY <1>1, <1>3, <2>2
  <2>4. Append(body, d) \in Seq(Digits) /\ Len(Append(body, d)) = n + 1
    BY <1>3
  <2> QED BY <2>2, <2>3, <2>4, SeqEqual
<1>6. ASSUME NEW d \in Digits, NEW i \in DOMAIN body
      PROVE  [pan EXCEPT ![i] = d] = Append([body EXCEPT ![i] = d], check)
  <2> DEFINE other == [body EXCEPT ![i] = d]
  <2>1. i \in 1..n /\ i \in 1..Len(pan)
    BY <1>1, <1>4
  <2>2. /\ other \in Seq(Digits) /\ Len(other) = n
        /\ \A j \in 1..n : other[j] = IF j = i THEN d ELSE body[j]
    BY <2>1, ExceptSeq
  <2>3. /\ [pan EXCEPT ![i] = d] \in Seq(Digits) /\ Len([pan EXCEPT ![i] = d]) = n + 1
        /\ \A j \in 1..n + 1 : [pan EXCEPT ![i] = d][j] = IF j = i THEN d ELSE pan[j]
    BY <1>1, <2>1, ExceptSeq
  <2> HIDE DEF other
  <2>4. /\ Append(other, check) \in Seq(Digits) /\ Len(Append(other, check)) = n + 1
        /\ \A j \in 1..n + 1 : Append(other, check)[j] = IF j = n + 1 THEN check ELSE other[j]
    BY <1>3, <2>2
  <2>5. \A j \in 1..n + 1 : [pan EXCEPT ![i] = d][j] = Append(other, check)[j]
    BY <1>1, <2>1, <2>2, <2>3, <2>4
  <2> QED BY <2>3, <2>4, <2>5, SeqEqual DEF other
<1> QED BY <1>1, <1>2, <1>5, <1>6 DEF pan

\* A number made of a body and a digit is valid if that is its check digit.
LEMMA ValidIsChecked ==
  ASSUME NEW body \in Seq(Digits), Len(body) >= 1, NEW check \in Digits
  PROVE  ValidateLuhn(Append(body, check)) <=> LuhnCheckDigit(body) = check
<1>1. Append(body, check)[Len(body) + 1] = check
  OBVIOUS
<1>2. Len(Append(body, check)) - 1 = Len(body) /\ Len(Append(body, check)) >= 2
  BY NumberParts
<1> QED BY <1>1, <1>2, NumberParts DEF ValidateLuhn

\* A number that is generated is valid, and is not with any one digit of it
\* mistyped, the check digit included: for numbers of every length.
LEMMA NumbersAreChecked ==
  ASSUME NEW body \in Seq(Digits), Len(body) >= 1
  PROVE  /\ ValidateLuhn(GenerateTestPAN(body))
         /\ \A i \in DOMAIN GenerateTestPAN(body) :
              \A d \in Digits \ {GenerateTestPAN(body)[i]} :
                ~ ValidateLuhn([GenerateTestPAN(body) EXCEPT ![i] = d])
<1> DEFINE check == LuhnCheckDigit(body)
           pan == Append(body, check)
<1>1. LuhnSum(body) \in Nat
  BY LuhnSumChanges
<1>2. check \in Digits
  BY <1>1 DEF LuhnCheckDigit, Digits
<1> HIDE DEF check
<1>3. GenerateTestPAN(body) = pan
  BY DEF GenerateTestPAN, check
<1>4. ValidateLuhn(pan)
  BY <1>2, ValidIsChecked DEF check
<1>5. ASSUME NEW i \in DOMAIN pan, NEW d \in Digits \ {pan[i]}
      PROVE  ~ ValidateLuhn([pan EXCEPT ![i] = d])
  <2>1. CASE i = Len(body) + 1
    <3>1. pan[i] = check
      BY <1>2, <2>1
    <3>2. [pan EXCEPT ![i] = d] = Append(body, d)
      BY <1>2, <2>1, NumberParts
    <3> QED BY <3>1, <3>2, ValidIsChecked DEF check
  <2>2. CASE i # Len(body) + 1
    <3> DEFINE other == [body EXCEPT ![i] = d]
    <3>1. i \in DOMAIN body /\ pan[i] = body[i]
      BY <1>2, <2>2
    <3>2. [pan EXCEPT ![i] = d] = Append(other, check)
      BY <1>2, <3>1, NumberParts
    <3>3. other \in Seq(Digits) /\ Len(other) >= 1
      BY <3>1
    <3>4. LuhnSum(other) = LuhnSum(body) + Weighted(other, i) - Weighted(body, i)
      BY <3>1, LuhnSumChanges
    <3>5. /\ Weighted(body, i) \in Digits /\ Weighted(other, i) \in Digits
          /\ Weighted(other, i) # Weighted(body, i)
      BY <3>1, WeightsTellDigits
    <3>6. LuhnSum(other) \in Nat
      BY <3>3, LuhnSumChanges
    <3>7. LuhnCheckDigit(other) # check
      <4> HIDE DEF other
      <4> QED BY <1>1, <3>4, <3>5, <3>6, CheckDigitsDiffer DEF LuhnCheckDigit, check
    <3> QED BY <1>2, <3>2, <3>3, <3>7, ValidIsChecked
  <2> QED BY <2>1, <2>2
<1> QED BY <1>3, <1>4, <1>5

\* The service issues no number that its own validation refuses, and accepts
\* none with one digit mistyped, however long its numbers are.
THEOREM WrongDigitsAreRefused == Spec => []WrongDigitIsRefused
<1>1. ASSUME NEW bin \in TestBINs, NEW random \in [1..TotalLength - 2 -> Digits]
      PROVE  bin \o random \in Seq(Digits) /\ Len(bin \o random) >= 1
  <2> DEFINE n == TotalLength - 2
  <2>1. n \in Nat
    BY LengthAssumption
  <2>2. bin \in Seq(Digits) /\ Len(bin) = 1
    <3>1. <<4>> \in Seq(Digits) /\ <<5>> \in Seq(Digits)
      BY DEF Digits
    <3> QED BY <3>1 DEF TestBINs
  <2>3. random \in Seq(Digits) /\ Len(random) = n
    <3> HIDE DEF n
    <3>1. random \in [1..n -> Digits]
      BY DEF n
    <3> QED BY <2>1, <3>1
  <2> HIDE DEF n
  <2> QED BY <2>1, <2>2, <2>3
<1>2. NumbersDetectErrors
  <2> SUFFICES ASSUME NEW pan \in TestPANs
               PROVE  /\ ValidateLuhn(pan)
                      /\ \A i \in DOMAIN pan : \A d \in Digits \ {pan[i]} :
                           ~ ValidateLuhn([pan EXCEPT ![i] = d])
    BY DEF NumbersDetectErrors
  <2>1. PICK bin \in TestBINs, random \in [1..TotalLength - 2 -> Digits] :
          pan = GenerateTestPAN(bin \o random)
    BY DEF TestPANs
  <2> QED BY <1>1, <2>1, NumbersAreChecked
<1>3. WrongDigitIsRefused
  BY <1>2 DEF WrongDigitIsRefused
<1> QED
  BY <1>3, PTL
===============================================================================
