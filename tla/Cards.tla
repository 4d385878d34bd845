--------------------------------- MODULE Cards ---------------------------------
(***************************************************************************)
(* Cards and their authorizations: internal/service/card_svc.go over the   *)
(* tables cards, card_authorizations and accounts.                         *)
(*                                                                         *)
(* Every HTTP request is a process.  An authorization reads the card       *)
(* twice, chooses the currency to debit, looks at the balance, freezes the *)
(* money and records itself, with one statement each; nothing spans them.  *)
(* Payments freeze, release, take and bring money of the same account rows *)
(* meanwhile, and look at the frozen sum of a row, not at who froze it.    *)
(***************************************************************************)
EXTENDS Accounts, Rates, CardNumbers, FiniteSets, Functions

CONSTANTS Owners, CardIds, Currencies,
          Priced,         \* the currencies that have a rate to the dollar
          UsdRates,       \* the rates the table of rates may hold
          Opening,        \* the accounts there are, and what is in them
          Amounts,        \* what merchants may charge, in cents
          PaymentAmounts, \* the amounts payments move on each of the accounts
          SingleTxLimit,  \* 500000 in the code
          CardLimit,      \* 5 in the code
          FixedFee,       \* 20 in the code
          Requests,       \* the HTTP requests of a behaviour
          MaxMoves,       \* how many statements of payments touch the accounts
          MaxMishaps      \* how many statements may fail, and times the service die

Wallets == DOMAIN Opening

ASSUME NamesAssumption == "none" \notin CardIds /\ Priced \subseteq Currencies
ASSUME WalletAssumption ==
  Wallets \subseteq Owners \X Currencies /\ Opening \in [Wallets -> Nat]
\* Amounts may be negative: an upper limit is the only check there is of them.
ASSUME AmountAssumption ==
  /\ Amounts \subseteq Int
  /\ PaymentAmounts \in [Wallets -> SUBSET Int]
  /\ FixedFee \in Nat
ASSUME RateAssumption ==
  /\ UsdRates \subseteq Nat \ {0}
  /\ \A source, target \in UsdRates : PairRate(source, target) > 0
ASSUME LimitAssumption == {SingleTxLimit, CardLimit, MaxMoves, MaxMishaps} \subseteq Nat

\* The row of a card that does not exist, and a request that has not come.
None == "none"
NoCard == [status |-> None]
NoRequest == [op |-> None]
NoQuote == [debit |-> 0, currency |-> None]

VARIABLES
  cards,     \* table cards
  accounts,  \* the accounts of the owners
  held,      \* what payments have frozen of them, less what they have released
             \* or taken since; below zero if that was frozen for a card
  auths,     \* table card_authorizations
  pc,        \* where a request stands
  request,   \* what a request asks for
  quote,     \* the local variable of an authorization: what to debit
  live,      \* the requests whose card was active at some time since they came
  moves,     \* counts the statements of payments
  mishaps    \* counts failing statements and deaths of the service

tableVars == <<cards, accounts, held, auths>>
vars == <<cards, accounts, held, auths, pc, request, quote, live, moves, mishaps>>

-----------------------------------------------------------------------------
(* Rows *)

CardStatuses == {"ACTIVE", "FROZEN", "CANCELLED"}

\* Of the statuses the code names, no card is ever ISSUING, LOST or EXPIRED.
CanTransition(from, to) ==
  <<from, to>> \in { <<"ACTIVE", "FROZEN">>, <<"ACTIVE", "CANCELLED">>,
                     <<"FROZEN", "ACTIVE">>, <<"FROZEN", "CANCELLED">> }

Card(owner, currency) == [owner |-> owner, currency |-> currency, status |-> "ACTIVE"]

CardRows == [owner: Owners, currency: Currencies, status: CardStatuses]

\* Mutant: a frozen card still pays.
IsUsableFrozen(card) == card.status \in {"ACTIVE", "FROZEN"}

IsUsable(card) == card.status = "ACTIVE"

MayApply(count) == count < CardLimit

\* CountCardsByUser
CountCards(owner) ==
  Cardinality({ c \in CardIds : /\ cards[c] # NoCard /\ cards[c].owner = owner
                                /\ cards[c].status # "CANCELLED" })

CardOf(r) == cards[request[r].card]

\* The account GetAccountByUserAndCurrency reads for the owner of the card.
WalletOf(r, currency) == <<CardOf(r).owner, currency>>

\* The account exists and has the amount.
Affords(r, currency, amount) ==
  /\ WalletOf(r, currency) \in Wallets
  /\ CanDebit(accounts[WalletOf(r, currency)], amount)

Authorization(r, status, spent) ==
  [id |-> r, card |-> request[r].card, amount |-> request[r].amount,
   debit |-> spent.debit, currency |-> spent.currency, status |-> status]

Approval(r) == Authorization(r, "AUTH_APPROVED", quote[r])

\* A declined authorization has no debit.
Declined(r) == Authorization(r, "AUTH_DECLINED", NoQuote)

AuthRows == [id: Requests, card: CardIds, amount: Amounts, debit: Int,
             currency: Currencies \cup {None}, status: {"AUTH_APPROVED", "AUTH_DECLINED"}]

-----------------------------------------------------------------------------
Init ==
  /\ cards = [c \in CardIds |-> NoCard]
  /\ accounts = [w \in Wallets |-> NewRow(Opening[w])]
  /\ held = [w \in Wallets |-> 0]
  /\ auths = {}
  /\ pc = [r \in Requests |-> "new"]
  /\ request = [r \in Requests |-> NoRequest]
  /\ quote = [r \in Requests |-> NoQuote]
  /\ live = {}
  /\ moves = 0
  /\ mishaps = 0

Succeeds == UNCHANGED mishaps
Fails == mishaps < MaxMishaps /\ mishaps' = mishaps + 1
Goto(r, label) == pc' = [pc EXCEPT ![r] = label]

Running == {"insert", "update", "spend", "currency", "balance", "freeze", "record",
            "answer", "release", "decline"}

\* Requests under way for a card.
Waiting(c) == { r \in Requests : pc[r] \in Running /\ request[r].op # "apply"
                                 /\ request[r].card = c }

-----------------------------------------------------------------------------
(* Issuing cards *)

\* CreateVirtualCard, and CreateCard with a card id that is not taken.
CreateVirtualCard(c, owner, currency) ==
  /\ cards[c] = NoCard
  /\ cards' = [cards EXCEPT ![c] = Card(owner, currency)]
  /\ UNCHANGED <<accounts, held, auths, pc, request, quote, live, moves, mishaps>>

\* ApplyForCard counts the cards of the user ...
ApplyForCard(r, owner, currency) ==
  /\ pc[r] = "new"
  /\ request' = [request EXCEPT ![r] = [op |-> "apply", user |-> owner, currency |-> currency]]
  /\ \/ Succeeds /\ Goto(r, IF MayApply(CountCards(owner)) THEN "insert" ELSE "refused")
     \/ Fails /\ Goto(r, "refused")
  /\ UNCHANGED <<tableVars, quote, live, moves>>

\* ... and then inserts one.
CreateCard(r) ==
  /\ pc[r] = "insert"
  /\ \/ /\ Succeeds
        /\ \E c \in CardIds :
             /\ cards[c] = NoCard
             /\ cards' = [cards EXCEPT ![c] = Card(request[r].user, request[r].currency)]
        /\ Goto(r, "served")
     \/ Fails /\ UNCHANGED cards /\ Goto(r, "refused")
  /\ UNCHANGED <<accounts, held, auths, request, quote, live, moves>>

-----------------------------------------------------------------------------
(* Cancelling, freezing and unfreezing *)

\* What CancelCard, FreezeCard and UnfreezeCard ask of the row they have read.
\* UnfreezeCard asks nothing.
Accepts(op, user, card) ==
  \/ op = "cancel" /\ card.owner = user
  \/ op = "freeze" /\ CanTransition(card.status, "FROZEN")
  \/ op = "unfreeze"

GetCard(r, op, user, c) ==
  /\ pc[r] = "new"
  /\ request' = [request EXCEPT ![r] = [op |-> op, user |-> user, card |-> c]]
  /\ \/ /\ Succeeds
        /\ Goto(r, IF cards[c] # NoCard /\ Accepts(op, user, cards[c])
                   THEN "update" ELSE "refused")
     \/ Fails /\ Goto(r, "refused")
  /\ UNCHANGED <<tableVars, quote, live, moves>>

\* Mutant: a frozen card is noted as lost.
StatusAskedLost(op) ==
  IF op = "cancel" THEN "CANCELLED" ELSE IF op = "freeze" THEN "LOST" ELSE "ACTIVE"

StatusAsked(op) ==
  IF op = "cancel" THEN "CANCELLED" ELSE IF op = "freeze" THEN "FROZEN" ELSE "ACTIVE"

\* UpdateCardStatus, whatever the status has become since.
UpdateCardStatus(r) ==
  /\ pc[r] = "update"
  /\ \/ /\ Succeeds
        /\ cards' = [cards EXCEPT ![request[r].card].status = StatusAsked(request[r].op)]
        /\ live' = live \cup IF request[r].op = "unfreeze"
                             THEN Waiting(request[r].card) ELSE {}
        /\ Goto(r, "served")
     \/ Fails /\ UNCHANGED <<cards, live>> /\ Goto(r, "refused")
  /\ UNCHANGED <<accounts, held, auths, request, quote, moves>>

\* The one statement of a review: turning an application down cancels the card.
ReviewedStatus(decision, status) == IF decision = "REJECTED" THEN "CANCELLED" ELSE status

ReviewCardApplication(c, decision) ==
  /\ cards[c] # NoCard
  /\ cards' = [cards EXCEPT ![c].status = ReviewedStatus(decision, @)]
  /\ UNCHANGED <<accounts, held, auths, pc, request, quote, live, moves, mishaps>>

-----------------------------------------------------------------------------
(* Quotes and authorizations *)

\* Where AuthorizeCardPayment goes with the card it has found.
AfterToken(card, amount) ==
  IF card = NoCard THEN "refused"
  ELSE IF ~ IsUsable(card) \/ amount > SingleTxLimit THEN "decline"
  ELSE "spend"

\* It looks the card up by its token; a quote starts with the second look.
\* The binding of the request refuses the amount 0, that of a quote does not.
Authorize(r, c, amount, currency) ==
  /\ pc[r] = "new" /\ amount # 0
  /\ request' = [request EXCEPT ![r] = [op |-> "authorize", card |-> c, amount |-> amount,
                                        currency |-> currency]]
  /\ \/ /\ Succeeds
        /\ Goto(r, AfterToken(cards[c], amount))
        /\ live' = live \cup IF cards[c] # NoCard /\ cards[c].status = "ACTIVE"
                             THEN {r} ELSE {}
     \/ Fails /\ Goto(r, "refused") /\ UNCHANGED live
  /\ UNCHANGED <<tableVars, quote, moves>>

AskQuote(r, c, amount, currency) ==
  /\ pc[r] = "new"
  /\ cards[c] # NoCard
  /\ request' = [request EXCEPT ![r] = [op |-> "quote", card |-> c, amount |-> amount,
                                        currency |-> currency]]
  /\ Goto(r, "spend")
  /\ UNCHANGED <<tableVars, quote, live, moves, mishaps>>

\* A quote that fails declines the authorization.
WithoutQuote(r) == IF request[r].op = "quote" THEN "refused" ELSE "decline"

\* SpendQuote reads the card again.
SpendQuote(r) ==
  /\ pc[r] = "spend"
  /\ \/ Succeeds /\ Goto(r, IF IsUsable(CardOf(r)) THEN "currency" ELSE WithoutQuote(r))
     \/ Fails /\ Goto(r, WithoutQuote(r))
  /\ UNCHANGED <<tableVars, request, quote, live, moves>>

\* selectDebitCurrency: the currency of the purchase if it is the card's own or
\* there is anything in that account, else the card's own.
DebitCurrency(r) ==
  IF Affords(r, request[r].currency, 1) THEN request[r].currency ELSE CardOf(r).currency

\* Mutant: the fixed fee of another currency is left out of the debit.
ForeignDebitFree(amount, rate) == SourceAmount(amount, rate)

\* What a purchase in another currency costs; the percentage is never added.
ForeignDebit(amount, rate) == SourceAmount(amount, rate) + FixedFee

\* The two rates of a pair are read one after the other while the table of
\* rates changes: any two may meet.
SelectDebitCurrency(r) ==
  /\ pc[r] = "currency"
  /\ \E currency \in Currencies :
       /\ \/ Succeeds /\ currency = DebitCurrency(r)
          \/ Fails /\ request[r].currency # CardOf(r).currency /\ currency = CardOf(r).currency
       /\ \/ /\ currency = request[r].currency
             /\ quote' = [quote EXCEPT ![r] = [debit |-> request[r].amount,
                                               currency |-> currency]]
             /\ Goto(r, IF request[r].op = "quote" THEN "served" ELSE "balance")
          \/ /\ currency # request[r].currency /\ {currency, request[r].currency} \subseteq Priced
             /\ \E source, target \in UsdRates :
                  quote' = [quote EXCEPT ![r] =
                    [debit |-> ForeignDebit(request[r].amount, PairRate(source, target)),
                     currency |-> currency]]
             /\ Goto(r, IF request[r].op = "quote" THEN "served" ELSE "balance")
          \/ /\ currency # request[r].currency /\ ~ {currency, request[r].currency} \subseteq Priced
             /\ Goto(r, WithoutQuote(r))
             /\ UNCHANGED quote
  /\ UNCHANGED <<tableVars, request, live, moves>>

\* The balance is looked at ...
CheckBalance(r) ==
  /\ pc[r] = "balance"
  /\ \/ /\ Succeeds
        /\ Goto(r, IF Affords(r, quote[r].currency, quote[r].debit) THEN "freeze" ELSE "decline")
     \/ Fails /\ Goto(r, "decline")
  /\ UNCHANGED <<tableVars, request, quote, live, moves>>

\* ... and the money frozen, if it is still there.
FreezeForCard(r) ==
  /\ pc[r] = "freeze"
  /\ LET w == WalletOf(r, quote[r].currency)
     IN  \/ /\ Succeeds /\ CanDebit(accounts[w], quote[r].debit)
            /\ accounts' = [accounts EXCEPT ![w] = FreezeFunds(@, quote[r].debit)]
            /\ Goto(r, "record")
         \/ /\ Fails \/ (Succeeds /\ ~ CanDebit(accounts[w], quote[r].debit))
            /\ UNCHANGED accounts
            /\ Goto(r, "decline")
  /\ UNCHANGED <<cards, held, auths, request, quote, live, moves>>

\* Mutant: the authorization goes out although it could not be recorded.
AfterRecordErrorServed == "answer"

\* Mutant: the money stays frozen.
AfterRecordErrorRefused == "refused"

AfterRecordError == "release"

\* CreateCardAuthorization
RecordAuthorization(r) ==
  /\ pc[r] = "record"
  /\ \/ /\ Succeeds
        /\ auths' = auths \cup {Approval(r)}
        /\ Goto(r, "answer")
     \/ Fails /\ UNCHANGED auths /\ Goto(r, AfterRecordError)
  /\ UNCHANGED <<cards, accounts, held, request, quote, live, moves>>

AnswerApproval(r) ==
  /\ pc[r] = "answer"
  /\ Goto(r, "served")
  /\ UNCHANGED <<tableVars, request, quote, live, moves, mishaps>>

Released(r) == quote[r].debit

\* The freeze is undone; nobody hears of it if that fails, too.
ReleaseFreeze(r) ==
  /\ pc[r] = "release"
  /\ LET w == WalletOf(r, quote[r].currency)
     IN  \/ /\ Succeeds /\ HasFrozen(accounts[w], Released(r))
            /\ accounts' = [accounts EXCEPT ![w] = UnfreezeFunds(@, Released(r))]
            /\ Goto(r, "refused")
         \/ /\ Fails \/ (Succeeds /\ ~ HasFrozen(accounts[w], Released(r)))
            /\ UNCHANGED accounts
            /\ Goto(r, "stranded")
  /\ UNCHANGED <<cards, held, auths, request, quote, live, moves>>

\* declineAuth: a best effort at a row, and the answer.
DeclineAuth(r) ==
  /\ pc[r] = "decline"
  /\ \/ Succeeds /\ auths' = auths \cup {Declined(r)}
     \/ Fails /\ UNCHANGED auths
  /\ Goto(r, "declined")
  /\ UNCHANGED <<cards, accounts, held, request, quote, live, moves>>

-----------------------------------------------------------------------------
(* Everything else *)

\* A statement of a payment on an account, and what it did to the frozen money.
PaymentSets(w, row) ==
  /\ moves < MaxMoves
  /\ moves' = moves + 1
  /\ accounts' = [accounts EXCEPT ![w] = row]
  /\ held' = [held EXCEPT ![w] = @ + row.frozen - accounts[w].frozen]
  /\ UNCHANGED <<cards, auths, pc, request, quote, live, mishaps>>

\* A payment freezes its total ...
PaymentFreezes(w, amount) ==
  /\ CanDebit(accounts[w], amount)
  /\ PaymentSets(w, FreezeFunds(accounts[w], amount))

\* ... and gives it back when it fails, if as much is frozen, for whomever, ...
PaymentReleases(w, amount) ==
  /\ HasFrozen(accounts[w], amount)
  /\ PaymentSets(w, UnfreezeFunds(accounts[w], amount))

\* ... or takes it out.  Compensations and refunds take what they had brought
\* a receiver the same way, out of money that they never froze.
PaymentDebits(w, amount) ==
  /\ HasFrozen(accounts[w], amount)
  /\ PaymentSets(w, DebitAccount(accounts[w], amount))

\* Receivers and fee accounts are credited, and senders who get a refund.
PaymentCredits(w, amount) == PaymentSets(w, CreditAccount(accounts[w], amount))

PaymentStep(w, amount) ==
  \/ PaymentFreezes(w, amount) \/ PaymentReleases(w, amount)
  \/ PaymentDebits(w, amount) \/ PaymentCredits(w, amount)

\* The service dies with its requests; what one of them had frozen stays.
Crash ==
  /\ mishaps < MaxMishaps
  /\ mishaps' = mishaps + 1
  /\ pc' = [r \in Requests |-> IF pc[r] \in {"record", "release"} THEN "stranded"
                               ELSE IF pc[r] \in Running THEN "dead" ELSE pc[r]]
  /\ UNCHANGED <<tableVars, request, quote, live, moves>>

RequestStep(r) ==
  \/ CreateCard(r) \/ UpdateCardStatus(r) \/ SpendQuote(r) \/ SelectDebitCurrency(r)
  \/ CheckBalance(r) \/ FreezeForCard(r) \/ RecordAuthorization(r) \/ AnswerApproval(r)
  \/ ReleaseFreeze(r) \/ DeclineAuth(r)

Arrival(r) ==
  \/ \E owner \in Owners, currency \in Currencies : ApplyForCard(r, owner, currency)
  \/ \E op \in {"cancel", "freeze", "unfreeze"}, user \in Owners, c \in CardIds :
       GetCard(r, op, user, c)
  \/ \E c \in CardIds, amount \in Amounts, currency \in Currencies :
       Authorize(r, c, amount, currency) \/ AskQuote(r, c, amount, currency)

Next ==
  \/ \E c \in CardIds, owner \in Owners, currency \in Currencies :
       CreateVirtualCard(c, owner, currency)
  \/ \E c \in CardIds, decision \in {"APPROVED", "REJECTED"} :
       ReviewCardApplication(c, decision)
  \/ \E w \in Wallets : \E amount \in PaymentAmounts[w] : PaymentStep(w, amount)
  \/ \E r \in Requests : Arrival(r) \/ RequestStep(r)
  \/ Crash

Spec == Init /\ [][Next]_vars

-----------------------------------------------------------------------------
(* Properties *)

Labels == Running \cup {"new", "served", "refused", "declined", "stranded", "dead"}

\* The shape of every variable.
TypeOK ==
  /\ cards \in [CardIds -> CardRows \cup {NoCard}]
  /\ accounts \in [Wallets -> Row]
  /\ held \in [Wallets -> Int]
  /\ auths \subseteq AuthRows
  /\ pc \in [Requests -> Labels]
  /\ quote \in [Requests -> [debit: Int, currency: Currencies \cup {None}]]
  /\ live \subseteq Requests
  /\ moves \in 0..MaxMoves /\ mishaps \in 0..MaxMishaps

\* An authorization in the books, by the request that made it.
Approved(r) == \E a \in auths : a.id = r /\ a.status = "AUTH_APPROVED"

\* A request that has money frozen: approved, not recorded yet, or cut off
\* before it could record or release it.
Holding(r) == Approved(r) \/ pc[r] \in {"record", "release", "stranded"}
Holders(w) == { r \in Requests : Holding(r) /\ w = WalletOf(r, quote[r].currency) }

\* What the quotes of all these come to.
Debits == [r \in Requests |-> quote[r].debit]
HeldByCards(w) == SumFunctionOnSet(Debits, Holders(w))

\* No payment moves a negative amount on the account, and no purchase was quoted
\* a negative debit.
Regular(w) ==
  /\ PaymentAmounts[w] \subseteq Nat
  /\ \A r \in Requests : request[r].op = "authorize" => quote[r].debit >= 0

\* Frozen money is explained to the cent: it belongs to approved authorizations,
\* to requests on their way or cut off, and to payments, less what payments
\* have taken of it; a declined or refused purchase holds nothing.  And although
\* purchases and payments decide on balances read before, and spend one account
\* at once, none is overdrawn, unless a negative amount was asked of it.
FreezesAreExplained ==
  \A w \in Wallets :
    /\ accounts[w].frozen = held[w] + HeldByCards(w)
    /\ Regular(w) => accounts[w].available >= 0

\* A merchant told of an approval has it in the books, with the card and the
\* price of the request and a debit that covers the fee (of a price that is not
\* negative: the service approves those, too); one who was told of anything
\* else has none, whatever failed on the way.
AnswersTellAuthorizations ==
  \A r \in Requests : request[r].op = "authorize" =>
    /\ pc[r] = "served" => Approved(r)
    /\ Approved(r) => pc[r] \in {"answer", "served", "dead"}
    /\ \A a \in auths : a.id = r =>
         /\ a.card = request[r].card /\ a.amount = request[r].amount
         /\ a.status = "AUTH_APPROVED" /\ a.currency # request[r].currency /\ a.amount >= 0
              => a.debit >= FixedFee

\* A card that was cancelled or frozen before a request came, and was not made
\* active while it was under way, does not pay for it.
InactiveCardPaysNothing == \A r \in Requests : Approved(r) => r \in live

\* A card is issued with a number that passes the service's own validation, and
\* that with any one digit mistyped does not.
WrongDigitIsRefused == \A c \in CardIds : cards[c] # NoCard => NumbersDetectErrors
===============================================================================
