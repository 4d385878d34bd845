------------------------------- MODULE Screening -------------------------------
(***************************************************************************)
(* What CreatePayment does before it looks at the balance: reading the     *)
(* two users and the KYC profile, service/risk_svc.go, and the quote of    *)
(* service/fx_svc.go.                                                      *)
(*                                                                         *)
(* There is one RiskService.  An assessment stores its payment in six      *)
(* fields of it, without a lock, and its checks read them from there, so   *)
(* concurrent requests see each other's payments.  The rates are guarded   *)
(* by a lock that is taken for one rate at a time.                         *)
(***************************************************************************)
EXTENDS Users, Rates, MachineIntegers, FiniteSets, Functions

CONSTANTS Members,       \* the users
          Registered,    \* their rows in the beginning
          Profiles,      \* the statuses of their KYC profiles in the beginning
          History,       \* what they have sent today already
          Intents,       \* the payments that may be asked for
          Requests,      \* the HTTP requests of a behaviour
          Usd,           \* the dollar
          Priced,        \* the other currencies that have a rate
          DefaultUSDRates, \* the rates the service starts with
          UsdRates,      \* the rates that may be fetched
          Nil,           \* no row, no user
          MaxEvents      \* how often a statement fails, or another component
                         \* changes users, profiles, rates or orders

UserRows == [id: Members, status: UserStatuses, level: RiskLevels]
Currencies == Priced \cup {Usd}

ASSUME NilAssumption == Nil \notin UserRows
ASSUME UserAssumption ==
  /\ Registered \in [Members -> UserRows \cup {Nil}]
  /\ \A u \in Members : Registered[u] # Nil => Registered[u].id = u
  /\ Profiles \in [Members -> SUBSET KYCStatuses]
  /\ History \in [Members -> [total: Nat, count: Nat]]
\* The binding of the request refuses the amount 0 and no other.
ASSUME IntentAssumption ==
  /\ Intents \subseteq [sender: Members, receiver: Members, amount: Int64,
                        from: STRING, to: STRING, source: Currencies, target: Currencies]
  /\ \A i \in Intents : i.amount # 0
ASSUME RateAssumption ==
  UsdRates \subseteq Nat \ {0} /\ DefaultUSDRates \in [Priced -> UsdRates]
ASSUME RequestAssumption == IsFiniteSet(Requests)
ASSUME BoundAssumption == MaxEvents \in Nat

VARIABLES
  users, profiles, orders,  \* tables users, kyc_profiles, payment_orders
  rates,                    \* FXService.usdRates
  context,                  \* the six fields of RiskService
  pc,                       \* where a request stands
  intent,                   \* what a request asks for
  sender, receiver,         \* local variables of CreatePayment: rows it has read
  score, level, total,      \* local variables of the assessment
  decision,                 \* what the assessment says
  seen, quote,              \* local variables of GetQuote
  disturbed,                \* assessments others have written into
  books,                    \* what the sender had sent when the checks asked
  offered,                  \* the rates there were since a request came
  events

tables == <<users, profiles, orders>>
locals == <<sender, receiver, score, level, total, decision, seen, quote>>
ghosts == <<disturbed, books, offered>>
vars == <<tables, rates, context, pc, intent, locals, ghosts, events>>

-----------------------------------------------------------------------------
(* Limits and points *)

SingleTxLimit(riskLevel) ==
  IF riskLevel = "LOW" THEN 500000 ELSE IF riskLevel = "HIGH" THEN 50000 ELSE 100000

DailyLimit(riskLevel) ==
  IF riskLevel = "LOW" THEN 2500000 ELSE IF riskLevel = "HIGH" THEN 200000 ELSE 500000

LargeAmount == 100000
Frequent == 10

RestrictedCountries == {"KP", "IR", "SY", "CU"}

\* The rules that reject a payment at once; any other only adds its points.
\* Nothing checks the two blacklists.
BlockingRules == {"KYC_NOT_COMPLETED", "USER_FROZEN", "RESTRICTED_COUNTRY", "BLACKLISTED_SENDER",
                  "BLACKLISTED_RECEIVER", "SANCTIONED_COUNTRY"}

\* Mutant: a review is called by another name.
DecisionMisnamed(points) ==
  IF points >= 100 THEN "REJECT" ELSE IF points >= 50 THEN "REVIEW" ELSE "PASS"

Decision(points) ==
  IF points >= 100 THEN "REJECT" ELSE IF points >= 50 THEN "MANUAL_REVIEW" ELSE "PASS"

\* Orders that count for the total of the day, and all orders.
Sent(u) == { r \in Requests : orders[r] # "none" /\ intent[r].sender = u }
Counted(u) == { r \in Sent(u) : orders[r] = "open" }

DailyTotal(u) == History[u].total + SumFunction([r \in Counted(u) |-> intent[r].amount])
RecentTxCount(u) == History[u].count + Cardinality(Sent(u))

-----------------------------------------------------------------------------
NoIntent == [sender |-> Nil]
NoContext == [sender |-> Nil, receiver |-> Nil, kyc |-> Nil, amount |-> 0,
              from |-> "", to |-> ""]

Init ==
  /\ users = Registered
  /\ profiles = Profiles
  /\ orders = [r \in Requests |-> "none"]
  /\ rates = DefaultUSDRates
  /\ context = NoContext
  /\ pc = [r \in Requests |-> "new"]
  /\ intent = [r \in Requests |-> NoIntent]
  /\ sender = [r \in Requests |-> Nil]
  /\ receiver = [r \in Requests |-> Nil]
  /\ score = [r \in Requests |-> 0]
  /\ level = [r \in Requests |-> "LOW"]
  /\ total = [r \in Requests |-> 0]
  /\ decision = [r \in Requests |-> "none"]
  /\ seen = [r \in Requests |-> [source |-> 0, target |-> 0]]
  /\ quote = [r \in Requests |-> [target |-> 0, fee |-> 0]]
  /\ disturbed = {}
  /\ books = [r \in Requests |-> [asked |-> FALSE, total |-> 0, count |-> 0]]
  /\ offered = [r \in Requests |-> [c \in Priced |-> {}]]
  /\ events = 0

Succeeds == UNCHANGED events
Fails == events < MaxEvents /\ events' = events + 1
Goto(r, label) == pc' = [pc EXCEPT ![r] = label]

-----------------------------------------------------------------------------
(* CreatePayment reads the sender, its KYC profile and the receiver. *)

MayPay(u) == users[u] # Nil /\ CanTransact(users[u])

GetSender(r, i) ==
  /\ pc[r] = "new"
  /\ intent' = [intent EXCEPT ![r] = i]
  /\ offered' = [offered EXCEPT ![r] = [c \in Priced |-> {rates[c]}]]
  /\ \/ /\ Succeeds /\ users[i.sender] # Nil /\ CanTransact(users[i.sender])
        /\ sender' = [sender EXCEPT ![r] = users[i.sender]]
        /\ Goto(r, "profile")
     \/ /\ Fails \/ (Succeeds /\ ~ MayPay(i.sender))
        /\ UNCHANGED sender
        /\ Goto(r, "refused")
  /\ UNCHANGED <<tables, rates, context, receiver, score, level, total, decision, seen, quote,
                 disturbed, books>>

\* GetKYCProfile returns one of the rows of the user.
GetProfile(r) ==
  /\ pc[r] = "profile"
  /\ \/ /\ Succeeds
        /\ \E status \in profiles[intent[r].sender] :
             Goto(r, IF IsApproved(status) THEN "receiver" ELSE "refused")
     \/ /\ Fails \/ (Succeeds /\ profiles[intent[r].sender] = {})
        /\ Goto(r, "refused")
  /\ UNCHANGED <<tables, rates, context, intent, locals, ghosts>>

\* A receiver that is missing or cannot be read is nil.
GetReceiver(r) ==
  /\ pc[r] = "receiver"
  /\ \/ Succeeds /\ receiver' = [receiver EXCEPT ![r] = users[intent[r].receiver]]
     \/ Fails /\ UNCHANGED receiver
  /\ Goto(r, "sender=")
  /\ UNCHANGED <<tables, rates, context, intent, sender, score, level, total, decision, seen, quote,
                 ghosts>>

-----------------------------------------------------------------------------
(* The assessment stores its payment in the service ... *)

\* Mutant: the receiver of the assessment before is not forgotten.
StoredReceiverKept(r) == IF receiver[r] = Nil THEN context.receiver ELSE receiver[r]

StoredReceiver(r) == receiver[r]

StoreLabels == {"sender=", "receiver=", "kyc=", "amount=", "from=", "to="}

Checks == {"KYC", "sender frozen", "receiver frozen", "receiver.status", "receiver id",
           "level", "amount", "daily total", "daily level", "daily amount", "from", "to",
           "frequency", "large amount", "sanctioned from", "sanctioned to"}

Assessing == StoreLabels \cup {"receiver?", "fetch"} \cup Checks

\* A store of one request disturbs every other that is being assessed.
Disturbs(r) == disturbed' = disturbed \cup { q \in Requests \ {r} : pc[q] \in Assessing }

Store(r, label, field, value, next) ==
  /\ pc[r] = label
  /\ context' = [context EXCEPT ![field] = value]
  /\ Goto(r, next)
  /\ Disturbs(r)
  /\ UNCHANGED <<tables, rates, intent, locals, books, offered, events>>

\* The assignments in their order; the profile is the approved one just read.
StoreContext(r) ==
  \/ Store(r, "sender=", "sender", sender[r], "receiver=")
  \/ Store(r, "receiver=", "receiver", StoredReceiver(r), "kyc=")
  \/ Store(r, "kyc=", "kyc", "APPROVED", "amount=")
  \/ Store(r, "amount=", "amount", intent[r].amount, "from=")
  \/ Store(r, "from=", "from", intent[r].from, "to=")
  \/ Store(r, "to=", "to", intent[r].to, "receiver?")

\* ... and fetches the receiver if the service has none now.
ReceiverStored(r) ==
  /\ pc[r] = "receiver?"
  /\ Goto(r, IF context.receiver = Nil THEN "fetch" ELSE "KYC")
  /\ UNCHANGED <<tables, rates, context, intent, locals, ghosts, events>>

FetchReceiver(r) ==
  /\ pc[r] = "fetch"
  /\ \/ /\ Succeeds /\ users[intent[r].receiver] # Nil
        /\ receiver' = [receiver EXCEPT ![r] = users[intent[r].receiver]]
        /\ context' = [context EXCEPT !.receiver = users[intent[r].receiver]]
        /\ Disturbs(r)
     \/ /\ Fails \/ (Succeeds /\ users[intent[r].receiver] = Nil)
        /\ UNCHANGED <<receiver, context, disturbed>>
  /\ Goto(r, "KYC")
  /\ UNCHANGED <<tables, rates, intent, sender, score, level, total, decision, seen, quote,
                 books, offered>>

-----------------------------------------------------------------------------
(* The checks: reads of the service's fields, in the order of the code. *)

Judge(r, rule, triggered, points, next) ==
  /\ Goto(r, IF triggered /\ rule \in BlockingRules THEN "rejected" ELSE next)
  /\ score' = [score EXCEPT ![r] = IF triggered THEN @ + points ELSE @]
  /\ decision' = [decision EXCEPT ![r] =
                    IF triggered /\ rule \in BlockingRules THEN "REJECT" ELSE @]
  /\ UNCHANGED <<tables, rates, context, intent, sender, receiver, level, total, seen, quote,
                 disturbed, offered>>

\* A check that asks no table.
Check(r, label, rule, triggered, points, next) ==
  /\ pc[r] = label
  /\ Judge(r, rule, triggered, points, next)
  /\ UNCHANGED <<books, events>>

\* The sender and the profile every request stores have passed before.
CheckKYCCompleted(r) ==
  Check(r, "KYC", "KYC_NOT_COMPLETED",
        ~ CanTransact(context.sender) \/ ~ IsApproved(context.kyc), 100, "sender frozen")

CheckSenderFrozen(r) ==
  Check(r, "sender frozen", "USER_FROZEN", IsFrozen(context.sender), 100, "receiver frozen")

\* The receiver is tested for nil ...
CheckReceiverFrozen(r) ==
  Check(r, "receiver frozen", "USER_FROZEN", FALSE, 0,
        IF context.receiver = Nil THEN "receiver id" ELSE "receiver.status")

\* ... and then used: a nil that was stored in between is a panic.
ReadReceiverStatus(r) ==
  \/ /\ pc[r] = "receiver.status" /\ context.receiver = Nil
     /\ Goto(r, "broken")
     /\ UNCHANGED <<tables, rates, context, intent, locals, ghosts, events>>
  \/ /\ context.receiver # Nil
     /\ Check(r, "receiver.status", "USER_FROZEN", IsFrozen(context.receiver), 100, "level")

\* Without a receiver the id is empty and names nobody; a receiver that was
\* stored in between is read again from the table.
LookupReceiver(r) ==
  /\ pc[r] = "receiver id"
  /\ \/ Succeeds /\ Judge(r, "USER_FROZEN", \/ context.receiver = Nil
                                            \/ users[context.receiver.id] = Nil
                                            \/ IsFrozen(users[context.receiver.id]), 100, "level")
     \/ Fails /\ Judge(r, "USER_FROZEN", TRUE, 100, "level")
  /\ UNCHANGED books

ReadLevel(r, label, next) ==
  /\ pc[r] = label
  /\ level' = [level EXCEPT ![r] = context.sender.level]
  /\ Goto(r, next)
  /\ UNCHANGED <<tables, rates, context, intent, sender, receiver, score, total, decision, seen,
                 quote, ghosts, events>>

CheckAmountLimit(r) ==
  \/ ReadLevel(r, "level", "amount")
  \/ Check(r, "amount", "AMOUNT_EXCEEDS_LIMIT", context.amount > SingleTxLimit(level[r]), 40,
           "daily total")

DailyExceeded(sent, amount, riskLevel) == Wrapped(sent + amount) > DailyLimit(riskLevel)

GetDailyTotal(r) ==
  /\ pc[r] = "daily total"
  /\ \/ /\ Succeeds
        /\ total' = [total EXCEPT ![r] = DailyTotal(context.sender.id)]
        /\ books' = [books EXCEPT ![r] = [asked |-> TRUE, total |-> DailyTotal(intent[r].sender),
                                         count |-> 0]]
        /\ Goto(r, "daily level")
     \/ Fails /\ Goto(r, "from") /\ UNCHANGED <<total, books>>
  /\ UNCHANGED <<tables, rates, context, intent, sender, receiver, score, level, decision, seen,
                 quote, disturbed, offered>>

CheckDailyLimit(r) ==
  \/ GetDailyTotal(r)
  \/ ReadLevel(r, "daily level", "daily amount")
  \/ Check(r, "daily amount", "DAILY_LIMIT_EXCEEDED",
           DailyExceeded(total[r], context.amount, level[r]), 30, "from")

CheckRestrictedCountry(r) ==
  \/ Check(r, "from", "RESTRICTED_COUNTRY", context.from \in RestrictedCountries, 100, "to")
  \/ Check(r, "to", "RESTRICTED_COUNTRY", context.to \in RestrictedCountries, 100, "frequency")

CheckHighFrequency(r) ==
  /\ pc[r] = "frequency"
  /\ \/ /\ Succeeds
        /\ books' = [books EXCEPT ![r].count = RecentTxCount(intent[r].sender)]
        /\ Judge(r, "HIGH_FREQUENCY", RecentTxCount(context.sender.id) >= Frequent, 50,
                 "large amount")
     \/ Fails /\ UNCHANGED books /\ Judge(r, "HIGH_FREQUENCY", FALSE, 50, "large amount")

\* Every account was created after 1970: nobody is an old user.
CheckNewUserLargeAmount(r) ==
  Check(r, "large amount", "NEW_USER_LARGE_AMOUNT", context.amount > LargeAmount, 60,
        "sanctioned from")

CheckSanctionedCountry(r) ==
  \/ Check(r, "sanctioned from", "SANCTIONED_COUNTRY", context.from \in RestrictedCountries, 100,
           "sanctioned to")
  \/ Check(r, "sanctioned to", "SANCTIONED_COUNTRY", context.to \in RestrictedCountries, 100,
           "decide")

\* A payment to be reviewed goes on like any other.
Decide(r) ==
  /\ pc[r] = "decide"
  /\ decision' = [decision EXCEPT ![r] = Decision(score[r])]
  /\ Goto(r, IF Decision(score[r]) = "REJECT" THEN "rejected" ELSE "source rate")
  /\ UNCHANGED <<tables, rates, context, intent, sender, receiver, score, level, total, seen,
                 quote, ghosts, events>>

-----------------------------------------------------------------------------
(* The quote *)

USDRate(currency) == IF currency = Usd THEN Unit ELSE rates[currency]

ReadSourceRate(r) ==
  /\ pc[r] = "source rate"
  /\ seen' = [seen EXCEPT ![r].source = USDRate(intent[r].source)]
  /\ Goto(r, "target rate")
  /\ UNCHANGED <<tables, rates, context, intent, sender, receiver, score, level, total, decision,
                 quote, ghosts, events>>

ReadTargetRate(r) ==
  /\ pc[r] = "target rate"
  /\ seen' = [seen EXCEPT ![r].target = USDRate(intent[r].target)]
  /\ Goto(r, "quote")
  /\ UNCHANGED <<tables, rates, context, intent, sender, receiver, score, level, total, decision,
                 quote, ghosts, events>>

\* The rate of a pair; a currency is worth itself.
Rate(i, source, target) == IF i.source = i.target THEN Unit ELSE PairRate(source, target)

ConvertToUSD(currency, amount) ==
  IF currency = Usd THEN amount ELSE Wrapped(SourceAmount(amount, rates[currency]))

\* The fee is computed from the source rate as it is by then.  The amounts are
\* computed with numbers of any length and cut to int64 at the end, the product
\* with the basis points is one of int64.
GetQuote(r) ==
  /\ pc[r] = "quote"
  /\ quote' = [quote EXCEPT ![r] =
       [target |-> Wrapped(TargetAmount(intent[r].amount,
                                        Rate(intent[r], seen[r].source, seen[r].target))),
        fee |-> QuoteFee(Wrapped(ConvertToUSD(intent[r].source, intent[r].amount)
                                 * FeeBasisPointsUSD))]]
  /\ Goto(r, "quoted")
  /\ UNCHANGED <<tables, rates, context, intent, sender, receiver, score, level, total, decision,
                 seen, ghosts, events>>

\* The rest of CreatePayment inserts the order, or refuses it.
PlaceOrder(r) ==
  /\ pc[r] = "quoted"
  /\ \/ orders' = [orders EXCEPT ![r] = "open"] /\ Goto(r, "placed")
     \/ UNCHANGED orders /\ Goto(r, "refused")
  /\ UNCHANGED <<users, profiles, rates, context, intent, locals, ghosts, events>>

-----------------------------------------------------------------------------
(* Everything else *)

Happens == events < MaxEvents /\ events' = events + 1

\* UpdateUserStatus and UpdateUserRiskLevel
UpdateUser(u, row) ==
  /\ Happens
  /\ users[u] # Nil /\ row.id = u
  /\ \/ MayBecome(users[u].status, row.status) /\ row.level = users[u].level
     \/ row.status = users[u].status /\ row.level # users[u].level
  /\ users' = [users EXCEPT ![u] = row]
  /\ UNCHANGED <<profiles, orders, rates, context, pc, intent, locals, ghosts>>

\* A profile is submitted again, or reviewed; no profile ever expires.
UpdateProfile(u, status) ==
  /\ Happens
  /\ \E old \in profiles[u] :
       /\ KYCMayBecome(old, status) /\ status # "EXPIRED"
       /\ profiles' = [profiles EXCEPT ![u] =
            IF status = "PENDING" THEN @ \cup {status} ELSE (@ \ {old}) \cup {status}]
  /\ UNCHANGED <<users, orders, rates, context, pc, intent, locals, ghosts>>

\* The fields a map of new rates has are replaced under the lock, all at once.
FetchLiveRates(fetched) ==
  /\ Happens
  /\ rates' = fetched
  /\ offered' = [r \in Requests |-> [c \in Priced |-> offered[r][c] \cup {fetched[c]}]]
  /\ UNCHANGED <<tables, context, pc, intent, locals, disturbed, books>>

\* An order that fails does not count for the day any more.
FailOrder(r) ==
  /\ Happens
  /\ orders[r] = "open"
  /\ orders' = [orders EXCEPT ![r] = "failed"]
  /\ UNCHANGED <<users, profiles, rates, context, pc, intent, locals, ghosts>>

RequestStep(r) ==
  \/ GetProfile(r) \/ GetReceiver(r) \/ StoreContext(r) \/ ReceiverStored(r) \/ FetchReceiver(r)
  \/ CheckKYCCompleted(r) \/ CheckSenderFrozen(r) \/ CheckReceiverFrozen(r)
  \/ ReadReceiverStatus(r) \/ LookupReceiver(r) \/ CheckAmountLimit(r) \/ CheckDailyLimit(r)
  \/ CheckRestrictedCountry(r) \/ CheckHighFrequency(r) \/ CheckNewUserLargeAmount(r)
  \/ CheckSanctionedCountry(r) \/ Decide(r)
  \/ ReadSourceRate(r) \/ ReadTargetRate(r) \/ GetQuote(r) \/ PlaceOrder(r)

Next ==
  \/ \E r \in Requests : (\E i \in Intents : GetSender(r, i)) \/ RequestStep(r) \/ FailOrder(r)
  \/ /\ events < MaxEvents
     /\ \/ \E u \in Members :
             \/ \E row \in UserRows : UpdateUser(u, row)
             \/ \E status \in KYCStatuses : UpdateProfile(u, status)
        \/ \E fetched \in [Priced -> UsdRates] : FetchLiveRates(fetched)

Spec == Init /\ [][Next]_vars

-----------------------------------------------------------------------------
(* Properties *)

Labels == Assessing \cup {"new", "profile", "receiver", "decide", "source rate", "target rate",
                          "quote", "quoted", "placed", "refused", "rejected", "broken"}

\* The shape of every variable.
TypeOK ==
  /\ users \in [Members -> UserRows \cup {Nil}]
  /\ profiles \in [Members -> SUBSET KYCStatuses]
  /\ orders \in [Requests -> {"none", "open", "failed"}]
  /\ rates \in [Priced -> UsdRates]
  /\ context.receiver \in UserRows \cup {Nil} /\ context.amount \in Int
  /\ \A r \in Requests : pc[r] \in Checks => context.sender \in UserRows
  /\ pc \in [Requests -> Labels]
  /\ intent \in [Requests -> Intents \cup {NoIntent}]
  /\ sender \in [Requests -> UserRows \cup {Nil}]
  /\ receiver \in [Requests -> UserRows \cup {Nil}]
  /\ score \in [Requests -> Nat]
  /\ level \in [Requests -> RiskLevels]
  /\ total \in [Requests -> Int]
  /\ decision \in [Requests -> {"none", "PASS", "MANUAL_REVIEW", "REJECT"}]
  /\ seen \in [Requests -> [source: Nat, target: Nat]]
  /\ quote \in [Requests -> [target: Int, fee: Int]]
  /\ events \in 0..MaxEvents

\* The rules of the assessment applied to the payment of a request itself.
Points(triggered, points) == IF triggered THEN points ELSE 0

OwnScore(r) ==
  LET amount == intent[r].amount
      riskLevel == sender[r].level
  IN  Points(amount > SingleTxLimit(riskLevel), 40)
      + Points(books[r].asked /\ DailyExceeded(books[r].total, amount, riskLevel), 30)
      + Points(books[r].count >= Frequent, 50)
      + Points(amount > LargeAmount, 60)

OwnVerdict(r) ==
  IF \/ receiver[r] = Nil \/ {intent[r].from, intent[r].to} \cap RestrictedCountries # {}
  THEN "REJECT"
  ELSE IF receiver[r].status = "FROZEN" \/ OwnScore(r) >= 100 THEN "REJECT"
  ELSE IF OwnScore(r) >= 50 THEN "MANUAL_REVIEW" ELSE "PASS"

\* An assessment into which no other request wrote decides about its own
\* payment, by all the rules whose tables can be read, and does not panic:
\* nothing of the assessments before it is left in the service.
LoneAssessmentIsRight ==
  \A r \in Requests \ disturbed :
    /\ decision[r] # "none" => decision[r] = OwnVerdict(r)
    /\ pc[r] # "broken"

\* The documents concede that a service shared by requests is not safe, and say
\* that storing the context at the entry of AssessPayment makes one call of it
\* atomic all the same: every assessment decides about its own payment.
AssessmentIsAtomic ==
  \A r \in Requests : decision[r] # "none" => decision[r] = OwnVerdict(r)

\* The rates of a currency since a request came.
Offered(r, c) == IF c = Usd THEN {Precision} ELSE offered[r][c]

\* The rate is rounded by half of its last digit at most, and the amount by less
\* than a cent downwards.
FairTarget(r) ==
  LET amount == intent[r].amount
      target == quote[r].target
  IN  \E s \in Offered(r, intent[r].source), t \in Offered(r, intent[r].target) :
        IF intent[r].source = intent[r].target THEN target = amount
        ELSE LET half == IF amount > 0 THEN s ELSE -s
             IN  /\ 2 * s * Precision * target <= amount * (2 * t * Precision + half)
                 /\ amount * (2 * t * Precision - half) < 2 * s * Precision * (target + 1)

\* Less than a cent from one per cent, and no more than that of a positive amount.
FairFee(r) ==
  LET amount == intent[r].amount
      fee == quote[r].fee
  IN  \E s \in Offered(r, intent[r].source) :
        /\ 100 * s * (fee - 1) < amount * Precision
        /\ amount * Precision < 100 * s * (fee + 1)
        /\ amount > 0 => 100 * s * fee <= amount * Precision

\* At no rates of a currency since the request came does the amount leave int64,
\* in the target currency or in basis points of a dollar.
Fits(r) ==
  LET amount == intent[r].amount
  IN  /\ intent[r].source # intent[r].target =>
           \A s \in Offered(r, intent[r].source), t \in Offered(r, intent[r].target) :
             TargetAmount(amount, PairRate(s, t)) \in Int64
      /\ \A s \in Offered(r, intent[r].source) :
           /\ SourceAmount(amount, s) \in Int64
           /\ SourceAmount(amount, s) * FeeBasisPointsUSD \in Int64

\* However the rates change while a quote is made, its two amounts are those of
\* rates offered since the request came, up to the rounding, unless they are too
\* large for the machine: a fee of the largest amounts is anything.
QuotesAreFair ==
  \A r \in Requests :
    pc[r] \in {"quoted", "placed"} /\ Fits(r) => FairTarget(r) /\ FairFee(r)
===============================================================================
