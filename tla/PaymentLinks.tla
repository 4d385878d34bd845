----------------------------- MODULE PaymentLinks -----------------------------
(***************************************************************************)
(* Payment links and transfer orders: the service                          *)
(* internal/service/transfer_svc.go over the tables payment_links,         *)
(* transfer_orders and transfer_contacts.                                  *)
(*                                                                         *)
(* Every HTTP request is a process.  A link is read with one statement and *)
(* changed with a later one that names only its id, so that requests for   *)
(* one link interleave between the two.  A statement may fail, and the     *)
(* service may die with all its requests; the tables survive.              *)
(***************************************************************************)
EXTENDS Integers, FiniteSets, FiniteSetsExt

CONSTANTS Users, Links, Quotes, Accounts,
          Amounts,     \* the amounts a link may ask for, in cents
          Requests,    \* the HTTP requests of a behaviour
          MaxFaults,   \* how many statements may fail
          MaxCrashes   \* how many times the service may die

ASSUME AmountAssumption == Amounts \subseteq Int
\* Ids have a prefix that tells what they name.
ASSUME NameAssumption == "none" \notin Links /\ Links \cap Quotes = {}
ASSUME LimitAssumption == MaxFaults \in Nat /\ MaxCrashes \in Nat

\* The values of a column that is not set, and of a link that does not exist.
None == "none"
NoLink == [status |-> None]
NoRequest == [op |-> None]

VARIABLES
  links,     \* table payment_links
  past,      \* the links whose expire_at is over
  orders,    \* table transfer_orders
  contacts,  \* table transfer_contacts: owner, target and account to count and total
  pc,        \* where a request stands
  request,   \* what a request asks for
  seen,      \* the link as a request has read it
  faults, crashes

tableVars == <<links, orders, contacts>>
vars == <<links, past, orders, contacts, pc, request, seen, faults, crashes>>

-----------------------------------------------------------------------------
(* Rows *)

Fee == 20

Link(creator, account, amount) ==
  [creator |-> creator, account |-> account, amount |-> amount, paid |-> 0,
   status |-> "pending"]

LinkRows == [creator: Users, account: Accounts, amount: Amounts, paid: Nat,
             status: {"pending", "paid", "expired", "cancelled"}]

\* Mutant: a link that was paid is still taken for payable.
PayableOnceMore(link) == link.status \in {"pending", "viewed", "paid"}

\* A link can be paid and cancelled as long as it is pending or viewed.
Payable(link) == link.status \in {"pending", "viewed"}

\* The idempotency key of a payment: the link and, in another column, the payer.
LinkKey(r) == <<request[r].link, request[r].user>>

LinkOrder(r) ==
  [id |-> r, payer |-> request[r].user, receiver |-> seen[r].creator,
   account |-> seen[r].account, link |-> request[r].link,
   debit |-> seen[r].amount + Fee, amount |-> seen[r].amount,
   status |-> "succeeded", key |-> LinkKey(r)]

\* ConfirmTransfer knows nothing but the payer and the quote.
QuoteOrder(r, user, quote) ==
  [id |-> r, payer |-> user, receiver |-> None, account |-> None, link |-> None,
   debit |-> 0, amount |-> 0, status |-> "processing", key |-> <<quote>>]

Keys == (Links \X Users) \cup { <<quote>> : quote \in Quotes }

OrderRows == [id: Requests, payer: Users, receiver: Users \cup {None},
              account: Accounts \cup {None}, link: Links \cup {None}, debit: Int,
              amount: Int, status: {"processing", "succeeded"}, key: Keys]

ContactRows == [count: Nat, total: Int]

\* Mutant: the index is on the transfer id alone.
KeyFreeById(order) == \A o \in orders : o.id # order.id

\* UNIQUE (payer_user_id, idempotency_key)
KeyFree(order) == \A o \in orders : o.payer # order.payer \/ o.key # order.key

-----------------------------------------------------------------------------
Init ==
  /\ links = [l \in Links |-> NoLink]
  /\ past = {}
  /\ orders = {}
  /\ contacts = [c \in Users \X Users \X Accounts |-> [count |-> 0, total |-> 0]]
  /\ pc = [r \in Requests |-> "new"]
  /\ request = [r \in Requests |-> NoRequest]
  /\ seen = [r \in Requests |-> NoLink]
  /\ faults = 0
  /\ crashes = 0

Succeeds == UNCHANGED faults
Fails == faults < MaxFaults /\ faults' = faults + 1
Goto(r, label) == pc' = [pc EXCEPT ![r] = label]

\* CreatePaymentLink; the receiving account exists and never goes away.
CreatePaymentLink(l, creator, account, amount) ==
  /\ links[l] = NoLink
  /\ links' = [links EXCEPT ![l] = Link(creator, account, amount)]
  /\ UNCHANGED <<past, orders, contacts, pc, request, seen, faults, crashes>>

\* expire_at passes.
LinkExpires(l) ==
  /\ links[l] # NoLink /\ l \notin past
  /\ past' = past \cup {l}
  /\ UNCHANGED <<tableVars, pc, request, seen, faults, crashes>>

\* A request for a link arrives and reads its row.  Paying takes a payable
\* link, cancelling its creator as well.
Accepts(op, user, link) ==
  \/ op = "view"
  \/ op = "pay" /\ Payable(link)
  \/ op = "cancel" /\ link.creator = user /\ Payable(link)

GetPaymentLink(r, op, user, l) ==
  /\ pc[r] = "new"
  /\ links[l] # NoLink
  /\ request' = [request EXCEPT ![r] = [op |-> op, user |-> user, link |-> l]]
  /\ seen' = [seen EXCEPT ![r] = links[l]]
  /\ Goto(r, IF ~ Accepts(op, user, links[l]) THEN "refused"
             ELSE IF op = "cancel" THEN "cancel" ELSE "clock")
  /\ UNCHANGED <<past, tableVars, faults, crashes>>

\* The clock is compared with the expire_at of the row read before.
CheckExpiry(r) ==
  /\ pc[r] = "clock"
  /\ IF request[r].op = "pay"
     THEN Goto(r, IF request[r].link \in past THEN "expire" ELSE "order")
     ELSE Goto(r, IF seen[r].status = "pending" /\ request[r].link \in past
                  THEN "expire" ELSE "served")
  /\ UNCHANGED <<past, tableVars, request, seen, faults, crashes>>

\* Mutant: the public page marks what it has shown.
StatusUpdateViewed(l, status) ==
  [links EXCEPT ![l].status = IF status = "expired" THEN "viewed" ELSE status]

\* UpdatePaymentLinkStatus
StatusUpdate(l, status) == [links EXCEPT ![l].status = status]

\* GetPaymentLinkByToken and PayPaymentLink mark the link they found too old;
\* the error of the update is dropped, and a payer is refused.
MarkExpired(r) ==
  /\ pc[r] = "expire"
  /\ \/ Succeeds /\ links' = StatusUpdate(request[r].link, "expired")
     \/ Fails /\ UNCHANGED links
  /\ Goto(r, IF request[r].op = "pay" THEN "refused" ELSE "served")
  /\ UNCHANGED <<past, orders, contacts, request, seen, crashes>>

\* Mutant: a failed cancellation puts back the status it had read.
MarkCancelledOrRestore(r) ==
  /\ pc[r] = "cancel"
  /\ \/ /\ Succeeds
        /\ links' = StatusUpdate(request[r].link, "cancelled")
        /\ Goto(r, "served")
     \/ Fails /\ links' = StatusUpdate(request[r].link, seen[r].status) /\ Goto(r, "refused")
  /\ UNCHANGED <<past, orders, contacts, request, seen, crashes>>

\* CancelPaymentLink reports the error of its update.
MarkCancelled(r) ==
  /\ pc[r] = "cancel"
  /\ \/ /\ Succeeds
        /\ links' = StatusUpdate(request[r].link, "cancelled")
        /\ Goto(r, "served")
     \/ Fails /\ UNCHANGED links /\ Goto(r, "refused")
  /\ UNCHANGED <<past, orders, contacts, request, seen, crashes>>

\* PayPaymentLink looks at the balance of the source account, which moves
\* with everything else the user does, and inserts the order.  No account is
\* changed.
CreateTransferOrder(r) ==
  /\ pc[r] = "order"
  /\ \/ Succeeds /\ UNCHANGED orders /\ Goto(r, "refused")    \* cannot debit
     \/ /\ Succeeds
        /\ KeyFree(LinkOrder(r))
        /\ orders' = orders \cup {LinkOrder(r)}
        /\ Goto(r, "paid")
     \/ /\ (Succeeds /\ ~ KeyFree(LinkOrder(r))) \/ Fails
        /\ UNCHANGED orders
        /\ Goto(r, "refused")
  /\ UNCHANGED <<links, past, contacts, request, seen, crashes>>

\* Mutant: the error of UpdatePaymentLinkPaid is reported.
AfterPaidError == "refused"

\* Where PayPaymentLink goes on if the link could not be marked.
AfterPaid == "contact"

\* Mutant: the count is written from the row read before.
CountPaidStale(r) == seen[r].paid + 1

CountPaid(r) == links[request[r].link].paid + 1

\* UpdatePaymentLinkPaid, whatever became of the link meanwhile.
MarkPaid(r) ==
  /\ pc[r] = "paid"
  /\ LET l == request[r].link
     IN  \/ /\ Succeeds
            /\ links' = [links EXCEPT ![l].status = "paid", ![l].paid = CountPaid(r)]
            /\ Goto(r, "contact")
         \/ Fails /\ UNCHANGED links /\ Goto(r, AfterPaid)
  /\ UNCHANGED <<past, orders, contacts, request, seen, crashes>>

ContactAmount(r) == seen[r].amount

\* recordContact adds to the row of the contact in one statement.
RecordContact(r) ==
  /\ pc[r] = "contact"
  /\ LET c == <<request[r].user, seen[r].creator, seen[r].account>>
     IN  \/ /\ Succeeds
            /\ contacts' = [contacts EXCEPT ![c] =
                              [count |-> @.count + 1, total |-> @.total + ContactAmount(r)]]
         \/ Fails /\ UNCHANGED contacts
  /\ Goto(r, "served")
  /\ UNCHANGED <<links, past, orders, request, seen, crashes>>

\* ConfirmTransfer inserts an order that has no receiver ...
ConfirmTransfer(r, user, quote) ==
  /\ pc[r] = "new"
  /\ request' = [request EXCEPT ![r] = [op |-> "confirm", user |-> user, quote |-> quote]]
  /\ LET order == QuoteOrder(r, user, quote)
     IN  \/ /\ Succeeds
            /\ KeyFree(order)
            /\ orders' = orders \cup {order}
            /\ Goto(r, "succeed")
         \/ /\ (Succeeds /\ ~ KeyFree(order)) \/ Fails
            /\ UNCHANGED orders
            /\ Goto(r, "refused")
  /\ UNCHANGED <<links, past, contacts, seen, crashes>>

\* ... marks it succeeded, and then panics in recordContact, which takes the
\* last four characters of the empty account: the client is told of an
\* internal error.
MarkSucceeded(r) ==
  /\ pc[r] = "succeed"
  /\ \/ /\ Succeeds
        /\ orders' = { IF o.id = r THEN [o EXCEPT !.status = "succeeded"] ELSE o
                       : o \in orders }
     \/ Fails /\ UNCHANGED orders
  /\ Goto(r, "broken")
  /\ UNCHANGED <<links, past, contacts, request, seen, crashes>>

Running == {"clock", "expire", "cancel", "order", "paid", "contact", "succeed"}

\* The service dies; its requests get no answer.
Crash ==
  /\ crashes < MaxCrashes
  /\ crashes' = crashes + 1
  /\ pc' = [r \in Requests |-> IF pc[r] \in Running THEN "dead" ELSE pc[r]]
  /\ UNCHANGED <<past, tableVars, request, seen, faults>>

RequestStep(r) ==
  \/ CheckExpiry(r) \/ MarkExpired(r) \/ MarkCancelled(r) \/ CreateTransferOrder(r)
  \/ MarkPaid(r) \/ RecordContact(r) \/ MarkSucceeded(r)

Arrival(r) ==
  \E user \in Users :
    \/ \E op \in {"view", "pay", "cancel"}, l \in Links : GetPaymentLink(r, op, user, l)
    \/ \E quote \in Quotes : ConfirmTransfer(r, user, quote)

Next ==
  \/ \E l \in Links, creator \in Users, account \in Accounts, amount \in Amounts :
       CreatePaymentLink(l, creator, account, amount)
  \/ \E l \in Links : LinkExpires(l)
  \/ \E r \in Requests : Arrival(r) \/ RequestStep(r)
  \/ Crash

Spec == Init /\ [][Next]_vars

-----------------------------------------------------------------------------
(* Properties *)

Labels == Running \cup {"new", "served", "refused", "broken", "dead"}

\* The shape of every variable.
TypeOK ==
  /\ links \in [Links -> LinkRows \cup {NoLink}]
  /\ past \subseteq Links
  /\ orders \subseteq OrderRows
  /\ contacts \in [Users \X Users \X Accounts -> ContactRows]
  /\ pc \in [Requests -> Labels]
  /\ seen \in [Requests -> LinkRows \cup {NoLink}]
  /\ faults \in 0..MaxFaults /\ crashes \in 0..MaxCrashes

OrdersOf(l) == { o \in orders : o.link = l }

\* Paying checks a link and marks it later.  Still nobody pays who came after
\* a payment was counted, or after the link was cancelled or marked expired:
\* more than one payment of a link takes payers who all read it before.
PayersSawPayableLink ==
  \A o \in orders : o.link \in Links => Payable(seen[o.id]) /\ seen[o.id].paid = 0

\* The updates of a link do not look at its status, so paid, cancelled and
\* expired overwrite one another; but none of them, nor a failed one, makes
\* the link payable again.
LinkClosesForGood ==
  [][\A l \in Links : links[l] # NoLink /\ ~ Payable(links[l])
       => links'[l] # NoLink /\ ~ Payable(links'[l])]_vars

\* However often a request is repeated, at the same time too, a user pays a
\* link once and confirms a quote once.
OneOrderPerPayer ==
  \A o, p \in orders : o.payer = p.payer /\ o.key[1] = p.key[1] => o = p

\* The count of payments of a link is that of its orders, less the payments
\* that are under way, were cut off by a crash, or failed to mark the link.
PaidCountFollowsOrders ==
  \A l \in { k \in Links : links[k] # NoLink } :
    LET cut == { o \in OrdersOf(l) : pc[o.id] \in {"paid", "dead"} }
    IN  /\ links[l].paid <= Cardinality(OrdersOf(l))
        /\ Cardinality(OrdersOf(l)) <= links[l].paid + Cardinality(cut) + faults

\* A payer told of a payment has an order, and one who was refused has none,
\* whatever failed after the order was inserted.
AnswersTellOrders ==
  \A r \in Requests : request[r] # NoRequest /\ request[r].op = "pay" =>
    /\ pc[r] = "served" => \E o \in orders : o.id = r
    /\ pc[r] = "refused" => \A o \in orders : o.id # r
===============================================================================
