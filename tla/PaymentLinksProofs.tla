-------------------------- MODULE PaymentLinksProofs --------------------------
(***************************************************************************)
(* What PaymentLinks guarantees for every number of users, links and       *)
(* requests, proved by one inductive invariant.                            *)
(***************************************************************************)
EXTENDS PaymentLinks, FiniteSetTheorems, TLAPS

\* The tables and the requests have their shape.
ShapeInv ==
  /\ links \in [Links -> LinkRows \cup {NoLink}]
  /\ past \subseteq Links
  /\ orders \subseteq OrderRows
  /\ contacts \in [Users \X Users \X Accounts -> ContactRows]
  /\ pc \in [Requests -> Labels]
  /\ DOMAIN request = Requests
  /\ seen \in [Requests -> LinkRows \cup {NoLink}]
  /\ faults \in 0..MaxFaults /\ crashes \in 0..MaxCrashes

\* Where a request about a link is under way.
OnLink == {"clock", "expire", "cancel", "order", "paid", "contact"}

\* A request under way has read a link that exists.
ReadInv ==
  \A r \in Requests : pc[r] \in OnLink =>
    /\ request[r].user \in Users
    /\ request[r].link \in Links
    /\ links[request[r].link] \in LinkRows
    /\ seen[r] \in LinkRows

\* A request that goes on to pay has read a payable link, not yet paid.
PayInv ==
  \A r \in Requests :
    /\ pc[r] \in {"order", "paid", "contact"} => request[r].op = "pay"
    /\ pc[r] \in {"cancel", "succeed"} => request[r].op # "pay"
    /\ pc[r] \in {"clock", "order", "paid", "contact"} /\ request[r].op = "pay" =>
         Payable(seen[r]) /\ seen[r].paid = 0

\* A link that can be paid has not been paid.
LinkInv == \A l \in Links : Payable(links[l]) => links[l].paid = 0

\* The labels at which a request has an order.
Ordered == {"paid", "contact", "succeed", "served", "broken", "dead"}

\* The order of a request has the payer and the link, or the quote, in its key.
OrderInv ==
  \A o \in orders :
    /\ o.id \in Requests /\ pc[o.id] \in Ordered
    /\ \/ /\ o.link \in Links /\ o.key = <<o.link, o.payer>>
          /\ Payable(seen[o.id]) /\ seen[o.id].paid = 0
       \/ o.link = "none" /\ \E quote \in Quotes : o.key = <<quote>>

\* The unique index.
KeyInv == \A o, p \in orders : o.payer = p.payer /\ o.key = p.key => o = p

\* A payment under way or told has its order.
PaidInv ==
  \A r \in Requests :
    pc[r] \in {"paid", "contact"} \/ (pc[r] = "served" /\ request[r].op = "pay")
      => \E o \in orders : o.id = r

IInv == ShapeInv /\ ReadInv /\ PayInv /\ LinkInv /\ OrderInv /\ KeyInv /\ PaidInv

-----------------------------------------------------------------------------
LEMMA InitIInv == Init => IInv
<1> SUFFICES ASSUME Init PROVE IInv
  OBVIOUS
<1>1. ShapeInv
  BY LimitAssumption DEF Init, ShapeInv, ContactRows, Labels, NoLink, NoRequest
<1>2. ReadInv /\ PayInv
  BY DEF Init, ReadInv, PayInv, OnLink
<1>3. LinkInv
  BY DEF Init, LinkInv, Payable, NoLink, None
<1>4. OrderInv /\ KeyInv /\ PaidInv
  BY DEF Init, OrderInv, KeyInv, PaidInv
<1> QED
  BY <1>1, <1>2, <1>3, <1>4 DEF IInv

LEMMA CreateIInv ==
  ASSUME IInv, NEW l \in Links, NEW creator \in Users, NEW account \in Accounts,
         NEW amount \in Amounts, CreatePaymentLink(l, creator, account, amount)
  PROVE  IInv'
<1> USE DEF IInv, CreatePaymentLink
<1> DEFINE row == Link(creator, account, amount)
<1>1. row \in LinkRows /\ row.paid = 0
  BY DEF Link, LinkRows
<1>2. links' = [links EXCEPT ![l] = row] /\ links' \in [Links -> LinkRows \cup {NoLink}]
  BY <1>1 DEF ShapeInv
<1>3. \A k \in Links : links[k] \in LinkRows => links'[k] \in LinkRows
  BY <1>1, <1>2 DEF ShapeInv
<1> HIDE DEF row
<1>4. ShapeInv'
  BY <1>2 DEF ShapeInv
<1>5. ReadInv'
  BY <1>3 DEF ReadInv
<1>6. PayInv' /\ OrderInv' /\ KeyInv' /\ PaidInv'
  BY DEF PayInv, OrderInv, KeyInv, PaidInv
<1>7. LinkInv'
  BY <1>1, <1>2 DEF LinkInv, ShapeInv, Payable
<1> QED
  BY <1>4, <1>5, <1>6, <1>7

LEMMA ExpiresIInv ==
  ASSUME IInv, NEW l \in Links, LinkExpires(l)
  PROVE  IInv'
BY DEF IInv, LinkExpires, tableVars, ShapeInv, ReadInv, PayInv, LinkInv, OrderInv, KeyInv,
       PaidInv

LEMMA CrashIInv ==
  ASSUME IInv, Crash
  PROVE  IInv'
<1> USE DEF IInv, Crash, tableVars
<1>1. \A r \in Requests : (pc'[r] = pc[r] /\ pc[r] \notin Running) \/ pc'[r] = "dead"
  BY DEF ShapeInv
<1>2. ShapeInv'
  BY LimitAssumption DEF ShapeInv, Labels, Running
<1>3. ReadInv' /\ PayInv' /\ PaidInv'
  BY <1>1 DEF ReadInv, PayInv, PaidInv, OnLink, Running
<1>4. LinkInv' /\ KeyInv'
  BY DEF LinkInv, KeyInv
<1>5. OrderInv'
  BY <1>1 DEF OrderInv, ShapeInv, Ordered
<1> QED
  BY <1>2, <1>3, <1>4, <1>5

LEMMA GetIInv ==
  ASSUME IInv, NEW r \in Requests, NEW op \in {"view", "pay", "cancel"}, NEW user \in Users,
         NEW l \in Links, GetPaymentLink(r, op, user, l)
  PROVE  IInv'
<1> USE DEF IInv, GetPaymentLink, tableVars
<1>1. /\ pc[r] = "new" /\ seen' = [seen EXCEPT ![r] = links[l]]
      /\ request' = [request EXCEPT ![r] = [op |-> op, user |-> user, link |-> l]]
      /\ links[l] \in LinkRows
  BY DEF ShapeInv
<1>2. PICK label \in {"refused", "cancel", "clock"} :
        /\ pc' = [pc EXCEPT ![r] = label]
        /\ label = "cancel" => op = "cancel"
        /\ label = "clock" /\ op = "pay" => Payable(links[l])
  BY DEF Goto, Accepts
<1>3. \A o \in orders : o.id # r
  BY <1>1 DEF OrderInv, Ordered
<1>4. ShapeInv'
  BY <1>1, <1>2 DEF ShapeInv, Labels, Running
<1>5. ReadInv'
  BY <1>1, <1>2 DEF ReadInv, ShapeInv
<1>6. PayInv'
  BY <1>1, <1>2 DEF PayInv, ShapeInv, LinkInv
<1>7. LinkInv' /\ KeyInv'
  BY DEF LinkInv, KeyInv
<1>8. OrderInv'
  BY <1>1, <1>2, <1>3 DEF OrderInv, ShapeInv
<1>9. PaidInv'
  BY <1>1, <1>2 DEF PaidInv, ShapeInv
<1> QED
  BY <1>4, <1>5, <1>6, <1>7, <1>8, <1>9

LEMMA CheckIInv ==
  ASSUME IInv, NEW r \in Requests, CheckExpiry(r)
  PROVE  IInv'
<1> USE DEF IInv, CheckExpiry, tableVars
<1>1. PICK label \in {"expire", "order", "served"} :
        /\ pc' = [pc EXCEPT ![r] = label]
        /\ label = "order" => request[r].op = "pay"
        /\ label = "served" => request[r].op # "pay"
  BY DEF Goto
<1>2. pc[r] = "clock"
  OBVIOUS
<1>3. \A o \in orders : o.id # r
  BY <1>2 DEF OrderInv, Ordered
<1>4. ShapeInv'
  BY <1>1 DEF ShapeInv, Labels, Running
<1>5. ReadInv'
  BY <1>1, <1>2 DEF ReadInv, ShapeInv, OnLink
<1>6. PayInv'
  BY <1>1, <1>2 DEF PayInv, ShapeInv
<1>7. LinkInv' /\ KeyInv'
  BY DEF LinkInv, KeyInv
<1>8. OrderInv'
  BY <1>1, <1>3 DEF OrderInv, ShapeInv
<1>9. PaidInv'
  BY <1>1, <1>2 DEF PaidInv, ShapeInv
<1> QED
  BY <1>4, <1>5, <1>6, <1>7, <1>8, <1>9

\* A link that is marked expired or cancelled.
LEMMA StatusRow ==
  ASSUME ShapeInv, NEW l \in Links, links[l] \in LinkRows,
         NEW status \in {"expired", "cancelled"}, links' = StatusUpdate(l, status)
  PROVE  /\ links' \in [Links -> LinkRows \cup {NoLink}]
         /\ links'[l] \in LinkRows
         /\ ~ Payable(links'[l])
         /\ \A k \in Links : k # l => links'[k] = links[k]
<1> DEFINE row == [links[l] EXCEPT !.status = status]
<1>1. row \in LinkRows /\ row.status = status
  BY DEF LinkRows
<1>2. links' = [links EXCEPT ![l] = row]
  BY DEF StatusUpdate
<1> HIDE DEF row
<1> QED
  BY <1>1, <1>2 DEF ShapeInv, Payable

LEMMA ExpireIInv ==
  ASSUME IInv, NEW r \in Requests, MarkExpired(r)
  PROVE  IInv'
<1> USE DEF IInv, MarkExpired
<1>1. PICK label \in {"refused", "served"} :
        pc' = [pc EXCEPT ![r] = label] /\ (label = "served" => request[r].op # "pay")
  BY DEF Goto
<1>2. pc[r] = "expire" /\ request[r].link \in Links /\ links[request[r].link] \in LinkRows
  BY DEF ReadInv, OnLink
<1>3. /\ links' \in [Links -> LinkRows \cup {NoLink}]
      /\ links'[request[r].link] \in LinkRows
      /\ \A k \in Links : links'[k] = links[k] \/ (links'[k] \in LinkRows /\ ~ Payable(links'[k]))
  BY <1>2, StatusRow DEF ShapeInv
<1>4. \A o \in orders : o.id # r
  BY <1>2 DEF OrderInv, Ordered
<1>5. ShapeInv'
  BY <1>1, <1>3, LimitAssumption DEF ShapeInv, Labels, Running, Succeeds, Fails
<1>6. ReadInv'
  BY <1>1, <1>3 DEF ReadInv, ShapeInv, OnLink
<1>7. PayInv'
  BY <1>1 DEF PayInv, ShapeInv
<1>8. LinkInv'
  BY <1>3 DEF LinkInv
<1>9. OrderInv' /\ KeyInv'
  BY <1>1, <1>4 DEF OrderInv, KeyInv, ShapeInv
<1>10. PaidInv'
  BY <1>1, <1>2 DEF PaidInv, ShapeInv
<1> QED
  BY <1>5, <1>6, <1>7, <1>8, <1>9, <1>10

LEMMA CancelIInv ==
  ASSUME IInv, NEW r \in Requests, MarkCancelled(r)
  PROVE  IInv'
<1> USE DEF IInv, MarkCancelled
<1>1. PICK label \in {"refused", "served"} : pc' = [pc EXCEPT ![r] = label]
  BY DEF Goto
<1>2. /\ pc[r] = "cancel" /\ request[r].link \in Links /\ links[request[r].link] \in LinkRows
      /\ request[r].op # "pay"
  BY DEF ReadInv, PayInv, OnLink
<1>3. /\ links' \in [Links -> LinkRows \cup {NoLink}]
      /\ \A k \in Links : links'[k] = links[k] \/ (links'[k] \in LinkRows /\ ~ Payable(links'[k]))
  BY <1>2, StatusRow DEF ShapeInv
<1>4. \A o \in orders : o.id # r
  BY <1>2 DEF OrderInv, Ordered
<1>5. ShapeInv'
  BY <1>1, <1>3, LimitAssumption DEF ShapeInv, Labels, Running, Succeeds, Fails
<1>6. ReadInv'
  BY <1>1, <1>3 DEF ReadInv, ShapeInv, OnLink
<1>7. PayInv'
  BY <1>1 DEF PayInv, ShapeInv
<1>8. LinkInv'
  BY <1>3 DEF LinkInv
<1>9. OrderInv' /\ KeyInv'
  BY <1>1, <1>4 DEF OrderInv, KeyInv, ShapeInv
<1>10. PaidInv'
  BY <1>1, <1>2 DEF PaidInv, ShapeInv
<1> QED
  BY <1>5, <1>6, <1>7, <1>8, <1>9, <1>10

LEMMA OrderIInv ==
  ASSUME IInv, NEW r \in Requests, CreateTransferOrder(r)
  PROVE  IInv'
<1> USE DEF IInv, CreateTransferOrder
<1>1. /\ pc[r] = "order" /\ request[r].op = "pay"
      /\ request[r].link \in Links /\ request[r].user \in Users
      /\ Payable(seen[r]) /\ seen[r].paid = 0 /\ seen[r] \in LinkRows
  BY DEF ReadInv, PayInv, OnLink
<1>2. \A o \in orders : o.id # r
  BY <1>1 DEF OrderInv, Ordered
<1>3. LinkInv'
  BY DEF LinkInv
<1>4. CASE orders' = orders /\ Goto(r, "refused")
  <2>1. pc' = [pc EXCEPT ![r] = "refused"]
    BY <1>4 DEF Goto
  <2>2. ShapeInv'
    BY <1>4, <2>1, LimitAssumption DEF ShapeInv, Labels, Succeeds, Fails
  <2>3. ReadInv' /\ PayInv'
    BY <2>1 DEF ReadInv, PayInv, ShapeInv, OnLink
  <2>4. OrderInv' /\ KeyInv' /\ PaidInv'
    BY <1>2, <1>4, <2>1 DEF OrderInv, KeyInv, PaidInv, ShapeInv
  <2> QED
    BY <1>3, <2>2, <2>3, <2>4
<1>5. CASE KeyFree(LinkOrder(r)) /\ orders' = orders \cup {LinkOrder(r)} /\ Goto(r, "paid")
  <2> DEFINE order == LinkOrder(r)
  <2>1. pc' = [pc EXCEPT ![r] = "paid"]
    BY <1>5 DEF Goto
  <2>2. /\ order.id = r /\ order.payer = request[r].user /\ order.link = request[r].link
        /\ order.key = <<request[r].link, request[r].user>>
        /\ order \in OrderRows
    <3>1. LinkKey(r) \in Keys
      BY <1>1 DEF LinkKey, Keys
    <3>2. /\ seen[r].creator \in Users /\ seen[r].account \in Accounts
          /\ seen[r].amount \in Amounts
      BY <1>1 DEF LinkRows
    <3>3. \A x \in Amounts : x \in Int /\ x + Fee \in Int
      BY AmountAssumption DEF Fee
    <3>4. order \in OrderRows
      BY <1>1, <3>1, <3>2, <3>3 DEF LinkOrder, OrderRows
    <3> QED
      BY <3>4 DEF LinkOrder, LinkKey
  <2>3. \A o \in orders : o.payer # order.payer \/ o.key # order.key
    BY <1>5 DEF KeyFree
  <2>4. orders' = orders \cup {order}
    BY <1>5
  <2> HIDE DEF order
  <2>5. ShapeInv'
    BY <1>1, <2>1, <2>2, <2>4, LimitAssumption DEF ShapeInv, Labels, Running, Succeeds, Fails
  <2>6. ReadInv' /\ PayInv'
    BY <1>1, <2>1 DEF ReadInv, PayInv, ShapeInv, OnLink
  <2>7. OrderInv'
    BY <1>1, <1>2, <2>1, <2>2, <2>4 DEF OrderInv, ShapeInv, Ordered
  <2>8. KeyInv'
    BY <2>3, <2>4 DEF KeyInv
  <2>9. PaidInv'
    BY <2>1, <2>2, <2>4 DEF PaidInv, ShapeInv
  <2> QED
    BY <1>3, <2>5, <2>6, <2>7, <2>8, <2>9
<1> QED
  BY <1>4, <1>5

LEMMA MarkIInv ==
  ASSUME IInv, NEW r \in Requests, MarkPaid(r)
  PROVE  IInv'
<1> USE DEF IInv, MarkPaid
<1> DEFINE l == request[r].link
<1>1. /\ pc[r] = "paid" /\ l \in Links /\ links[l] \in LinkRows
      /\ request[r].user \in Users /\ seen[r] \in LinkRows
  BY DEF ReadInv, OnLink
<1>2. pc' = [pc EXCEPT ![r] = "contact"]
  BY DEF Goto, AfterPaid
<1>3. /\ links' \in [Links -> LinkRows \cup {NoLink}]
      /\ links'[l] \in LinkRows
      /\ \A k \in Links : links'[k] = links[k] \/ (links'[k] \in LinkRows /\ ~ Payable(links'[k]))
  <2>1. CASE UNCHANGED links
    BY <1>1, <2>1 DEF ShapeInv
  <2>2. CASE links' = [links EXCEPT ![l].status = "paid", ![l].paid = CountPaid(r)]
    <3> DEFINE row == [[links[l] EXCEPT !.status = "paid"] EXCEPT !.paid = CountPaid(r)]
    <3>1. CountPaid(r) \in Nat
      BY <1>1 DEF CountPaid, LinkRows
    <3>2. row \in LinkRows /\ row.status = "paid"
      BY <1>1, <3>1 DEF LinkRows
    <3>3. links' = [links EXCEPT ![l] = row]
      BY <1>1, <2>2 DEF ShapeInv
    <3> HIDE DEF row
    <3> QED
      BY <1>1, <3>2, <3>3 DEF ShapeInv, Payable
  <2> QED
    BY <2>1, <2>2
<1> HIDE DEF l
<1>4. ShapeInv'
  BY <1>2, <1>3, LimitAssumption DEF ShapeInv, Labels, Running, Succeeds, Fails
<1>5. ReadInv'
  BY <1>1, <1>2, <1>3 DEF ReadInv, ShapeInv, OnLink
<1>6. PayInv'
  BY <1>1, <1>2 DEF PayInv, ShapeInv
<1>7. LinkInv'
  BY <1>3 DEF LinkInv
<1>8. OrderInv' /\ KeyInv'
  BY <1>2 DEF OrderInv, KeyInv, ShapeInv, Ordered
<1>9. PaidInv'
  BY <1>1, <1>2 DEF PaidInv, ShapeInv
<1> QED
  BY <1>4, <1>5, <1>6, <1>7, <1>8, <1>9

LEMMA ContactIInv ==
  ASSUME IInv, NEW r \in Requests, RecordContact(r)
  PROVE  IInv'
<1> USE DEF IInv, RecordContact
<1>1. /\ pc[r] = "contact" /\ request[r].user \in Users /\ seen[r] \in LinkRows
  BY DEF ReadInv, OnLink
<1>2. pc' = [pc EXCEPT ![r] = "served"]
  BY DEF Goto
<1>3. contacts' \in [Users \X Users \X Accounts -> ContactRows]
  <2> DEFINE c == <<request[r].user, seen[r].creator, seen[r].account>>
  <2>1. c \in Users \X Users \X Accounts
    BY <1>1 DEF LinkRows
  <2>2. ContactAmount(r) \in Int
    BY <1>1, AmountAssumption DEF ContactAmount, LinkRows
  <2>3. [count |-> contacts[c].count + 1, total |-> contacts[c].total + ContactAmount(r)]
          \in ContactRows
    BY <2>1, <2>2 DEF ShapeInv, ContactRows
  <2> QED
    BY <2>1, <2>3 DEF ShapeInv
<1>4. ShapeInv'
  BY <1>2, <1>3, LimitAssumption DEF ShapeInv, Labels, Succeeds, Fails
<1>5. ReadInv' /\ PayInv'
  BY <1>2 DEF ReadInv, PayInv, ShapeInv, OnLink
<1>6. LinkInv' /\ KeyInv'
  BY DEF LinkInv, KeyInv
<1>7. OrderInv'
  BY <1>2 DEF OrderInv, ShapeInv, Ordered
<1>8. PaidInv'
  BY <1>1, <1>2 DEF PaidInv, ShapeInv
<1> QED
  BY <1>4, <1>5, <1>6, <1>7, <1>8

LEMMA ConfirmIInv ==
  ASSUME IInv, NEW r \in Requests, NEW user \in Users, NEW quote \in Quotes,
         ConfirmTransfer(r, user, quote)
  PROVE  IInv'
<1> USE DEF IInv, ConfirmTransfer
<1>1. /\ pc[r] = "new"
      /\ request' = [request EXCEPT ![r] = [op |-> "confirm", user |-> user, quote |-> quote]]
  OBVIOUS
<1>2. \A o \in orders : o.id # r
  BY <1>1 DEF OrderInv, Ordered
<1>3. LinkInv'
  BY DEF LinkInv
<1>4. CASE orders' = orders /\ Goto(r, "refused")
  <2>1. pc' = [pc EXCEPT ![r] = "refused"]
    BY <1>4 DEF Goto
  <2>2. ShapeInv'
    BY <1>1, <1>4, <2>1, LimitAssumption DEF ShapeInv, Labels, Succeeds, Fails
  <2>3. ReadInv' /\ PayInv'
    BY <1>1, <2>1 DEF ReadInv, PayInv, ShapeInv, OnLink
  <2>4. OrderInv' /\ KeyInv' /\ PaidInv'
    BY <1>1, <1>2, <1>4, <2>1 DEF OrderInv, KeyInv, PaidInv, ShapeInv
  <2> QED
    BY <1>3, <2>2, <2>3, <2>4
<1>5. CASE /\ KeyFree(QuoteOrder(r, user, quote))
           /\ orders' = orders \cup {QuoteOrder(r, user, quote)}
           /\ Goto(r, "succeed")
  <2> DEFINE order == QuoteOrder(r, user, quote)
  <2>1. pc' = [pc EXCEPT ![r] = "succeed"]
    BY <1>5 DEF Goto
  <2>2. /\ order.id = r /\ order.payer = user /\ order.link = "none"
        /\ order.key = <<quote>>
        /\ order \in OrderRows
    BY DEF QuoteOrder, None, OrderRows, Keys
  <2>3. \A o \in orders : o.payer # order.payer \/ o.key # order.key
    BY <1>5 DEF KeyFree
  <2>4. orders' = orders \cup {order}
    BY <1>5
  <2> HIDE DEF order
  <2>5. ShapeInv'
    BY <1>1, <2>1, <2>2, <2>4, LimitAssumption DEF ShapeInv, Labels, Running, Succeeds, Fails
  <2>6. ReadInv' /\ PayInv'
    BY <1>1, <2>1 DEF ReadInv, PayInv, ShapeInv, OnLink
  <2>7. OrderInv'
    BY <1>2, <2>1, <2>2, <2>4 DEF OrderInv, ShapeInv, Ordered
  <2>8. KeyInv'
    BY <2>3, <2>4 DEF KeyInv
  <2>9. PaidInv'
    BY <1>1, <2>1, <2>2, <2>4 DEF PaidInv, ShapeInv
  <2> QED
    BY <1>3, <2>5, <2>6, <2>7, <2>8, <2>9
<1> QED
  BY <1>4, <1>5

LEMMA SucceededIInv ==
  ASSUME IInv, NEW r \in Requests, MarkSucceeded(r)
  PROVE  IInv'
<1> USE DEF IInv, MarkSucceeded
<1>1. pc[r] = "succeed" /\ request[r].op # "pay"
  BY DEF PayInv
<1>2. pc' = [pc EXCEPT ![r] = "broken"]
  BY DEF Goto
<1> DEFINE Done(o) == IF o.id = r THEN [o EXCEPT !.status = "succeeded"] ELSE o
<1>3. \A o \in orders : /\ Done(o) \in OrderRows /\ Done(o).id = o.id /\ Done(o).link = o.link
                        /\ Done(o).payer = o.payer /\ Done(o).key = o.key
  BY DEF ShapeInv, OrderRows
<1>10. orders' = orders \/ orders' = { Done(o) : o \in orders }
  OBVIOUS
<1> HIDE DEF Done
<1>4. ShapeInv'
  BY <1>2, <1>3, <1>10, LimitAssumption DEF ShapeInv, Labels, Succeeds, Fails
<1>5. ReadInv' /\ PayInv'
  BY <1>2 DEF ReadInv, PayInv, ShapeInv, OnLink
<1>6. LinkInv'
  BY DEF LinkInv
<1>7. OrderInv'
  BY <1>2, <1>3, <1>10 DEF OrderInv, ShapeInv, Ordered
<1>8. KeyInv'
  BY <1>3, <1>10 DEF KeyInv
<1>9. PaidInv'
  BY <1>2, <1>3, <1>10 DEF PaidInv, ShapeInv
<1> QED
  BY <1>4, <1>5, <1>6, <1>7, <1>8, <1>9

-----------------------------------------------------------------------------
LEMMA StepIInv == IInv /\ [Next]_vars => IInv'
<1> SUFFICES ASSUME IInv, [Next]_vars PROVE IInv'
  OBVIOUS
<1>1. CASE \E l \in Links, creator \in Users, account \in Accounts, amount \in Amounts :
             CreatePaymentLink(l, creator, account, amount)
  BY <1>1, CreateIInv
<1>2. CASE \E l \in Links : LinkExpires(l)
  BY <1>2, ExpiresIInv
<1>3. ASSUME NEW r \in Requests, Arrival(r) PROVE IInv'
  BY <1>3, GetIInv, ConfirmIInv DEF Arrival
<1>4. ASSUME NEW r \in Requests, RequestStep(r) PROVE IInv'
  BY <1>4, CheckIInv, ExpireIInv, CancelIInv, OrderIInv, MarkIInv, ContactIInv, SucceededIInv
     DEF RequestStep
<1>5. CASE Crash
  BY <1>5, CrashIInv
<1>6. CASE UNCHANGED vars
  BY <1>6 DEF vars, IInv, ShapeInv, ReadInv, PayInv, LinkInv, OrderInv, KeyInv, PaidInv
<1> QED
  BY <1>1, <1>2, <1>3, <1>4, <1>5, <1>6 DEF Next

LEMMA InvariantIInv == Spec => []IInv
BY InitIInv, StepIInv, PTL DEF Spec

\* The tables and the requests keep their shape.
THEOREM LinksTypeOK == Spec => []TypeOK
<1>1. IInv => TypeOK
  BY DEF IInv, ShapeInv, TypeOK
<1> QED
  BY <1>1, InvariantIInv, PTL

\* Nobody pays a link who read it after it was paid, cancelled or expired.
THEOREM LinksPayersSawPayable == Spec => []PayersSawPayableLink
<1>1. IInv => PayersSawPayableLink
  BY NameAssumption DEF IInv, OrderInv, PayersSawPayableLink
<1> QED
  BY <1>1, InvariantIInv, PTL

\* A user pays a link once, and confirms a quote once.
THEOREM LinksOneOrderPerPayer == Spec => []OneOrderPerPayer
<1>1. IInv => OneOrderPerPayer
  <2> SUFFICES ASSUME IInv, NEW o \in orders, NEW p \in orders,
                      o.payer = p.payer, o.key[1] = p.key[1]
               PROVE  o = p
    BY DEF OneOrderPerPayer
  <2>1. (o.key = <<o.link, o.payer>> /\ o.link \in Links)
          \/ \E quote \in Quotes : o.key = <<quote>>
    BY DEF IInv, OrderInv
  <2>2. (p.key = <<p.link, p.payer>> /\ p.link \in Links)
          \/ \E quote \in Quotes : p.key = <<quote>>
    BY DEF IInv, OrderInv
  <2>3. o.key = p.key
    BY <2>1, <2>2, NameAssumption
  <2> QED
    BY <2>3 DEF IInv, KeyInv
<1> QED
  BY <1>1, InvariantIInv, PTL

\* A payer is told of a payment exactly if there is an order for it.
THEOREM LinksAnswersTellOrders == Spec => []AnswersTellOrders
<1>1. IInv => AnswersTellOrders
  BY DEF IInv, OrderInv, PaidInv, Ordered, AnswersTellOrders
<1> QED
  BY <1>1, InvariantIInv, PTL

\* The status update of a link leaves it not payable.
LEMMA StatusCloses ==
  ASSUME IInv, NEW l \in Links, NEW r \in Requests, NEW status \in {"expired", "cancelled"},
         ~ Payable(links[l]), links[l] # NoLink, pc[r] \in OnLink,
         links' = StatusUpdate(request[r].link, status)
  PROVE  links'[l] # NoLink /\ ~ Payable(links'[l])
<1>1. request[r].link \in Links /\ links[request[r].link] \in LinkRows
  BY DEF IInv, ReadInv
<1>2. \/ l = request[r].link /\ links'[l] \in LinkRows /\ ~ Payable(links'[l])
      \/ links'[l] = links[l]
  BY <1>1, StatusRow DEF IInv, ShapeInv
<1>3. NoLink \notin LinkRows
  BY DEF NoLink, LinkRows, None
<1> QED
  BY <1>2, <1>3

\* Whatever overtakes whatever, a link that was closed is never open again.
THEOREM LinksCloseForGood == Spec => LinkClosesForGood
<1>1. ASSUME IInv, [Next]_vars, NEW l \in Links, links[l] # NoLink, ~ Payable(links[l])
      PROVE  links'[l] # NoLink /\ ~ Payable(links'[l])
  <2>1. CASE UNCHANGED links
    BY <1>1, <2>1
  <2>2. CASE \E k \in Links, creator \in Users, account \in Accounts, amount \in Amounts :
               CreatePaymentLink(k, creator, account, amount)
    BY <1>1, <2>2 DEF CreatePaymentLink, IInv, ShapeInv
  <2>3. ASSUME NEW r \in Requests, MarkExpired(r)
        PROVE  links'[l] # NoLink /\ ~ Payable(links'[l])
    BY <1>1, <2>3, StatusCloses DEF MarkExpired, OnLink
  <2>4. ASSUME NEW r \in Requests, MarkCancelled(r)
        PROVE  links'[l] # NoLink /\ ~ Payable(links'[l])
    BY <1>1, <2>4, StatusCloses DEF MarkCancelled, OnLink
  <2>5. ASSUME NEW r \in Requests, MarkPaid(r)
        PROVE  links'[l] # NoLink /\ ~ Payable(links'[l])
    <3> DEFINE k == request[r].link
               row == [[links[k] EXCEPT !.status = "paid"] EXCEPT !.paid = CountPaid(r)]
    <3>1. k \in Links /\ links[k] \in LinkRows
      BY <1>1, <2>5 DEF MarkPaid, IInv, ReadInv, OnLink
    <3>2. CountPaid(r) \in Nat
      BY <3>1 DEF CountPaid, LinkRows
    <3>3. row \in LinkRows /\ row.status = "paid"
      BY <3>1, <3>2 DEF LinkRows
    <3>4. links' = links \/ links' = [links EXCEPT ![k] = row]
      BY <1>1, <2>5, <3>1 DEF MarkPaid, IInv, ShapeInv
    <3>5. NoLink \notin LinkRows
      BY DEF NoLink, LinkRows, None
    <3> HIDE DEF row, k
    <3> QED
      BY <1>1, <3>3, <3>4, <3>5 DEF IInv, ShapeInv, Payable
  <2> QED
    BY ZenonT(40), <1>1, <2>1, <2>2, <2>3, <2>4, <2>5
       DEF Next, vars, Arrival, RequestStep, LinkExpires, GetPaymentLink, ConfirmTransfer,
           CheckExpiry, CreateTransferOrder, RecordContact, MarkSucceeded, Crash, tableVars
<1>2. IInv /\ [Next]_vars =>
        [\A l \in Links : links[l] # NoLink /\ ~ Payable(links[l])
             => links'[l] # NoLink /\ ~ Payable(links'[l])]_vars
  BY <1>1
<1> QED
  BY <1>2, InvariantIInv, PTL DEF Spec, LinkClosesForGood

-----------------------------------------------------------------------------
(* How often a link was paid.                                               *)

\* The orders of a link that are not yet counted, and the ones that need not be.
Marking(l) == { o \in OrdersOf(l) : pc[o.id] = "paid" }
Cut(l) == { o \in OrdersOf(l) : pc[o.id] \in {"paid", "dead"} }

\* The order of a payment has the link its request names, and that link exists.
LinkedInv ==
  /\ \A o \in orders : o.link \in Links <=> request[o.id].op = "pay"
  /\ \A o \in orders : o.link \in Links =>
       request[o.id].link = o.link /\ links[o.link] \in LinkRows
  /\ \A o, p \in orders : o.id = p.id => o = p

Counted(l) ==
  /\ links[l].paid + Cardinality(Marking(l)) <= Cardinality(OrdersOf(l))
  /\ Cardinality(OrdersOf(l)) <= links[l].paid + Cardinality(Cut(l)) + faults

CountInv ==
  \A l \in Links : IsFiniteSet(OrdersOf(l)) /\ (links[l] \in LinkRows => Counted(l))

LEMMA CountsAreNat ==
  ASSUME CountInv, ShapeInv, NEW l \in Links, links[l] \in LinkRows
  PROVE  /\ links[l].paid \in Nat /\ faults \in Nat
         /\ IsFiniteSet(Marking(l)) /\ IsFiniteSet(Cut(l))
         /\ Cardinality(OrdersOf(l)) \in Nat
         /\ Cardinality(Marking(l)) \in Nat
         /\ Cardinality(Cut(l)) \in Nat
<1>1. IsFiniteSet(OrdersOf(l))
  BY DEF CountInv
<1>2. Marking(l) \in SUBSET OrdersOf(l) /\ Cut(l) \in SUBSET OrdersOf(l)
  BY DEF Marking, Cut
<1>3. IsFiniteSet(Marking(l)) /\ IsFiniteSet(Cut(l))
  BY <1>1, <1>2, FS_Subset
<1>4. links[l].paid \in Nat /\ faults \in Nat
  BY LimitAssumption DEF ShapeInv, LinkRows
<1> QED
  BY <1>1, <1>3, <1>4, FS_CardinalityType

\* An order that is not being marked anymore, or is cut off, disturbs no count,
\* nor does a failing statement.
LEMMA KeptCount ==
  ASSUME CountInv, ShapeInv, NEW l \in Links, links[l] \in LinkRows, Succeeds \/ Fails,
         links'[l].paid = links[l].paid, OrdersOf(l)' = OrdersOf(l),
         Marking(l)' \in SUBSET Marking(l),
         Cut(l) \in SUBSET Cut(l)', Cut(l)' \in SUBSET OrdersOf(l)
  PROVE  Counted(l)'
<1>1. /\ links[l].paid \in Nat /\ faults \in Nat
      /\ IsFiniteSet(Marking(l)) /\ IsFiniteSet(Cut(l))
      /\ Cardinality(OrdersOf(l)) \in Nat
      /\ Cardinality(Marking(l)) \in Nat
      /\ Cardinality(Cut(l)) \in Nat
  BY CountsAreNat
<1>2. /\ Cardinality(Marking(l)') <= Cardinality(Marking(l))
      /\ Cardinality(Marking(l)') \in Nat
  BY <1>1, FS_Subset, FS_CardinalityType
<1>3. IsFiniteSet(Cut(l)')
  BY FS_Subset DEF CountInv
<1>4. /\ Cardinality(Cut(l)) <= Cardinality(Cut(l)')
      /\ Cardinality(Cut(l)') \in Nat
  BY <1>3, FS_Subset, FS_CardinalityType
<1>5. faults' \in Nat /\ faults <= faults'
  BY <1>1 DEF Succeeds, Fails
<1>6. Counted(l)
  BY DEF CountInv
<1>7. \A p, f, g, c, m, n, x, y \in Nat :
        /\ p + m <= c /\ c <= p + n + f
        /\ x <= m /\ n <= y /\ f <= g
        => p + x <= c /\ c <= p + y + g
  OBVIOUS
<1>8. /\ links[l].paid + Cardinality(Marking(l)') <= Cardinality(OrdersOf(l))
      /\ Cardinality(OrdersOf(l)) <= links[l].paid + Cardinality(Cut(l)') + faults'
  BY <1>1, <1>2, <1>4, <1>5, <1>6, <1>7 DEF Counted
<1> QED
  BY <1>8 DEF Counted

\* A step that neither inserts an order nor marks a payment disturbs no count.
LEMMA SameCounts ==
  ASSUME CountInv, ShapeInv, ShapeInv', Succeeds \/ Fails,
         \A l \in Links : OrdersOf(l)' = OrdersOf(l),
         \A l \in Links : links'[l] \in LinkRows =>
           links[l] \in LinkRows /\ links'[l].paid = links[l].paid,
         \A l \in Links : \A o \in OrdersOf(l) :
           /\ pc'[o.id] = "paid" => pc[o.id] = "paid"
           /\ pc[o.id] \in {"paid", "dead"} => pc'[o.id] \in {"paid", "dead"}
  PROVE  CountInv'
<1> SUFFICES ASSUME NEW l \in Links
             PROVE  IsFiniteSet(OrdersOf(l)') /\ (links'[l] \in LinkRows => Counted(l)')
  BY DEF CountInv
<1>1. IsFiniteSet(OrdersOf(l)')
  BY DEF CountInv
<1>2. Marking(l)' \in SUBSET Marking(l)
  BY DEF Marking
<1>3. Cut(l) \in SUBSET Cut(l)' /\ Cut(l)' \in SUBSET OrdersOf(l)
  BY DEF Cut
<1> QED
  BY <1>1, <1>2, <1>3, KeptCount

\* Only a payment's own order names a link, and no row of a link goes away.
LEMMA SameOrders ==
  ASSUME LinkedInv, UNCHANGED orders,
         \A o \in orders : request'[o.id] = request[o.id],
         \A l \in Links : links[l] \in LinkRows => links'[l] \in LinkRows
  PROVE  LinkedInv' /\ \A l \in Links : OrdersOf(l)' = OrdersOf(l)
BY DEF LinkedInv, OrdersOf

LEMMA NoLinkIsNoRow == NoLink \notin LinkRows
BY DEF NoLink, LinkRows, None

\* A link that was just made has no order.
LEMMA CreateCounts ==
  ASSUME IInv, IInv', LinkedInv, CountInv, NEW l \in Links, NEW creator \in Users,
         NEW account \in Accounts, NEW amount \in Amounts,
         CreatePaymentLink(l, creator, account, amount)
  PROVE  LinkedInv' /\ CountInv'
<1> DEFINE row == Link(creator, account, amount)
<1>1. /\ links[l] = NoLink /\ links' = [links EXCEPT ![l] = row]
      /\ UNCHANGED <<orders, pc, request, faults>>
  BY DEF CreatePaymentLink
<1>2. row.paid = 0 /\ row \in LinkRows
  BY DEF Link, LinkRows
<1> HIDE DEF row
<1>3. links \in [Links -> LinkRows \cup {NoLink}]
  BY DEF IInv, ShapeInv
<1>4. \A k \in Links : k # l => links'[k] = links[k]
  BY <1>1, <1>3
<1>5. links'[l] = row
  BY <1>1, <1>3
<1>6. LinkedInv' /\ \A k \in Links : OrdersOf(k)' = OrdersOf(k)
  BY <1>1, <1>2, <1>4, <1>5, SameOrders
<1>7. OrdersOf(l) = {}
  BY <1>1, NoLinkIsNoRow DEF LinkedInv, OrdersOf
<1>8. Counted(l)'
  <2>1. OrdersOf(l)' = {} /\ Marking(l)' = {} /\ Cut(l)' = {}
    BY <1>6, <1>7 DEF Marking, Cut
  <2>2. Cardinality(OrdersOf(l)') = 0 /\ Cardinality(Marking(l)') = 0 /\ Cardinality(Cut(l)') = 0
    BY <2>1, FS_EmptySet
  <2>3. faults' \in Nat
    BY <1>1, LimitAssumption DEF IInv, ShapeInv
  <2>4. 0 + 0 = 0 /\ \A f \in Nat : 0 <= 0 + f
    OBVIOUS
  <2> QED
    BY <1>2, <1>5, <2>2, <2>3, <2>4 DEF Counted
<1>9. ASSUME NEW k \in Links, k # l, links'[k] \in LinkRows PROVE Counted(k)'
  <2>1. links'[k] = links[k] /\ OrdersOf(k)' = OrdersOf(k)
    BY <1>4, <1>6, <1>9
  <2>2. Marking(k)' = Marking(k) /\ Cut(k)' = Cut(k)
    BY <1>1, <2>1 DEF Marking, Cut
  <2> QED
    BY <1>1, <1>9, <2>1, <2>2 DEF Counted, CountInv
<1>10. \A k \in Links : IsFiniteSet(OrdersOf(k)')
  BY <1>6 DEF CountInv
<1> QED
  BY <1>6, <1>8, <1>9, <1>10 DEF CountInv

\* The steps of a request that has no order, and the ones behind the marking.
LEMMA QuietCounts ==
  ASSUME IInv, IInv', LinkedInv, CountInv, UNCHANGED orders, Succeeds \/ Fails,
         \A l \in Links : links'[l] = links[l]
                          \/ (links[l] \in LinkRows /\ links'[l] \in LinkRows
                              /\ links'[l].paid = links[l].paid),
         \A o \in orders : /\ request'[o.id] = request[o.id]
                           /\ pc'[o.id] = "paid" => pc[o.id] = "paid"
                           /\ pc[o.id] \in {"paid", "dead"} => pc'[o.id] \in {"paid", "dead"}
  PROVE  LinkedInv' /\ CountInv'
<1>1. LinkedInv' /\ \A l \in Links : OrdersOf(l)' = OrdersOf(l)
  BY SameOrders
<1>2. \A l \in Links : \A o \in OrdersOf(l) : o \in orders
  BY DEF OrdersOf
<1>3. ShapeInv /\ ShapeInv'
  BY DEF IInv
<1> QED
  BY <1>1, <1>2, <1>3, SameCounts

\* A payment gets its order, which is still to be marked.
LEMMA OrderCounts ==
  ASSUME IInv, IInv', LinkedInv, CountInv, NEW r \in Requests, pc[r] = "order",
         orders' = orders \cup {LinkOrder(r)}, pc' = [pc EXCEPT ![r] = "paid"],
         UNCHANGED <<links, request>>, Succeeds
  PROVE  LinkedInv' /\ CountInv'
<1> DEFINE order == LinkOrder(r)
<1>0. request[r].op = "pay" /\ \E l \in Links : l = request[r].link /\ links[l] \in LinkRows
  BY DEF IInv, PayInv, ReadInv, OnLink
<1>2. PICK l \in Links : l = request[r].link /\ links[l] \in LinkRows
  BY <1>0
<1>1. order.id = r /\ order.link = l
  BY <1>2 DEF LinkOrder
<1>3. \A o \in orders : o.id # r
  BY DEF IInv, OrderInv, Ordered
<1>4. orders' = orders \cup {order}
  OBVIOUS
<1> HIDE DEF order
<1>5. LinkedInv'
  BY <1>0, <1>1, <1>2, <1>3, <1>4 DEF LinkedInv
<1>6. \A o \in orders : pc'[o.id] = pc[o.id]
  BY <1>3 DEF IInv, ShapeInv
<1>7. pc'[r] = "paid"
  BY DEF IInv, ShapeInv
<1>8. ASSUME NEW k \in Links, k # l
      PROVE  OrdersOf(k)' = OrdersOf(k) /\ Marking(k)' = Marking(k) /\ Cut(k)' = Cut(k)
  <2>1. OrdersOf(k)' = OrdersOf(k) /\ \A o \in OrdersOf(k) : o \in orders
    BY <1>1, <1>4, <1>8 DEF OrdersOf
  <2> QED
    BY <1>6, <2>1 DEF Marking, Cut
<1>9. /\ OrdersOf(l)' = OrdersOf(l) \cup {order}
      /\ \A o \in OrdersOf(l) : o \in orders
      /\ order \notin OrdersOf(l)
  BY <1>1, <1>3, <1>4 DEF OrdersOf
<1>10. /\ Marking(l)' = Marking(l) \cup {order}
       /\ Cut(l)' = Cut(l) \cup {order}
  BY <1>1, <1>6, <1>7, <1>9 DEF Marking, Cut
<1>11. order \notin Marking(l) /\ order \notin Cut(l)
  BY <1>9 DEF Marking, Cut
<1>12. ShapeInv
  BY DEF IInv
<1>13. /\ links[l].paid \in Nat /\ faults \in Nat
       /\ IsFiniteSet(Marking(l)) /\ IsFiniteSet(Cut(l))
       /\ Cardinality(OrdersOf(l)) \in Nat
       /\ Cardinality(Marking(l)) \in Nat
       /\ Cardinality(Cut(l)) \in Nat
  BY <1>2, <1>12, CountsAreNat
<1>14. IsFiniteSet(OrdersOf(l))
  BY <1>2 DEF CountInv
<1>15. /\ IsFiniteSet(OrdersOf(l)')
       /\ Cardinality(OrdersOf(l)') = Cardinality(OrdersOf(l)) + 1
  BY <1>9, <1>14, FS_AddElement
<1>16. Cardinality(Marking(l)') = Cardinality(Marking(l)) + 1
  BY <1>10, <1>11, <1>13, FS_AddElement
<1>17. Cardinality(Cut(l)') = Cardinality(Cut(l)) + 1
  BY <1>10, <1>11, <1>13, FS_AddElement
<1>18. \A p, f, c, m, n \in Nat :
         p + m <= c /\ c <= p + n + f => p + (m + 1) <= c + 1 /\ c + 1 <= p + (n + 1) + f
  OBVIOUS
<1>19. Counted(l)
  BY <1>2 DEF CountInv
<1>20. links' = links /\ faults' = faults
  BY DEF Succeeds
<1>22. /\ links[l].paid + (Cardinality(Marking(l)) + 1) <= Cardinality(OrdersOf(l)) + 1
       /\ Cardinality(OrdersOf(l)) + 1 <= links[l].paid + (Cardinality(Cut(l)) + 1) + faults
  BY <1>13, <1>18, <1>19 DEF Counted
<1>23. /\ links'[l].paid + Cardinality(Marking(l)') <= Cardinality(OrdersOf(l)')
       /\ Cardinality(OrdersOf(l)') <= links'[l].paid + Cardinality(Cut(l)') + faults'
  BY <1>15, <1>16, <1>17, <1>20, <1>22
<1>24. ASSUME NEW k \in Links, links'[k] \in LinkRows PROVE Counted(k)'
  <2>1. CASE k = l
    BY <1>23, <2>1 DEF Counted
  <2>2. CASE k # l
    BY <1>8, <1>20, <1>24, <2>2 DEF Counted, CountInv
  <2> QED
    BY <2>1, <2>2
<1>25. ASSUME NEW k \in Links PROVE IsFiniteSet(OrdersOf(k)')
  BY <1>8, <1>15 DEF CountInv
<1> QED
  BY <1>5, <1>24, <1>25 DEF CountInv

\* A payment marks its link and is counted, or fails to and is a fault.
LEMMA MarkCounts ==
  ASSUME IInv, IInv', LinkedInv, CountInv, NEW r \in Requests, MarkPaid(r)
  PROVE  LinkedInv' /\ CountInv'
<1>0. /\ pc[r] = "paid" /\ request[r].op = "pay"
      /\ \E l \in Links : l = request[r].link /\ links[l] \in LinkRows
  BY DEF MarkPaid, IInv, PayInv, ReadInv, OnLink
<1>1. PICK l \in Links : l = request[r].link /\ links[l] \in LinkRows
  BY <1>0
<1>2. PICK o \in orders : o.id = r
  BY <1>0 DEF IInv, PaidInv
<1>3. o.link = l
  BY <1>0, <1>1, <1>2 DEF LinkedInv
<1>4. \A p \in orders : p # o => p.id # r
  BY <1>2 DEF LinkedInv
<1>5. pc' = [pc EXCEPT ![r] = "contact"] /\ UNCHANGED <<orders, request>>
  BY DEF MarkPaid, Goto, AfterPaid
<1>6. pc'[r] = "contact" /\ \A p \in orders : p # o => pc'[p.id] = pc[p.id]
  BY <1>4, <1>5 DEF IInv, ShapeInv
<1>7. \/ links' = [links EXCEPT ![l].status = "paid", ![l].paid = CountPaid(r)] /\ Succeeds
      \/ links' = links /\ Fails
  BY <1>1 DEF MarkPaid
<1>8. links \in [Links -> LinkRows \cup {NoLink}] /\ ShapeInv
  BY DEF IInv, ShapeInv
<1>9. \A k \in Links : k # l => links'[k] = links[k]
  BY <1>7, <1>8
<1>10. links'[l] \in LinkRows
  BY <1>1, <1>5, <1>6 DEF IInv, ReadInv, OnLink
<1>11. LinkedInv' /\ \A k \in Links : OrdersOf(k)' = OrdersOf(k)
  BY <1>5, <1>9, <1>10, SameOrders
<1>12. ASSUME NEW k \in Links, k # l PROVE Marking(k)' = Marking(k) /\ Cut(k)' = Cut(k)
  <2>1. \A p \in OrdersOf(k) : p \in orders /\ p # o
    BY <1>3, <1>12 DEF OrdersOf
  <2> QED
    BY <1>6, <1>11, <2>1 DEF Marking, Cut
<1>13. /\ o \in OrdersOf(l) /\ \A p \in OrdersOf(l) : p \in orders
  BY <1>3 DEF OrdersOf
<1>14. Marking(l)' = Marking(l) \ {o} /\ Cut(l)' = Cut(l) \ {o}
  BY <1>2, <1>6, <1>11, <1>13 DEF Marking, Cut
<1>15. o \in Marking(l) /\ o \in Cut(l)
  BY <1>0, <1>2, <1>13 DEF Marking, Cut
<1>16. /\ links[l].paid \in Nat /\ faults \in Nat
       /\ IsFiniteSet(Marking(l)) /\ IsFiniteSet(Cut(l))
       /\ Cardinality(OrdersOf(l)) \in Nat
       /\ Cardinality(Marking(l)) \in Nat
       /\ Cardinality(Cut(l)) \in Nat
  BY <1>1, <1>8, CountsAreNat
<1>17. /\ Cardinality(Marking(l)') = Cardinality(Marking(l)) - 1
       /\ Cardinality(Cut(l)') = Cardinality(Cut(l)) - 1
  BY <1>14, <1>15, <1>16, FS_RemoveElement
<1>18. \/ links'[l].paid = links[l].paid + 1 /\ faults' = faults
       \/ links'[l].paid = links[l].paid /\ faults' = faults + 1
  <2>1. CASE links' = [links EXCEPT ![l].status = "paid", ![l].paid = CountPaid(r)] /\ Succeeds
    <3> DEFINE row == [[links[l] EXCEPT !.status = "paid"] EXCEPT !.paid = CountPaid(r)]
    <3>1. row.paid = CountPaid(r)
      BY <1>1 DEF LinkRows
    <3>2. links'[l] = row
      BY <1>8, <2>1
    <3>3. CountPaid(r) = links[l].paid + 1
      BY <1>1 DEF CountPaid
    <3> HIDE DEF row
    <3> QED
      BY <2>1, <3>1, <3>2, <3>3 DEF Succeeds
  <2>2. CASE links' = links /\ Fails
    BY <2>2 DEF Fails
  <2> QED
    BY <1>7, <2>1, <2>2
<1>19. \A p, q, f, g, c, m, n \in Nat :
         /\ p + m <= c /\ c <= p + n + f
         /\ (q = p + 1 /\ g = f) \/ (q = p /\ g = f + 1)
         => q + (m - 1) <= c /\ c <= q + (n - 1) + g
  OBVIOUS
<1>20. Counted(l)
  BY <1>1 DEF CountInv
<1>21. links'[l].paid \in Nat /\ faults' \in Nat
  BY <1>16, <1>18
<1>22. /\ links'[l].paid + (Cardinality(Marking(l)) - 1) <= Cardinality(OrdersOf(l))
       /\ Cardinality(OrdersOf(l)) <= links'[l].paid + (Cardinality(Cut(l)) - 1) + faults'
  BY <1>16, <1>18, <1>19, <1>20, <1>21 DEF Counted
<1>23. Counted(l)'
  BY <1>11, <1>17, <1>22 DEF Counted
<1>24. ASSUME NEW k \in Links, k # l, links'[k] \in LinkRows PROVE Counted(k)'
  <2>1. links'[k] = links[k] /\ Marking(k)' = Marking(k) /\ Cut(k)' = Cut(k)
    BY <1>9, <1>12, <1>24
  <2>2. Marking(k)' \in SUBSET Marking(k) /\ Cut(k) \in SUBSET Cut(k)' /\ Cut(k)' \in SUBSET OrdersOf(k)
    BY <2>1 DEF Cut
  <2>3. Succeeds \/ Fails
    BY <1>7
  <2> QED
    BY <1>8, <1>11, <1>24, <2>1, <2>2, <2>3, KeptCount
<1>25. \A k \in Links : IsFiniteSet(OrdersOf(k)')
  BY <1>11 DEF CountInv
<1> QED
  BY <1>11, <1>23, <1>24, <1>25 DEF CountInv

\* A confirmed quote has an order that names no link.
LEMMA ConfirmCounts ==
  ASSUME IInv, IInv', LinkedInv, CountInv, NEW r \in Requests, NEW user \in Users,
         NEW quote \in Quotes, ConfirmTransfer(r, user, quote)
  PROVE  LinkedInv' /\ CountInv'
<1> DEFINE order == QuoteOrder(r, user, quote)
<1>1. order.id = r /\ order.link = "none" /\ "none" \notin Links
  BY NameAssumption DEF QuoteOrder, None
<1>2. orders' = orders \/ orders' = orders \cup {order}
  BY DEF ConfirmTransfer
<1> HIDE DEF order
<1>3. /\ pc[r] = "new" /\ UNCHANGED links /\ (Succeeds \/ Fails)
      /\ request' = [request EXCEPT ![r] = [op |-> "confirm", user |-> user, quote |-> quote]]
      /\ pc' = [pc EXCEPT ![r] = "succeed"] \/ pc' = [pc EXCEPT ![r] = "refused"]
  BY DEF ConfirmTransfer, Goto
<1>4. \A o \in orders : o.id # r
  BY <1>3 DEF IInv, OrderInv, Ordered
<1>5. /\ \A o \in orders : request'[o.id] = request[o.id] /\ pc'[o.id] = pc[o.id]
      /\ request'[r].op = "confirm"
  <2>1. /\ DOMAIN request = Requests /\ DOMAIN pc = Requests
        /\ \A o \in orders : o.id \in Requests
    BY DEF IInv, ShapeInv, OrderInv
  <2>2. \A o \in orders : request'[o.id] = request[o.id]
    BY <1>3, <1>4, <2>1
  <2>3. \A o \in orders : pc'[o.id] = pc[o.id]
    BY <1>3, <1>4, <2>1
  <2> QED
    BY <1>3, <2>1, <2>2, <2>3
<1>6. LinkedInv'
  BY <1>1, <1>2, <1>3, <1>4, <1>5 DEF LinkedInv
<1>7. \A l \in Links : OrdersOf(l)' = OrdersOf(l) /\ \A o \in OrdersOf(l) : o \in orders
  BY <1>1, <1>2 DEF OrdersOf
<1>8. ShapeInv /\ ShapeInv'
  BY DEF IInv
<1> QED
  BY <1>3, <1>5, <1>6, <1>7, <1>8, SameCounts

LEMMA SucceededCounts ==
  ASSUME IInv, IInv', LinkedInv, CountInv, NEW r \in Requests, MarkSucceeded(r)
  PROVE  LinkedInv' /\ CountInv'
<1> DEFINE Done(o) == IF o.id = r THEN [o EXCEPT !.status = "succeeded"] ELSE o
<1>1. \A o \in orders : Done(o).id = o.id /\ Done(o).link = o.link /\ (o.id # r => Done(o) = o)
  BY DEF IInv, ShapeInv, OrderRows
<1>2. orders' = orders \/ orders' = { Done(o) : o \in orders }
  BY DEF MarkSucceeded
<1> HIDE DEF Done
<1>3. /\ pc[r] = "succeed" /\ request[r].op # "pay" /\ UNCHANGED <<links, request>>
      /\ Succeeds \/ Fails
      /\ pc' = [pc EXCEPT ![r] = "broken"]
  BY DEF MarkSucceeded, Goto, IInv, PayInv
<1>4. LinkedInv'
  BY <1>1, <1>2, <1>3 DEF LinkedInv
<1>5. \A l \in Links : \A o \in OrdersOf(l) : o \in orders /\ o.id # r
  BY <1>3 DEF LinkedInv, OrdersOf
<1>6. ASSUME NEW l \in Links PROVE OrdersOf(l)' = OrdersOf(l)
  <2>1. \A o \in orders : o.link = l => o.id # r
    BY <1>3 DEF LinkedInv
  <2> QED
    BY <1>1, <1>2, <2>1 DEF OrdersOf
<1>7. \A l \in Links : \A o \in OrdersOf(l) : pc'[o.id] = pc[o.id]
  BY <1>3, <1>5 DEF IInv, ShapeInv
<1>8. ShapeInv /\ ShapeInv'
  BY DEF IInv
<1> QED
  BY <1>3, <1>4, <1>6, <1>7, <1>8, SameCounts

LEMMA InitCounts == Init => LinkedInv /\ CountInv
<1> SUFFICES ASSUME Init PROVE LinkedInv /\ CountInv
  OBVIOUS
<1>1. orders = {} /\ \A l \in Links : links[l] = NoLink
  BY DEF Init
<1>2. \A l \in Links : OrdersOf(l) = {}
  BY <1>1 DEF OrdersOf
<1> QED
  BY <1>1, <1>2, NoLinkIsNoRow, FS_EmptySet DEF LinkedInv, CountInv

\* Steps of requests about a link that neither insert an order nor mark it.
LEMMA RequestCounts ==
  ASSUME IInv, IInv', LinkedInv, CountInv, NEW r \in Requests,
         CheckExpiry(r) \/ MarkExpired(r) \/ MarkCancelled(r) \/ RecordContact(r)
  PROVE  LinkedInv' /\ CountInv'
<1>1. /\ UNCHANGED <<orders, request>>
      /\ pc[r] \in {"clock", "expire", "cancel", "contact"}
  BY DEF CheckExpiry, MarkExpired, MarkCancelled, RecordContact, tableVars
<1>2. Succeeds \/ Fails
  BY DEF CheckExpiry, MarkExpired, MarkCancelled, RecordContact, Succeeds
<1>3. PICK label \in {"expire", "order", "served", "refused"} : pc' = [pc EXCEPT ![r] = label]
  BY DEF CheckExpiry, MarkExpired, MarkCancelled, RecordContact, Goto
<1>4. \A o \in orders : /\ request'[o.id] = request[o.id]
                        /\ pc'[o.id] = "paid" => pc[o.id] = "paid"
                        /\ pc[o.id] \in {"paid", "dead"} => pc'[o.id] \in {"paid", "dead"}
  BY <1>1, <1>3 DEF IInv, ShapeInv, OrderInv
<1>5. \/ links' = links
      \/ /\ request[r].link \in Links /\ links[request[r].link] \in LinkRows
         /\ \E status \in {"expired", "cancelled"} : links' = StatusUpdate(request[r].link, status)
  BY DEF CheckExpiry, MarkExpired, MarkCancelled, RecordContact, tableVars, IInv, ReadInv, OnLink
<1>6. \A l \in Links : links'[l] = links[l]
                       \/ (links[l] \in LinkRows /\ links'[l] \in LinkRows
                           /\ links'[l].paid = links[l].paid)
  <2>1. CASE links' = links
    BY <2>1
  <2>2. ASSUME NEW k \in Links, links[k] \in LinkRows, NEW status \in {"expired", "cancelled"},
               links' = StatusUpdate(k, status)
        PROVE  \A l \in Links : links'[l] = links[l]
                                \/ (links[l] \in LinkRows /\ links'[l] \in LinkRows
                                    /\ links'[l].paid = links[l].paid)
    <3>1. links' = [links EXCEPT ![k].status = status]
      BY <2>2 DEF StatusUpdate
    <3>2. links \in [Links -> LinkRows \cup {NoLink}]
      BY DEF IInv, ShapeInv
    <3>3. \A l \in Links : l # k => links'[l] = links[l]
      BY <3>1, <3>2
    <3>4. links'[k] = [links[k] EXCEPT !.status = status]
      BY <3>1, <3>2
    <3>5. links'[k] \in LinkRows /\ links'[k].paid = links[k].paid
      BY <2>2, <3>4 DEF LinkRows
    <3> QED
      BY <2>2, <3>3, <3>5
  <2> QED
    BY <1>5, <2>1, <2>2
<1> QED
  BY <1>1, <1>2, <1>4, <1>6, QuietCounts

LEMMA NextCounts == IInv /\ IInv' /\ LinkedInv /\ CountInv /\ [Next]_vars => LinkedInv' /\ CountInv'
<1> SUFFICES ASSUME IInv, IInv', LinkedInv, CountInv, [Next]_vars PROVE LinkedInv' /\ CountInv'
  OBVIOUS
<1>1. CASE \E l \in Links, creator \in Users, account \in Accounts, amount \in Amounts :
             CreatePaymentLink(l, creator, account, amount)
  BY <1>1, CreateCounts
<1>2. CASE \E l \in Links : LinkExpires(l)
  BY <1>2, QuietCounts DEF LinkExpires, tableVars, Succeeds
<1>3. ASSUME NEW r \in Requests, NEW op \in {"view", "pay", "cancel"}, NEW user \in Users,
             NEW l \in Links, GetPaymentLink(r, op, user, l)
      PROVE  LinkedInv' /\ CountInv'
  <2>1. /\ UNCHANGED <<orders, links>> /\ Succeeds /\ pc[r] = "new"
        /\ request' = [request EXCEPT ![r] = [op |-> op, user |-> user, link |-> l]]
        /\ \E label \in {"refused", "cancel", "clock"} : pc' = [pc EXCEPT ![r] = label]
    BY <1>3 DEF GetPaymentLink, Goto, tableVars, Succeeds
  <2>2. \A o \in orders : o.id # r
    BY <2>1 DEF IInv, OrderInv, Ordered
  <2>3. /\ DOMAIN request = Requests /\ DOMAIN pc = Requests
        /\ \A o \in orders : o.id \in Requests
    BY DEF IInv, ShapeInv, OrderInv
  <2>4. \A o \in orders : request'[o.id] = request[o.id]
    BY <2>1, <2>2, <2>3
  <2>5. \A o \in orders : pc'[o.id] = pc[o.id]
    BY <2>1, <2>2, <2>3
  <2> QED
    BY <2>1, <2>4, <2>5, QuietCounts
<1>4. ASSUME NEW r \in Requests, CreateTransferOrder(r) PROVE LinkedInv' /\ CountInv'
  <2>1. pc[r] = "order" /\ UNCHANGED <<links, request>>
    BY <1>4 DEF CreateTransferOrder
  <2>2. CASE orders' = orders /\ (Succeeds \/ Fails) /\ Goto(r, "refused")
    <3>1. pc' = [pc EXCEPT ![r] = "refused"]
      BY <2>2 DEF Goto
    <3>2. \A o \in orders : pc[o.id] # "order" /\ o.id \in Requests
      BY DEF IInv, OrderInv, Ordered
    <3>3. \A o \in orders : pc'[o.id] = pc[o.id]
      BY <2>1, <3>1, <3>2 DEF IInv, ShapeInv
    <3> QED
      BY <2>1, <2>2, <3>3, QuietCounts
  <2>3. CASE orders' = orders \cup {LinkOrder(r)} /\ Succeeds /\ Goto(r, "paid")
    BY <2>1, <2>3, OrderCounts DEF Goto
  <2> QED
    BY <1>4, <2>2, <2>3 DEF CreateTransferOrder
<1>5. ASSUME NEW r \in Requests, RequestStep(r) PROVE LinkedInv' /\ CountInv'
  BY <1>4, <1>5, RequestCounts, MarkCounts, SucceededCounts DEF RequestStep
<1>6. ASSUME NEW r \in Requests, Arrival(r) PROVE LinkedInv' /\ CountInv'
  BY <1>3, <1>6, ConfirmCounts DEF Arrival
<1>7. CASE Crash
  <2>1. /\ UNCHANGED <<orders, links, request>> /\ Succeeds
        /\ pc' = [r \in Requests |-> IF pc[r] \in Running THEN "dead" ELSE pc[r]]
    BY <1>7 DEF Crash, tableVars, Succeeds
  <2>2. \A o \in orders : o.id \in Requests
    BY DEF IInv, OrderInv
  <2> QED
    BY <2>1, <2>2, QuietCounts DEF Running
<1>8. CASE UNCHANGED vars
  BY <1>8, QuietCounts DEF vars, Succeeds
<1> QED
  BY <1>1, <1>2, <1>5, <1>6, <1>7, <1>8 DEF Next

\* However payers race, fail to mark the link or are cut off, the count of
\* UpdatePaymentLinkPaid is never ahead of the orders, and behind by no more
\* than what is under way, was cut off or failed.
THEOREM LinksCountsFollowOrders == Spec => []PaidCountFollowsOrders
<1>1. IInv /\ CountInv => PaidCountFollowsOrders
  <2> SUFFICES ASSUME IInv, CountInv, NEW l \in Links, links[l] # NoLink
               PROVE  /\ links[l].paid <= Cardinality(OrdersOf(l))
                      /\ Cardinality(OrdersOf(l)) <= links[l].paid + Cardinality(Cut(l)) + faults
    BY DEF PaidCountFollowsOrders, Cut
  <2>1. links[l] \in LinkRows /\ ShapeInv
    BY DEF IInv, ShapeInv
  <2>2. /\ links[l].paid \in Nat /\ Cardinality(OrdersOf(l)) \in Nat
        /\ Cardinality(Marking(l)) \in Nat
    BY <2>1, CountsAreNat
  <2>3. \A p, m, c \in Nat : p + m <= c => p <= c
    OBVIOUS
  <2>4. Counted(l)
    BY <2>1 DEF CountInv
  <2> QED
    BY <2>2, <2>3, <2>4 DEF Counted
<1>2. Spec => [](LinkedInv /\ CountInv)
  BY InitCounts, NextCounts, InvariantIInv, PTL DEF Spec
<1> QED
  BY <1>1, <1>2, InvariantIInv, PTL

===============================================================================
