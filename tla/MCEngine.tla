------------------------------- MODULE MCEngine -------------------------------
(***************************************************************************)
(* Small instances of Engine: a sender with a little money, a receiver, a  *)
(* receiver whose balance is at the limit, and two currencies, the fees of *)
(* one of which go to an account that is at the limit as well.             *)
(***************************************************************************)
EXTENDS Engine

CONSTANTS sender, receiver, rich, usdFees, eurFees

MCMaxInt == 10

MCRegistered ==
  [id \in {sender, receiver, rich, eurFees} |->
     CASE id = sender -> Balance(4, 0, 0)
       [] id = receiver -> Balance(0, 0, 0)
       [] OTHER -> Balance(MaxInt, 0, 0)]

Command(request, type, to, currency, numbered) ==
  [request |-> request, type |-> type, from |-> sender, to |-> to, source |-> 2,
   target |-> 2, fee |-> 1, currency |-> currency, numbered |-> numbered]

MCFeeAccount(c) == IF c.currency = "USD" THEN usdFees ELSE eurFees

freeze == Command(1, "FREEZE_FUNDS", receiver, "USD", FALSE)
pay == Command(2, "EXECUTE_PAYMENT", receiver, "USD", TRUE)
overpay == Command(3, "EXECUTE_PAYMENT", rich, "USD", TRUE)
payEur == [Command(4, "EXECUTE_PAYMENT", receiver, "EUR", TRUE) EXCEPT !.target = 5]
release == Command(5, "RELEASE_FUNDS", receiver, "USD", TRUE)
refund == Command(6, "REFUND_PAYMENT", receiver, "USD", FALSE)
settle == Command(7, "SETTLEMENT_BATCH", receiver, "USD", TRUE)

\* A freeze whose source and fee overflow, a payment of negative amounts and a
\* freeze without a request id.
overflow == [freeze EXCEPT !.source = 8, !.fee = 5]
negative == [pay EXCEPT !.source = -3, !.target = -1]
anonymous == [freeze EXCEPT !.request = 0]

MCCommands ==
  {freeze, pay, overpay, payEur, release, refund, settle, overflow, negative, anonymous}

\* Each of the threads beside the core with scripts of its own, and a short one
\* with another process after it, which is given what the first may have done.
Plan(threads, scripts) ==
  { [threads |-> threads, histories |-> <<Prefixes(s)>>] : s \in scripts }

MCPlans ==
  Plan({"publisher"}, {<<freeze, pay, pay>>})
  \cup Plan({"flusher"}, {<<freeze, overpay>>, <<refund, refund>>, <<anonymous, anonymous>>,
                          <<overflow, negative>>, <<freeze, release>>})
  \cup Plan({"publisher", "flusher"}, {<<freeze>>})
  \cup Plan({"snapshotter"}, {<<settle, overpay>>, <<freeze, payEur>>})
  \cup { [threads |-> {"flusher"}, histories |-> <<{<<freeze>>}, {<<freeze>>}>>] }
===============================================================================
