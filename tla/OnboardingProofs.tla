--------------------------- MODULE OnboardingProofs ----------------------------
(***************************************************************************)
(* What Onboarding guarantees for every number of users, identities and    *)
(* requests and any number of failing statements and crashes, proved by    *)
(* one inductive invariant.                                                *)
(***************************************************************************)
EXTENDS Onboarding, TLAPS

\* The tables and the requests have their shape.
ShapeInv ==
  /\ users \in [UserIds -> UserRows \cup {NoUser}]
  /\ wallets \in [UserIds -> [Currencies -> Nat]]
  /\ profiles \subseteq ProfileRows
  /\ attempts \subseteq [id: Requests, name: Names, success: BOOLEAN]
  /\ pc \in [Requests -> Running \cup Answers \cup {"new"}]
  /\ DOMAIN request = Requests
  /\ mine \in [Requests -> UserIds \cup {None}]
  /\ mishaps \in 0..MaxMishaps

\* Where a registration has made its user, and the ones before.
Made == Currencies \cup {"profiles?", "approve", "insert", "activate"}
Deciding == {"decide", "user", "profile level", "user level"}

\* A request under way asks for what its next step does, with the fields it reads.
FieldsOK(r) ==
  /\ pc[r] \in Made \cup {"email?", "create"} =>
       /\ request[r].op = "register"
       /\ request[r].name \in Names /\ request[r].email \in Emails
  /\ pc[r] \in {"attempt", "failed attempt", "success", "increment", "reset"} =>
       request[r].op = "login" /\ request[r].name \in Names
  /\ pc[r] \in {"existing", "submit", "to review"} =>
       request[r].op = "submit" /\ request[r].user \in UserIds
  /\ pc[r] \in Deciding => request[r].op = "review"
  /\ request[r].op = "review" /\ pc[r] \in Deciding \cup {"served"} =>
       /\ request[r].user \in UserIds /\ request[r].action \in {"APPROVED", "REJECTED"}
       /\ request[r].level \in {None, "HIGH"}
  /\ pc[r] \in {"profile level", "user level"} =>
       request[r].action = "APPROVED" /\ request[r].level = "HIGH"

\* A registration that got so far has its user, who has left the first status
\* at once if he is an administrator and at the latest when it is told.
MadeOK(r) ==
  /\ request[r].op = "register" /\ pc[r] \in Made \cup {"served"} =>
       /\ mine[r] \in UserIds /\ users[mine[r]] \in UserRows
       /\ users[mine[r]].name = request[r].name /\ users[mine[r]].email = request[r].email
       /\ IsAdmin(request[r].key) \/ pc[r] = "served" => users[mine[r]].status # "PENDING_KYC"
  /\ mine[r] # None => /\ pc[r] \in Made \cup {"served", "broken", "dead"}
                       /\ users[mine[r]] \in UserRows

\* A review that got so far has moved the profile, and then the user.
ReviewOK(r) ==
  request[r].op = "review" =>
    /\ request[r].action = "APPROVED" /\ pc[r] \in {"user", "profile level", "user level", "served"}
         => \E p \in profiles : p.user = request[r].user /\ IsApproved(p.status)
    /\ pc[r] \in {"profile level", "user level", "served"} =>
         /\ users[request[r].user] \in UserRows
         /\ request[r].action = "APPROVED" => users[request[r].user].status \in {"ACTIVE", "FROZEN"}
         /\ request[r].action # "APPROVED" => users[request[r].user].status = "REJECTED"

RequestInv == \A r \in Requests : FieldsOK(r) /\ MadeOK(r) /\ ReviewOK(r)

\* Names and addresses are unique, and no two registrations made one user.
UniqueInv ==
  /\ \A u, v \in UserIds :
       /\ users[u] \in UserRows /\ users[v] \in UserRows
       /\ users[u].name = users[v].name \/ users[u].email = users[v].email
       => u = v
  /\ \A q, r \in Requests : mine[q] = mine[r] /\ mine[r] # None => q = r

\* The wallets a registration has still to make have no balance.
WalletInv ==
  /\ \A u \in UserIds, c \in Currencies :
       wallets[u][c] <= 1 /\ (users[u] = NoUser => wallets[u][c] = 0)
  /\ \A r \in Requests :
       /\ pc[r] = "USD" => wallets[mine[r]]["USD"] = 0
       /\ pc[r] \in {"USD", "EUR"} => wallets[mine[r]]["EUR"] = 0
       /\ pc[r] \in Currencies => wallets[mine[r]]["JPY"] = 0

IInv == ShapeInv /\ RequestInv /\ UniqueInv /\ WalletInv

-----------------------------------------------------------------------------
LEMMA NoUserIsNoRow == NoUser \notin UserRows /\ None \notin UserIds
  BY NoneAssumption DEF NoUser

LEMMA InitIInv == Init => IInv
<1> SUFFICES ASSUME Init PROVE IInv
  OBVIOUS
<1>1. \A u \in UserIds : users[u] \in UserRows <=> u \in DOMAIN Registered
  BY NoUserIsNoRow, RegisteredAssumption DEF Init
<1>2. ShapeInv
  <2>1. \A u \in UserIds : Profile(u, u, "MANUAL_REVIEW") \in ProfileRows
    BY DEF Profile, ProfileRows, KYCStatuses, RiskLevels
  <2>2. profiles \subseteq ProfileRows
    BY <2>1, RegisteredAssumption DEF Init
  <2>3. users \in [UserIds -> UserRows \cup {NoUser}]
    BY RegisteredAssumption DEF Init
  <2> QED
    BY <2>2, <2>3, BoundAssumption DEF Init, ShapeInv
<1>3. RequestInv
  BY DEF Init, RequestInv, FieldsOK, MadeOK, ReviewOK, Made, Deciding, Currencies
<1>4. UniqueInv
  <2>1. \A u \in UserIds : users[u] \in UserRows =>
          u \in DOMAIN Registered /\ users[u] = Registered[u]
    BY <1>1 DEF Init
  <2>2. \A r \in Requests : mine[r] = None
    BY DEF Init
  <2> QED
    BY <2>1, <2>2, RegisteredAssumption DEF UniqueInv
<1>5. WalletInv
  <2>1. \A u \in UserIds : users[u] = NoUser => u \notin DOMAIN Registered
    BY NoUserIsNoRow, RegisteredAssumption DEF Init
  <2>2. \A u \in UserIds, c \in Currencies :
          wallets[u][c] = IF u \in DOMAIN Registered THEN 1 ELSE 0
    BY DEF Init
  <2>3. \A r \in Requests : pc[r] \notin Currencies
    BY DEF Init, Currencies
  <2> QED
    BY <2>1, <2>2, <2>3 DEF WalletInv, Currencies
<1> QED
  BY <1>2, <1>3, <1>4, <1>5 DEF IInv

-----------------------------------------------------------------------------
\* Users keep name and address, and move along the table of transitions.
RowsKept ==
  \A u \in UserIds : users[u] \in UserRows =>
    /\ users'[u] \in UserRows
    /\ users'[u].name = users[u].name /\ users'[u].email = users[u].email
    /\ users'[u].status = users[u].status \/ MayBecome(users[u].status, users'[u].status)

NobodyNew == \A u \in UserIds : users[u] = NoUser => users'[u] = NoUser

UsersKept == RowsKept /\ NobodyNew

\* An approved profile stays approved.
ProfilesKept ==
  \A p \in profiles : IsApproved(p.status) =>
    \E q \in profiles' : q.user = p.user /\ IsApproved(q.status)

\* A step leaves the other requests alone.
OthersKept(r) ==
  \A q \in Requests \ {r} : pc'[q] = pc[q] /\ request'[q] = request[q] /\ mine'[q] = mine[q]

\* What a review or a registration has reached is not taken back.
LEMMA StatusKept ==
  ASSUME IInv, RowsKept, NEW u \in UserIds, users[u] \in UserRows
  PROVE  /\ users[u].status # "PENDING_KYC" => users'[u].status # "PENDING_KYC"
         /\ users[u].status \in {"ACTIVE", "FROZEN"} => users'[u].status \in {"ACTIVE", "FROZEN"}
         /\ users[u].status = "REJECTED" => users'[u].status = "REJECTED"
BY DEF UsersKept, RowsKept, NobodyNew, MayBecome, ValidTransitions

LEMMA OthersIInv ==
  ASSUME IInv, RowsKept, ProfilesKept, NEW q \in Requests,
         pc'[q] = pc[q], request'[q] = request[q], mine'[q] = mine[q]
  PROVE  FieldsOK(q)' /\ MadeOK(q)' /\ ReviewOK(q)'
<1>1. FieldsOK(q) /\ MadeOK(q) /\ ReviewOK(q) /\ mine[q] \in UserIds \cup {None}
  BY DEF IInv, RequestInv, ShapeInv
<1>2. FieldsOK(q)'
  BY <1>1 DEF FieldsOK
<1>3. MadeOK(q)'
  BY <1>1, StatusKept DEF MadeOK, UsersKept, RowsKept, NobodyNew
<1>4. ReviewOK(q)'
  <2> SUFFICES ASSUME request[q].op = "review", pc[q] \in Deciding \cup {"served"}
               PROVE  ReviewOK(q)'
    BY DEF ReviewOK, Deciding
  <2>1. request[q].user \in UserIds
    BY <1>1 DEF FieldsOK
  <2> QED
    BY <1>1, <2>1, StatusKept DEF ReviewOK, UsersKept, RowsKept, NobodyNew, ProfilesKept
<1> QED
  BY <1>2, <1>3, <1>4

\* A step of request r that makes no user and touches no wallet.
LEMMA StepIInv ==
  ASSUME IInv, NEW r \in Requests, ShapeInv', UsersKept, ProfilesKept, OthersKept(r),
         UNCHANGED <<wallets, mine>>, FieldsOK(r)', MadeOK(r)', ReviewOK(r)',
         pc'[r] \notin Currencies
  PROVE  IInv'
<1>1. RequestInv'
  BY OthersIInv DEF RequestInv, OthersKept, UsersKept
<1>2. UniqueInv'
  BY DEF IInv, ShapeInv, UniqueInv, UsersKept, RowsKept, NobodyNew
<1>3. WalletInv'
  BY NoUserIsNoRow DEF IInv, ShapeInv, WalletInv, UsersKept, RowsKept, NobodyNew, OthersKept, Currencies
<1> QED
  BY <1>1, <1>2, <1>3 DEF IInv

-----------------------------------------------------------------------------
(* What the statements do to the tables *)

LEMMA WithStatusKeeps ==
  ASSUME IInv, NEW u \in UserIds, NEW status \in UserStatuses, users' = WithStatus(u, status)
  PROVE  /\ users' \in [UserIds -> UserRows \cup {NoUser}] /\ UsersKept
         /\ UserMayBecome(u, status) => users'[u] \in UserRows /\ users'[u].status = status
         /\ users[u] \in UserRows /\ ~ UserMayBecome(u, status) => users'[u] = users[u]
<1> DEFINE row == [users[u] EXCEPT !.status = status]
<1>1. CASE UserMayBecome(u, status)
  <2>1. users[u] \in UserRows /\ users' = [users EXCEPT ![u] = row]
    BY <1>1 DEF IInv, ShapeInv, UserMayBecome, WithStatus
  <2>2. /\ row \in UserRows /\ row.name = users[u].name /\ row.email = users[u].email
        /\ row.status = status
    BY <2>1 DEF UserRows
  <2>3. MayBecome(users[u].status, status)
    BY <1>1 DEF UserMayBecome
  <2> HIDE DEF row
  <2> QED
    BY <1>1, <2>1, <2>2, <2>3, NoUserIsNoRow DEF IInv, ShapeInv, UsersKept, RowsKept, NobodyNew
<1>2. CASE ~ UserMayBecome(u, status)
  BY <1>2 DEF WithStatus, IInv, ShapeInv, UsersKept, RowsKept, NobodyNew
<1> QED
  BY <1>1, <1>2

\* An update of some rows' status that no approved row is subject to.
LEMMA MovedKeeps ==
  ASSUME IInv, NEW u \in UserIds, NEW new \in {"MANUAL_REVIEW", "APPROVED", "REJECTED"},
         profiles' = Moved(u, new)
  PROVE  /\ profiles' \subseteq ProfileRows /\ ProfilesKept
         /\ Moves(u, new) => \E p \in profiles' : p.user = u /\ p.status = new
<1>1. \A p \in profiles : [p EXCEPT !.status = new] \in ProfileRows
                          /\ [p EXCEPT !.status = new].user = p.user
                          /\ [p EXCEPT !.status = new].status = new
  BY DEF IInv, ShapeInv, ProfileRows, KYCStatuses
<1>2. profiles' \subseteq ProfileRows
  BY <1>1 DEF Moved, IInv, ShapeInv
<1>3. \A p \in profiles : IsApproved(p.status) => p \in profiles'
  BY DEF Moved, KYCMayBecome, ValidKYCTransitions, IsApproved
<1>4. ProfilesKept
  BY <1>3 DEF ProfilesKept
<1>5. ASSUME Moves(u, new) PROVE \E p \in profiles' : p.user = u /\ p.status = new
  BY <1>1, <1>5 DEF Moves, ProfilesOf, Moved
<1> QED
  BY <1>2, <1>4, <1>5

LEMMA TablesUnchanged ==
  /\ IInv /\ UNCHANGED users => UsersKept
  /\ UNCHANGED profiles => ProfilesKept
  BY DEF IInv, ShapeInv, UsersKept, RowsKept, NobodyNew, ProfilesKept

-----------------------------------------------------------------------------
(* Requests that come *)

\* A request that goes on to a label keeps the shape of the variables, if the
\* tables it writes keep theirs.
LEMMA ShapeKept ==
  ASSUME IInv, NEW r \in Requests, NEW label \in Running \cup Answers,
         pc' = [pc EXCEPT ![r] = label], DOMAIN request' = Requests, Succeeds \/ Fails,
         users' \in [UserIds -> UserRows \cup {NoUser}], profiles' \subseteq ProfileRows,
         attempts' \subseteq [id: Requests, name: Names, success: BOOLEAN],
         UNCHANGED <<wallets, mine>>
  PROVE  ShapeInv' /\ pc'[r] = label
<1>1. pc' \in [Requests -> Running \cup Answers \cup {"new"}] /\ pc'[r] = label
  BY DEF IInv, ShapeInv
<1>2. mishaps' \in 0..MaxMishaps
  BY BoundAssumption DEF IInv, ShapeInv, Succeeds, Fails
<1> QED
  BY <1>1, <1>2 DEF IInv, ShapeInv

LEMMA NothingMade ==
  ASSUME IInv, NEW r \in Requests, pc[r] \notin Made \cup {"served", "broken", "dead"}
  PROVE  mine[r] = None
BY DEF IInv, RequestInv, MadeOK

\* Request r comes, asks for something, and goes to a label that fits.
Comes(r, what, label) ==
  /\ pc[r] = "new" /\ pc' = [pc EXCEPT ![r] = label]
  /\ request' = [request EXCEPT ![r] = what]
  /\ Succeeds \/ Fails
  /\ users' \in [UserIds -> UserRows \cup {NoUser}] /\ UsersKept
  /\ UNCHANGED <<wallets, profiles, attempts, mine>>
  /\ label \in {"refused", "email?", "attempt", "reset", "failed attempt", "existing", "decide",
               "served", "broken"}
  /\ label = "email?" => what.op = "register" /\ what.name \in Names /\ what.email \in Emails
  /\ label \in {"attempt", "reset", "failed attempt"} => what.op = "login" /\ what.name \in Names
  /\ label = "existing" => what.op = "submit" /\ what.user \in UserIds
  /\ label = "decide" => /\ what.op = "review" /\ what.user \in UserIds
                        /\ what.action \in {"APPROVED", "REJECTED"}
                        /\ what.level \in {None, "HIGH"}
  /\ label = "served" => what.op = "update"

LEMMA ComesIInv ==
  ASSUME IInv, NEW r \in Requests, NEW what, NEW label, Comes(r, what, label)
  PROVE  IInv'
<1> USE DEF Comes
<1>1. request'[r] = what /\ DOMAIN request' = Requests
  BY DEF IInv, ShapeInv
<1>2. ShapeInv' /\ pc'[r] = label
  <2>1. label \in Running \cup Answers
    BY DEF Running, Answers
  <2>2. profiles' \subseteq ProfileRows
        /\ attempts' \subseteq [id: Requests, name: Names, success: BOOLEAN]
    BY DEF IInv, ShapeInv
  <2> QED
    BY <1>1, <2>1, <2>2, ShapeKept
<1>3. OthersKept(r) /\ ProfilesKept
  BY TablesUnchanged DEF IInv, ShapeInv, OthersKept
<1>4. FieldsOK(r)'
  BY <1>1, <1>2 DEF FieldsOK, Made, Deciding, Currencies
<1>5. MadeOK(r)'
  <2>1. mine'[r] = None
    BY NothingMade DEF Made, Currencies
  <2>2. pc'[r] \notin Made /\ (pc'[r] = "served" => request'[r].op # "register")
    BY <1>1, <1>2 DEF Made, Currencies
  <2> QED
    BY <2>1, <2>2 DEF MadeOK
<1>6. ReviewOK(r)'
  BY <1>1, <1>2 DEF ReviewOK
<1>7. pc'[r] \notin Currencies
  BY <1>2 DEF Currencies
<1> QED
  BY <1>2, <1>3, <1>4, <1>5, <1>6, <1>7, StepIInv

LEMMA RegisterIInv ==
  ASSUME IInv, NEW r \in Requests, NEW name \in Names, NEW email \in Emails,
         NEW key \in AdminKeys, Register(r, name, email, key)
  PROVE  IInv'
<1> USE DEF Register, Asks, tables
<1> DEFINE what == [op |-> "register", name |-> name, email |-> email, key |-> key]
<1>1. PICK label \in {"refused", "email?"} : pc' = [pc EXCEPT ![r] = label]
  BY DEF Goto
<1>2. request' = [request EXCEPT ![r] = what] /\ pc[r] = "new" /\ (Succeeds \/ Fails)
  OBVIOUS
<1>3. users' \in [UserIds -> UserRows \cup {NoUser}] /\ UsersKept
  BY TablesUnchanged DEF IInv, ShapeInv
<1>4. Comes(r, what, label)
  BY <1>1, <1>2, <1>3 DEF Comes
<1> QED
  BY <1>4, ComesIInv

LEMMA LoginIInv ==
  ASSUME IInv, NEW r \in Requests, NEW name \in Names, NEW right \in BOOLEAN,
         Login(r, name, right)
  PROVE  IInv'
<1> USE DEF Login, Asks, tables
<1> DEFINE what == [op |-> "login", name |-> name, right |-> right]
<1>1. PICK label \in {"attempt", "reset", "failed attempt"} : pc' = [pc EXCEPT ![r] = label]
  BY DEF Goto
<1>2. request' = [request EXCEPT ![r] = what] /\ pc[r] = "new" /\ (Succeeds \/ Fails)
  OBVIOUS
<1>3. users' \in [UserIds -> UserRows \cup {NoUser}] /\ UsersKept
  BY TablesUnchanged DEF IInv, ShapeInv
<1>4. Comes(r, what, label)
  BY <1>1, <1>2, <1>3 DEF Comes
<1> QED
  BY <1>4, ComesIInv

LEMMA SubmitIInv ==
  ASSUME IInv, NEW r \in Requests, NEW u \in UserIds, SubmitKYC(r, u)
  PROVE  IInv'
<1> USE DEF SubmitKYC, RefusesOnError, Asks, tables
<1> DEFINE what == [op |-> "submit", user |-> u]
<1>1. PICK label \in {"existing", "refused"} : pc' = [pc EXCEPT ![r] = label]
  BY DEF Goto
<1>2. request' = [request EXCEPT ![r] = what] /\ pc[r] = "new" /\ (Succeeds \/ Fails)
  OBVIOUS
<1>3. users' \in [UserIds -> UserRows \cup {NoUser}] /\ UsersKept
  BY TablesUnchanged DEF IInv, ShapeInv
<1>4. Comes(r, what, label)
  BY <1>1, <1>2, <1>3 DEF Comes
<1> QED
  BY <1>4, ComesIInv

LEMMA ReviewIInv ==
  ASSUME IInv, NEW r \in Requests, NEW u \in UserIds, NEW action \in {"APPROVED", "REJECTED"},
         NEW riskLevel \in {None, "HIGH"}, ReviewKYC(r, u, action, riskLevel)
  PROVE  IInv'
<1> USE DEF ReviewKYC, RefusesOnError, Asks, tables
<1> DEFINE what == [op |-> "review", user |-> u, action |-> action, level |-> riskLevel]
<1>1. PICK label \in {"decide", "refused"} : pc' = [pc EXCEPT ![r] = label]
  BY DEF Goto
<1>2. request' = [request EXCEPT ![r] = what] /\ pc[r] = "new" /\ (Succeeds \/ Fails)
  OBVIOUS
<1>3. users' \in [UserIds -> UserRows \cup {NoUser}] /\ UsersKept
  BY TablesUnchanged DEF IInv, ShapeInv
<1>4. Comes(r, what, label)
  BY <1>1, <1>2, <1>3 DEF Comes
<1> QED
  BY <1>4, ComesIInv

LEMMA UpdateStatusIInv ==
  ASSUME IInv, NEW r \in Requests, NEW u \in UserIds, NEW status \in UserStatuses,
         UpdateStatus(r, u, status)
  PROVE  IInv'
<1> USE DEF UpdateStatus, Asks
<1> DEFINE what == [op |-> "update", user |-> u, status |-> status]
<1>1. PICK label \in {"served", "refused", "broken"} : pc' = [pc EXCEPT ![r] = label]
  BY DEF Goto
<1>2. request' = [request EXCEPT ![r] = what] /\ pc[r] = "new" /\ (Succeeds \/ Fails)
  OBVIOUS
<1>3. users' \in [UserIds -> UserRows \cup {NoUser}] /\ UsersKept
  BY WithStatusKeeps, TablesUnchanged DEF IInv, ShapeInv
<1>4. Comes(r, what, label)
  BY <1>1, <1>2, <1>3 DEF Comes
<1> QED
  BY <1>4, ComesIInv

-----------------------------------------------------------------------------
(* Requests that go on *)

\* Request r goes on to a label, having made no user and touched no wallet.
Goes(r, label) ==
  /\ pc' = [pc EXCEPT ![r] = label] /\ label \in (Running \cup Answers) \ Currencies
  /\ UNCHANGED <<request, wallets, mine>>
  /\ Succeeds \/ Fails
  /\ users' \in [UserIds -> UserRows \cup {NoUser}] /\ UsersKept
  /\ profiles' \subseteq ProfileRows /\ ProfilesKept
  /\ attempts' \subseteq [id: Requests, name: Names, success: BOOLEAN]

LEMMA GoesIInv ==
  ASSUME IInv, NEW r \in Requests, NEW label, Goes(r, label),
         FieldsOK(r)', MadeOK(r)', ReviewOK(r)'
  PROVE  IInv'
<1> USE DEF Goes
<1>1. ShapeInv' /\ pc'[r] = label
  <2>1. DOMAIN request' = Requests
    BY DEF IInv, ShapeInv
  <2> QED
    BY <2>1, ShapeKept
<1>2. OthersKept(r)
  BY DEF IInv, ShapeInv, OthersKept
<1> QED
  BY <1>1, <1>2, StepIInv

LEMMA CheckEmailIInv ==
  ASSUME IInv, NEW r \in Requests, CheckEmail(r)
  PROVE  IInv'
<1> USE DEF CheckEmail, tables
<1>1. FieldsOK(r) /\ MadeOK(r) /\ ReviewOK(r)
  BY DEF IInv, RequestInv
<1>2. PICK label \in {"broken", "create", "refused"} : pc' = [pc EXCEPT ![r] = label]
  BY <1>1 DEF Goto, FieldsOK, Made, Currencies, Deciding
<1>3. /\ users' \in [UserIds -> UserRows \cup {NoUser}] /\ UsersKept
      /\ profiles' \subseteq ProfileRows /\ ProfilesKept
      /\ attempts' \subseteq [id: Requests, name: Names, success: BOOLEAN]
  BY TablesUnchanged DEF IInv, ShapeInv
<1>4. Goes(r, label) /\ pc'[r] = label
  BY <1>2, <1>3 DEF Goes, Running, Answers, Currencies, IInv, ShapeInv
<1>5. FieldsOK(r)'
  BY <1>1, <1>2, <1>4 DEF FieldsOK, Made, Deciding, Currencies, Goes
<1>6. MadeOK(r)'
  BY <1>1, <1>2, <1>4, StatusKept
     DEF MadeOK, FieldsOK, Made, Currencies, Deciding, Goes, UsersKept, RowsKept, NobodyNew, IInv,
         ShapeInv
<1>7. ReviewOK(r)'
  BY <1>1, <1>2, <1>4 DEF ReviewOK, FieldsOK, Made, Currencies, Deciding, Goes
<1> QED
  BY <1>4, <1>5, <1>6, <1>7, GoesIInv

LEMMA CountProfilesIInv ==
  ASSUME IInv, NEW r \in Requests, CountProfiles(r)
  PROVE  IInv'
<1> USE DEF CountProfiles, tables
<1>1. FieldsOK(r) /\ MadeOK(r) /\ ReviewOK(r)
  BY DEF IInv, RequestInv
<1>2. PICK label \in {"approve", "insert"} : pc' = [pc EXCEPT ![r] = label]
  BY <1>1 DEF Goto, FieldsOK, Made, Currencies, Deciding
<1>3. /\ users' \in [UserIds -> UserRows \cup {NoUser}] /\ UsersKept
      /\ profiles' \subseteq ProfileRows /\ ProfilesKept
      /\ attempts' \subseteq [id: Requests, name: Names, success: BOOLEAN]
  BY TablesUnchanged DEF IInv, ShapeInv
<1>4. Goes(r, label) /\ pc'[r] = label
  BY <1>2, <1>3 DEF Goes, Running, Answers, Currencies, IInv, ShapeInv
<1>5. FieldsOK(r)'
  BY <1>1, <1>2, <1>4 DEF FieldsOK, Made, Deciding, Currencies, Goes
<1>6. MadeOK(r)'
  BY <1>1, <1>2, <1>4, StatusKept
     DEF MadeOK, FieldsOK, Made, Currencies, Deciding, Goes, UsersKept, RowsKept, NobodyNew, IInv,
         ShapeInv
<1>7. ReviewOK(r)'
  BY <1>1, <1>2, <1>4 DEF ReviewOK, FieldsOK, Made, Currencies, Deciding, Goes
<1> QED
  BY <1>4, <1>5, <1>6, <1>7, GoesIInv

LEMMA ApprovesIInv ==
  ASSUME IInv, NEW r \in Requests, EnsureKYCApproved(r)
  PROVE  IInv'
<1> USE DEF EnsureKYCApproved
<1>1. FieldsOK(r) /\ MadeOK(r) /\ ReviewOK(r)
  BY DEF IInv, RequestInv
<1>2. PICK label \in {"served", "activate"} : pc' = [pc EXCEPT ![r] = label]
        /\ (label = "served" => IsAdmin(request[r].key))
  BY <1>1 DEF Goto, FieldsOK, Made, Currencies, Deciding
<1>3. /\ users' \in [UserIds -> UserRows \cup {NoUser}] /\ UsersKept
      /\ profiles' \subseteq ProfileRows /\ ProfilesKept
      /\ attempts' \subseteq [id: Requests, name: Names, success: BOOLEAN]
  <2>1. mine[r] \in UserIds
    BY <1>1 DEF FieldsOK, MadeOK, Made, Currencies
  <2>2. Profile(r, mine[r], "APPROVED") \in ProfileRows
    BY <2>1 DEF Profile, ProfileRows, KYCStatuses, RiskLevels
  <2>3. \A p \in profiles :
          /\ [p EXCEPT !.status = "APPROVED"] \in ProfileRows
          /\ [p EXCEPT !.status = "APPROVED"].user = p.user
          /\ [p EXCEPT !.status = "APPROVED"].status = "APPROVED"
    BY DEF IInv, ShapeInv, ProfileRows, KYCStatuses
  <2>4. profiles' \subseteq ProfileRows
    BY <2>2, <2>3 DEF IInv, ShapeInv
  <2>5. ProfilesKept
    BY <2>3 DEF ProfilesKept, IsApproved
  <2> QED
    BY <2>4, <2>5, TablesUnchanged DEF IInv, ShapeInv
<1>4. Goes(r, label) /\ pc'[r] = label
  BY <1>2, <1>3 DEF Goes, Running, Answers, Currencies, IInv, ShapeInv
<1>5. FieldsOK(r)'
  BY <1>1, <1>2, <1>4 DEF FieldsOK, Made, Deciding, Currencies, Goes
<1>6. MadeOK(r)'
  BY <1>1, <1>2, <1>4, StatusKept
     DEF MadeOK, FieldsOK, Made, Currencies, Deciding, Goes, UsersKept, RowsKept, NobodyNew, IInv,
         ShapeInv
<1>7. ReviewOK(r)'
  BY <1>1, <1>2, <1>4 DEF ReviewOK, FieldsOK, Made, Currencies, Deciding, Goes
<1> QED
  BY <1>4, <1>5, <1>6, <1>7, GoesIInv

LEMMA ActivateIInv ==
  ASSUME IInv, NEW r \in Requests, ActivateUser(r)
  PROVE  IInv'
<1> USE DEF ActivateUser, AfterUpdateError
<1>1. FieldsOK(r) /\ MadeOK(r) /\ ReviewOK(r)
  BY DEF IInv, RequestInv
<1>2. PICK label \in {"served", "broken"} : pc' = [pc EXCEPT ![r] = label]
        /\ (label = "served" => users' = WithStatus(mine[r], "ACTIVE"))
  BY <1>1 DEF Goto, FieldsOK, Made, Currencies, Deciding
<1>3. /\ users' \in [UserIds -> UserRows \cup {NoUser}] /\ UsersKept
      /\ profiles' \subseteq ProfileRows /\ ProfilesKept
      /\ attempts' \subseteq [id: Requests, name: Names, success: BOOLEAN]
  <2>1. mine[r] \in UserIds /\ "ACTIVE" \in UserStatuses
    BY <1>1 DEF FieldsOK, MadeOK, Made, UserStatuses
  <2> QED
    BY <2>1, WithStatusKeeps, TablesUnchanged DEF IInv, ShapeInv
<1>4. Goes(r, label) /\ pc'[r] = label
  BY <1>2, <1>3 DEF Goes, Running, Answers, Currencies, IInv, ShapeInv
<1>5. FieldsOK(r)'
  BY <1>1, <1>2, <1>4 DEF FieldsOK, Made, Deciding, Currencies, Goes
<1>6. MadeOK(r)'
  <2>1. /\ mine[r] \in UserIds /\ users[mine[r]] \in UserRows /\ request[r].op = "register"
        /\ users[mine[r]].name = request[r].name /\ users[mine[r]].email = request[r].email
    BY <1>1 DEF FieldsOK, MadeOK, Made
  <2>2. /\ users'[mine[r]] \in UserRows /\ users'[mine[r]].name = request[r].name
        /\ users'[mine[r]].email = request[r].email
    BY <2>1, <1>3 DEF UsersKept, RowsKept, NobodyNew
  <2>3. ASSUME label = "served" PROVE users'[mine[r]].status # "PENDING_KYC"
    <3>1. "ACTIVE" \in UserStatuses
      BY DEF UserStatuses
    <3>2. CASE UserMayBecome(mine[r], "ACTIVE")
      BY <3>1, <3>2, <2>1, <2>3, <1>2, WithStatusKeeps
    <3>3. CASE ~ UserMayBecome(mine[r], "ACTIVE")
      <4>1. users[mine[r]].status # "PENDING_KYC"
        BY <3>3, <2>1, NoUserIsNoRow DEF UserMayBecome, MayBecome, ValidTransitions
      <4> QED
        BY <4>1, <3>1, <3>3, <2>1, <2>3, <1>2, WithStatusKeeps
    <3> QED
      BY <3>2, <3>3
  <2> QED
    BY <1>2, <1>4, <2>1, <2>2, <2>3 DEF MadeOK, Goes, Made, Currencies
<1>7. ReviewOK(r)'
  BY <1>1, <1>2, <1>4 DEF ReviewOK, FieldsOK, Made, Currencies, Deciding, Goes
<1> QED
  BY <1>4, <1>5, <1>6, <1>7, GoesIInv

LEMMA RecordLoginIInv ==
  ASSUME IInv, NEW r \in Requests, RecordLoginAttempt(r)
  PROVE  IInv'
<1> USE DEF RecordLoginAttempt
<1>1. FieldsOK(r) /\ MadeOK(r) /\ ReviewOK(r)
  BY DEF IInv, RequestInv
<1>2. PICK label \in {"refused", "served", "increment"} : pc' = [pc EXCEPT ![r] = label]
  BY <1>1 DEF Goto, FieldsOK, Made, Currencies, Deciding
<1>3. /\ users' \in [UserIds -> UserRows \cup {NoUser}] /\ UsersKept
      /\ profiles' \subseteq ProfileRows /\ ProfilesKept
      /\ attempts' \subseteq [id: Requests, name: Names, success: BOOLEAN]
  <2>1. request[r].name \in Names
    BY <1>1 DEF FieldsOK
  <2>2. (pc[r] = "success") \in BOOLEAN
    OBVIOUS
  <2>3. [id |-> r, name |-> request[r].name, success |-> pc[r] = "success"]
          \in [id: Requests, name: Names, success: BOOLEAN]
    BY <2>1, <2>2, Zenon
  <2> QED
    BY <2>3, TablesUnchanged DEF IInv, ShapeInv
<1>4. Goes(r, label) /\ pc'[r] = label
  BY <1>2, <1>3 DEF Goes, Running, Answers, Currencies, IInv, ShapeInv
<1>5. FieldsOK(r)'
  BY <1>1, <1>2, <1>4 DEF FieldsOK, Made, Deciding, Currencies, Goes
<1>6. MadeOK(r)'
  BY <1>1, <1>2, <1>4, StatusKept
     DEF MadeOK, FieldsOK, Made, Currencies, Deciding, Goes, UsersKept, RowsKept, NobodyNew, IInv,
         ShapeInv
<1>7. ReviewOK(r)'
  BY <1>1, <1>2, <1>4 DEF ReviewOK, FieldsOK, Made, Currencies, Deciding, Goes
<1> QED
  BY <1>4, <1>5, <1>6, <1>7, GoesIInv

LEMMA CountLoginsIInv ==
  ASSUME IInv, NEW r \in Requests, CountFailedLogins(r)
  PROVE  IInv'
<1> USE DEF CountFailedLogins
<1>1. FieldsOK(r) /\ MadeOK(r) /\ ReviewOK(r)
  BY DEF IInv, RequestInv
<1>2. PICK label \in {"success", "refused"} : pc' = [pc EXCEPT ![r] = label]
  BY <1>1 DEF Goto, FieldsOK, Made, Currencies, Deciding
<1>3. /\ users' \in [UserIds -> UserRows \cup {NoUser}] /\ UsersKept
      /\ profiles' \subseteq ProfileRows /\ ProfilesKept
      /\ attempts' \subseteq [id: Requests, name: Names, success: BOOLEAN]
  <2> DEFINE row(u, n) == [users[u] EXCEPT !.failed = n]
  <2>1. ASSUME NEW u \in UserIds, NEW n \in Nat, users[u] \in UserRows
        PROVE  /\ row(u, n) \in UserRows /\ row(u, n).name = users[u].name
               /\ row(u, n).email = users[u].email /\ row(u, n).status = users[u].status
    BY <2>1 DEF UserRows
  <2>2. ASSUME NEW u \in UserIds
        PROVE  \/ users'[u] = users[u]
               \/ users[u] \in UserRows /\ \E n \in Nat : users'[u] = row(u, n)
    <3>1. CASE UNCHANGED users \/ u \notin Named(request[r].name)
      BY <3>1
    <3>2. CASE u \in Named(request[r].name) /\ ~ UNCHANGED users
      <4>1. users[u] \in UserRows /\ users[u].failed \in Nat
        BY <3>2 DEF IInv, ShapeInv, Named, UserRows
      <4>2. users'[u] = row(u, IF pc[r] = "reset" THEN 0 ELSE users[u].failed + 1)
        BY <3>2, <4>1
      <4>3. (IF pc[r] = "reset" THEN 0 ELSE users[u].failed + 1) \in Nat
        BY <4>1
      <4> HIDE DEF row
      <4> QED
        BY <4>1, <4>2, <4>3
    <3> QED
      BY <3>1, <3>2
  <2> HIDE DEF row
  <2>3. DOMAIN users' = UserIds /\ users' = [u \in UserIds |-> users'[u]]
    BY DEF IInv, ShapeInv
  <2>4. \A u \in UserIds : users'[u] \in UserRows \cup {NoUser}
    BY <2>1, <2>2 DEF IInv, ShapeInv
  <2>5. users' \in [UserIds -> UserRows \cup {NoUser}]
    BY <2>3, <2>4
  <2>6. ASSUME NEW u \in UserIds
        PROVE  /\ users[u] \in UserRows =>
                    /\ users'[u] \in UserRows /\ users'[u].name = users[u].name
                    /\ users'[u].email = users[u].email /\ users'[u].status = users[u].status
               /\ users[u] = NoUser => users'[u] = NoUser
    BY <2>1, <2>2, NoUserIsNoRow
  <2>7. UsersKept
    BY <2>6 DEF UsersKept, RowsKept, NobodyNew
  <2> QED
    BY <2>5, <2>7, TablesUnchanged DEF IInv, ShapeInv
<1>4. Goes(r, label) /\ pc'[r] = label
  BY <1>2, <1>3 DEF Goes, Running, Answers, Currencies, IInv, ShapeInv
<1>5. FieldsOK(r)'
  BY <1>1, <1>2, <1>4 DEF FieldsOK, Made, Deciding, Currencies, Goes
<1>6. MadeOK(r)'
  BY <1>1, <1>2, <1>4, StatusKept
     DEF MadeOK, FieldsOK, Made, Currencies, Deciding, Goes, UsersKept, RowsKept, NobodyNew, IInv,
         ShapeInv
<1>7. ReviewOK(r)'
  BY <1>1, <1>2, <1>4 DEF ReviewOK, FieldsOK, Made, Currencies, Deciding, Goes
<1> QED
  BY <1>4, <1>5, <1>6, <1>7, GoesIInv

LEMMA CheckExistingIInv ==
  ASSUME IInv, NEW r \in Requests, CheckExisting(r)
  PROVE  IInv'
<1> USE DEF CheckExisting, tables
<1>1. FieldsOK(r) /\ MadeOK(r) /\ ReviewOK(r)
  BY DEF IInv, RequestInv
<1>2. PICK label \in {"submit", "refused"} : pc' = [pc EXCEPT ![r] = label]
  BY <1>1 DEF Goto, FieldsOK, Made, Currencies, Deciding
<1>3. /\ users' \in [UserIds -> UserRows \cup {NoUser}] /\ UsersKept
      /\ profiles' \subseteq ProfileRows /\ ProfilesKept
      /\ attempts' \subseteq [id: Requests, name: Names, success: BOOLEAN]
  BY TablesUnchanged DEF IInv, ShapeInv
<1>4. Goes(r, label) /\ pc'[r] = label
  BY <1>2, <1>3 DEF Goes, Running, Answers, Currencies, IInv, ShapeInv
<1>5. FieldsOK(r)'
  BY <1>1, <1>2, <1>4 DEF FieldsOK, Made, Deciding, Currencies, Goes
<1>6. MadeOK(r)'
  BY <1>1, <1>2, <1>4, StatusKept
     DEF MadeOK, FieldsOK, Made, Currencies, Deciding, Goes, UsersKept, RowsKept, NobodyNew, IInv,
         ShapeInv
<1>7. ReviewOK(r)'
  BY <1>1, <1>2, <1>4 DEF ReviewOK, FieldsOK, Made, Currencies, Deciding, Goes
<1> QED
  BY <1>4, <1>5, <1>6, <1>7, GoesIInv

LEMMA CreateProfileIInv ==
  ASSUME IInv, NEW r \in Requests, CreateKYCProfile(r)
  PROVE  IInv'
<1> USE DEF CreateKYCProfile, RefusesOnError
<1>1. FieldsOK(r) /\ MadeOK(r) /\ ReviewOK(r)
  BY DEF IInv, RequestInv
<1>2. PICK label \in {"to review", "refused"} : pc' = [pc EXCEPT ![r] = label]
  BY <1>1 DEF Goto, FieldsOK, Made, Currencies, Deciding
<1>3. /\ users' \in [UserIds -> UserRows \cup {NoUser}] /\ UsersKept
      /\ profiles' \subseteq ProfileRows /\ ProfilesKept
      /\ attempts' \subseteq [id: Requests, name: Names, success: BOOLEAN]
  <2>1. request[r].user \in UserIds
    BY <1>1 DEF FieldsOK
  <2>2. Profile(r, request[r].user, "PENDING") \in ProfileRows
    BY <2>1 DEF Profile, ProfileRows, KYCStatuses, RiskLevels
  <2> QED
    BY <2>2, TablesUnchanged DEF IInv, ShapeInv, ProfilesKept
<1>4. Goes(r, label) /\ pc'[r] = label
  BY <1>2, <1>3 DEF Goes, Running, Answers, Currencies, IInv, ShapeInv
<1>5. FieldsOK(r)'
  BY <1>1, <1>2, <1>4 DEF FieldsOK, Made, Deciding, Currencies, Goes
<1>6. MadeOK(r)'
  BY <1>1, <1>2, <1>4, StatusKept
     DEF MadeOK, FieldsOK, Made, Currencies, Deciding, Goes, UsersKept, RowsKept, NobodyNew, IInv,
         ShapeInv
<1>7. ReviewOK(r)'
  BY <1>1, <1>2, <1>4 DEF ReviewOK, FieldsOK, Made, Currencies, Deciding, Goes
<1> QED
  BY <1>4, <1>5, <1>6, <1>7, GoesIInv

LEMMA SendIInv ==
  ASSUME IInv, NEW r \in Requests, SendToReview(r)
  PROVE  IInv'
<1> USE DEF SendToReview, UpdateKYCStatus, RefusesOnError
<1>1. FieldsOK(r) /\ MadeOK(r) /\ ReviewOK(r)
  BY DEF IInv, RequestInv
<1>2. PICK label \in {"served", "refused"} : pc' = [pc EXCEPT ![r] = label]
  BY <1>1 DEF Goto, FieldsOK, Made, Currencies, Deciding
<1>3. /\ users' \in [UserIds -> UserRows \cup {NoUser}] /\ UsersKept
      /\ profiles' \subseteq ProfileRows /\ ProfilesKept
      /\ attempts' \subseteq [id: Requests, name: Names, success: BOOLEAN]
  <2>1. request[r].user \in UserIds
    BY <1>1 DEF FieldsOK
  <2> QED
    BY <2>1, MovedKeeps, TablesUnchanged DEF IInv, ShapeInv
<1>4. Goes(r, label) /\ pc'[r] = label
  BY <1>2, <1>3 DEF Goes, Running, Answers, Currencies, IInv, ShapeInv
<1>5. FieldsOK(r)'
  BY <1>1, <1>2, <1>4 DEF FieldsOK, Made, Deciding, Currencies, Goes
<1>6. MadeOK(r)'
  BY <1>1, <1>2, <1>4, StatusKept
     DEF MadeOK, FieldsOK, Made, Currencies, Deciding, Goes, UsersKept, RowsKept, NobodyNew, IInv,
         ShapeInv
<1>7. ReviewOK(r)'
  BY <1>1, <1>2, <1>4 DEF ReviewOK, FieldsOK, Made, Currencies, Deciding, Goes
<1> QED
  BY <1>4, <1>5, <1>6, <1>7, GoesIInv

LEMMA DecideIInv ==
  ASSUME IInv, NEW r \in Requests, DecideKYC(r)
  PROVE  IInv'
<1> USE DEF DecideKYC, UpdateKYCStatus, RefusesOnError
<1>1. FieldsOK(r) /\ MadeOK(r) /\ ReviewOK(r)
  BY DEF IInv, RequestInv
<1>2. PICK label \in {"user", "refused"} : pc' = [pc EXCEPT ![r] = label]
        /\ (label = "user" => /\ profiles' = Moved(request[r].user, request[r].action)
                             /\ Moves(request[r].user, request[r].action))
  BY <1>1 DEF Goto, FieldsOK, Made, Currencies, Deciding
<1>3. /\ users' \in [UserIds -> UserRows \cup {NoUser}] /\ UsersKept
      /\ profiles' \subseteq ProfileRows /\ ProfilesKept
      /\ attempts' \subseteq [id: Requests, name: Names, success: BOOLEAN]
  <2>1. request[r].user \in UserIds /\ request[r].action \in {"APPROVED", "REJECTED"}
    BY <1>1 DEF FieldsOK, Deciding
  <2> QED
    BY <2>1, MovedKeeps, TablesUnchanged DEF IInv, ShapeInv
<1>4. Goes(r, label) /\ pc'[r] = label
  BY <1>2, <1>3 DEF Goes, Running, Answers, Currencies, IInv, ShapeInv
<1>5. FieldsOK(r)'
  BY <1>1, <1>2, <1>4 DEF FieldsOK, Made, Deciding, Currencies, Goes
<1>6. MadeOK(r)'
  BY <1>1, <1>2, <1>4, StatusKept
     DEF MadeOK, FieldsOK, Made, Currencies, Deciding, Goes, UsersKept, RowsKept, NobodyNew, IInv,
         ShapeInv
<1>7. ReviewOK(r)'
  <2>1. request[r].user \in UserIds /\ request[r].action \in {"APPROVED", "REJECTED"}
    BY <1>1 DEF FieldsOK, Deciding
  <2>2. label = "user" => \E p \in profiles' : p.user = request[r].user
                                             /\ p.status = request[r].action
    BY <2>1, <1>2, MovedKeeps
  <2> QED
    BY <1>2, <1>4, <2>2 DEF ReviewOK, Goes, IsApproved
<1> QED
  BY <1>4, <1>5, <1>6, <1>7, GoesIInv

LEMMA DecideUserIInv ==
  ASSUME IInv, NEW r \in Requests, DecideUser(r)
  PROVE  IInv'
<1> USE DEF DecideUser
<1>1. FieldsOK(r) /\ MadeOK(r) /\ ReviewOK(r)
  BY DEF IInv, RequestInv
<1>2. PICK label \in {"profile level", "served", "refused", "broken"} : pc' = [pc EXCEPT ![r] = label]
        /\ (label \in {"profile level", "served"} =>
              /\ UserMayBecome(request[r].user, UserStatusFor(request[r].action))
              /\ users' = WithStatus(request[r].user, UserStatusFor(request[r].action)))
        /\ (label = "profile level" => request[r].action = "APPROVED" /\ request[r].level # None)
  BY <1>1 DEF Goto, FieldsOK, Made, Currencies, Deciding, AfterUser
<1>3. /\ users' \in [UserIds -> UserRows \cup {NoUser}] /\ UsersKept
      /\ profiles' \subseteq ProfileRows /\ ProfilesKept
      /\ attempts' \subseteq [id: Requests, name: Names, success: BOOLEAN]
  <2>1. request[r].user \in UserIds /\ UserStatusFor(request[r].action) \in UserStatuses
    BY <1>1 DEF FieldsOK, Deciding, UserStatuses, UserStatusFor
  <2> QED
    BY <2>1, WithStatusKeeps, TablesUnchanged DEF IInv, ShapeInv
<1>4. Goes(r, label) /\ pc'[r] = label
  BY <1>2, <1>3 DEF Goes, Running, Answers, Currencies, IInv, ShapeInv
<1>5. FieldsOK(r)'
  BY <1>1, <1>2, <1>4 DEF FieldsOK, Made, Deciding, Currencies, Goes
<1>6. MadeOK(r)'
  BY <1>1, <1>2, <1>4, StatusKept
     DEF MadeOK, FieldsOK, Made, Currencies, Deciding, Goes, UsersKept, RowsKept, NobodyNew, IInv,
         ShapeInv
<1>7. ReviewOK(r)'
  <2>1. request[r].user \in UserIds /\ request[r].action \in {"APPROVED", "REJECTED"}
    BY <1>1 DEF FieldsOK, Deciding
  <2>2. UserStatusFor(request[r].action) \in UserStatuses
    BY DEF UserStatusFor, UserStatuses
  <2>3. label \in {"profile level", "served"} =>
          /\ users'[request[r].user] \in UserRows
          /\ users'[request[r].user].status = UserStatusFor(request[r].action)
    BY <1>2, <2>1, <2>2, WithStatusKeeps
  <2> QED
    BY <1>1, <1>2, <1>4, <2>1, <2>3 DEF ReviewOK, Goes, UserStatusFor
<1> QED
  BY <1>4, <1>5, <1>6, <1>7, GoesIInv

LEMMA ProfileLevelIInv ==
  ASSUME IInv, NEW r \in Requests, UpdateKYCRiskLevel(r)
  PROVE  IInv'
<1> USE DEF UpdateKYCRiskLevel, RefusesOnError
<1>1. FieldsOK(r) /\ MadeOK(r) /\ ReviewOK(r)
  BY DEF IInv, RequestInv
<1>2. PICK label \in {"user level", "refused"} : pc' = [pc EXCEPT ![r] = label]
  BY <1>1 DEF Goto, FieldsOK, Made, Currencies, Deciding
<1>3. /\ users' \in [UserIds -> UserRows \cup {NoUser}] /\ UsersKept
      /\ profiles' \subseteq ProfileRows /\ ProfilesKept
      /\ attempts' \subseteq [id: Requests, name: Names, success: BOOLEAN]
  <2>1. \A p \in profiles :
          /\ [p EXCEPT !.level = "HIGH"] \in ProfileRows
          /\ [p EXCEPT !.level = "HIGH"].user = p.user
          /\ [p EXCEPT !.level = "HIGH"].status = p.status
    BY DEF IInv, ShapeInv, ProfileRows, RiskLevels
  <2>2. request[r].level = "HIGH"
    BY <1>1 DEF FieldsOK
  <2>3. CASE UNCHANGED profiles
    BY <2>3, TablesUnchanged DEF IInv, ShapeInv
  <2>4. CASE profiles' = { IF p.user = request[r].user THEN [p EXCEPT !.level = "HIGH"]
                           ELSE p : p \in profiles }
    <3>1. profiles' \subseteq ProfileRows
      BY ZenonT(40), <2>1, <2>4 DEF IInv, ShapeInv
    <3>2. ProfilesKept
      BY <2>1, <2>4 DEF ProfilesKept
    <3> QED
      BY <3>1, <3>2, TablesUnchanged DEF IInv, ShapeInv
  <2> QED
    BY <2>2, <2>3, <2>4
<1>4. Goes(r, label) /\ pc'[r] = label
  BY <1>2, <1>3 DEF Goes, Running, Answers, Currencies, IInv, ShapeInv
<1>5. FieldsOK(r)'
  BY <1>1, <1>2, <1>4 DEF FieldsOK, Made, Deciding, Currencies, Goes
<1>6. MadeOK(r)'
  BY <1>1, <1>2, <1>4, StatusKept
     DEF MadeOK, FieldsOK, Made, Currencies, Deciding, Goes, UsersKept, RowsKept, NobodyNew, IInv,
         ShapeInv
<1>7. ReviewOK(r)'
  <2>1. request[r].user \in UserIds
    BY <1>1 DEF FieldsOK, Deciding
  <2> QED
    BY <1>1, <1>2, <1>4, <2>1, StatusKept
       DEF ReviewOK, FieldsOK, Deciding, Goes, UsersKept, RowsKept, NobodyNew, ProfilesKept
<1> QED
  BY <1>4, <1>5, <1>6, <1>7, GoesIInv

LEMMA UserLevelIInv ==
  ASSUME IInv, NEW r \in Requests, UpdateUserRiskLevel(r)
  PROVE  IInv'
<1> USE DEF UpdateUserRiskLevel, RefusesOnError
<1>1. FieldsOK(r) /\ MadeOK(r) /\ ReviewOK(r)
  BY DEF IInv, RequestInv
<1>2. PICK label \in {"served", "refused"} : pc' = [pc EXCEPT ![r] = label]
  BY <1>1 DEF Goto, FieldsOK, Made, Currencies, Deciding
<1>3. /\ users' \in [UserIds -> UserRows \cup {NoUser}] /\ UsersKept
      /\ profiles' \subseteq ProfileRows /\ ProfilesKept
      /\ attempts' \subseteq [id: Requests, name: Names, success: BOOLEAN]
  <2> DEFINE u == request[r].user
             row == [users[u] EXCEPT !.level = "HIGH"]
  <2>1. u \in UserIds /\ users[u] \in UserRows /\ request[r].level = "HIGH"
    BY <1>1 DEF FieldsOK, ReviewOK, Deciding
  <2>2. /\ row \in UserRows /\ row.name = users[u].name /\ row.email = users[u].email
        /\ row.status = users[u].status
    BY <2>1 DEF UserRows, RiskLevels
  <2>3. users' = users \/ users' = [users EXCEPT ![u] = row]
    BY <2>1
  <2> HIDE DEF row
  <2> QED
    BY ZenonT(40), <2>1, <2>2, <2>3, TablesUnchanged, NoUserIsNoRow DEF IInv, ShapeInv, UsersKept, RowsKept, NobodyNew
<1>4. Goes(r, label) /\ pc'[r] = label
  BY <1>2, <1>3 DEF Goes, Running, Answers, Currencies, IInv, ShapeInv
<1>5. FieldsOK(r)'
  BY <1>1, <1>2, <1>4 DEF FieldsOK, Made, Deciding, Currencies, Goes
<1>6. MadeOK(r)'
  BY <1>1, <1>2, <1>4, StatusKept
     DEF MadeOK, FieldsOK, Made, Currencies, Deciding, Goes, UsersKept, RowsKept, NobodyNew, IInv,
         ShapeInv
<1>7. ReviewOK(r)'
  <2>1. request[r].user \in UserIds
    BY <1>1 DEF FieldsOK, Deciding
  <2> QED
    BY <1>1, <1>2, <1>4, <2>1, StatusKept
       DEF ReviewOK, FieldsOK, Deciding, Goes, UsersKept, RowsKept, NobodyNew, ProfilesKept
<1> QED
  BY <1>4, <1>5, <1>6, <1>7, GoesIInv

-----------------------------------------------------------------------------
(* Making a user and his wallets, and dying *)

LEMMA CreateUserIInv ==
  ASSUME IInv, NEW r \in Requests, CreateUser(r)
  PROVE  IInv'
<1> USE DEF CreateUser
<1>1. /\ FieldsOK(r) /\ MadeOK(r) /\ ReviewOK(r) /\ mine[r] = None
      /\ request[r].op = "register"
      /\ request[r].name \in Names /\ request[r].email \in Emails
  BY NothingMade DEF IInv, RequestInv, FieldsOK, Made, Currencies
<1>2. CASE UNCHANGED users /\ UNCHANGED mine /\ Goto(r, "refused")
  <2>1. Goes(r, "refused") /\ pc'[r] = "refused"
    BY <1>2, TablesUnchanged DEF Goes, Goto, Answers, Currencies, IInv, ShapeInv
  <2>2. FieldsOK(r)' /\ MadeOK(r)' /\ ReviewOK(r)'
    BY <1>1, <1>2, <2>1 DEF FieldsOK, MadeOK, ReviewOK, Made, Deciding, Currencies
  <2> QED
    BY <2>1, <2>2, GoesIInv
<1>3. CASE /\ Succeeds /\ ~ Taken(request[r].name, request[r].email)
           /\ \E u \in UserIds :
                /\ users[u] = NoUser
                /\ users' = [users EXCEPT ![u] = NewUser(request[r])]
                /\ mine' = [mine EXCEPT ![r] = u]
           /\ Goto(r, "USD")
  <2> DEFINE row == NewUser(request[r])
  <2>1. PICK u \in UserIds : /\ users[u] = NoUser /\ users' = [users EXCEPT ![u] = row]
                             /\ mine' = [mine EXCEPT ![r] = u]
    BY <1>3
  <2>2. /\ row \in UserRows /\ row.name = request[r].name /\ row.email = request[r].email
        /\ IsAdmin(request[r].key) => row.status # "PENDING_KYC"
    BY <1>1 DEF NewUser, UserRows, UserStatuses, RiskLevels
  <2> HIDE DEF row
  <2>3. /\ pc' = [pc EXCEPT ![r] = "USD"] /\ pc'[r] = "USD" /\ mine'[r] = u /\ users'[u] = row
        /\ u # None
    BY <1>3, <2>1, NoUserIsNoRow DEF Goto, IInv, ShapeInv
  <2>4. ShapeInv'
    BY <1>3, <2>1, <2>2, <2>3 DEF IInv, ShapeInv, Succeeds, Running, Currencies
  <2>5. RowsKept /\ ProfilesKept /\ OthersKept(r)
    BY <2>1, <2>3, NoUserIsNoRow DEF RowsKept, ProfilesKept, OthersKept, IInv, ShapeInv
  <2>6. FieldsOK(r)' /\ MadeOK(r)' /\ ReviewOK(r)'
    <3>1. FieldsOK(r)'
      BY <1>1, <2>3 DEF FieldsOK, Made, Deciding, Currencies
    <3>2. MadeOK(r)'
      BY <1>1, <2>2, <2>3 DEF MadeOK, Made, Currencies
    <3>3. ReviewOK(r)'
      BY <1>1 DEF ReviewOK
    <3> QED
      BY <3>1, <3>2, <3>3
  <2>7. RequestInv'
    BY <2>5, <2>6, OthersIInv DEF RequestInv, OthersKept
  <2>8. UniqueInv'
    <3>1. \A v \in UserIds : users[v] \in UserRows =>
            users[v].name # row.name /\ users[v].email # row.email
      BY <1>3, <2>2, NoUserIsNoRow DEF Taken
    <3>2. \A v \in UserIds : v # u => users'[v] = users[v]
      BY <2>1 DEF IInv, ShapeInv
    <3>3. \A v, w \in UserIds :
            /\ users'[v] \in UserRows /\ users'[w] \in UserRows
            /\ users'[v].name = users'[w].name \/ users'[v].email = users'[w].email
            => v = w
      BY <2>3, <3>1, <3>2 DEF IInv, UniqueInv
    <3>4. \A q \in Requests : mine[q] # u
      BY <2>1, NoUserIsNoRow DEF IInv, RequestInv, MadeOK
    <3>5. \A p, q \in Requests : mine'[p] = mine'[q] /\ mine'[q] # None => p = q
      BY <2>1, <3>4 DEF IInv, ShapeInv, UniqueInv
    <3> QED
      BY <3>3, <3>5 DEF UniqueInv
  <2>9. WalletInv'
    <3>1. \A c \in Currencies : wallets[u][c] = 0
      BY <2>1 DEF IInv, WalletInv
    <3>2. \A v \in UserIds, c \in Currencies :
            wallets[v][c] <= 1 /\ (users'[v] = NoUser => wallets[v][c] = 0)
      BY <2>1, <3>1 DEF IInv, ShapeInv, WalletInv
    <3>3. \A q \in Requests \ {r} : pc'[q] = pc[q] /\ mine'[q] = mine[q]
      BY <2>5 DEF OthersKept
    <3> QED
      BY <2>3, <3>1, <3>2, <3>3 DEF IInv, WalletInv, Currencies
  <2> QED
    BY <2>4, <2>7, <2>8, <2>9 DEF IInv
<1> QED
  BY <1>2, <1>3

LEMMA EnsureWalletIInv ==
  ASSUME IInv, NEW r \in Requests, EnsureWalletAccount(r)
  PROVE  IInv'
<1> USE DEF EnsureWalletAccount
<1> DEFINE c == pc[r]
           u == mine[r]
           row == [wallets[u] EXCEPT ![c] = @ + 1]
<1>1. /\ FieldsOK(r) /\ MadeOK(r) /\ ReviewOK(r)
      /\ u \in UserIds /\ users[u] \in UserRows /\ c \in Currencies
      /\ request[r].op = "register"
  BY DEF IInv, RequestInv, FieldsOK, MadeOK, Made
<1>2. /\ wallets[u] \in [Currencies -> Nat] /\ wallets[u][c] = 0
      /\ c = "USD" => wallets[u]["EUR"] = 0
      /\ c \in {"USD", "EUR"} => wallets[u]["JPY"] = 0
  BY <1>1 DEF IInv, ShapeInv, WalletInv, Currencies
<1>3. row \in [Currencies -> Nat] /\ row[c] = 1 /\ \A d \in Currencies \ {c} : row[d] = wallets[u][d]
  BY <1>1, <1>2
<1>4. wallets' = wallets \/ wallets' = [wallets EXCEPT ![u] = row]
  <2>1. Seeded(wallets, u, c) \in {wallets, [wallets EXCEPT ![u] = row]}
    BY DEF Seeded
  <2>2. wallets' \in {wallets, Seeded(wallets, u, c)}
    OBVIOUS
  <2> QED
    BY <2>1, <2>2
<1>5. /\ pc' = [pc EXCEPT ![r] = NextWallet[c]] /\ pc'[r] = NextWallet[c]
      /\ NextWallet[c] \in {"EUR", "JPY", "profiles?"}
      /\ c = "USD" => NextWallet[c] = "EUR"
      /\ c = "EUR" => NextWallet[c] = "JPY"
      /\ c = "JPY" => NextWallet[c] = "profiles?"
  BY <1>1 DEF Goto, NextWallet, Currencies, IInv, ShapeInv
<1>6. Succeeds \/ Fails
  OBVIOUS
<1> HIDE DEF row
<1>7. wallets' \in [UserIds -> [Currencies -> Nat]]
  BY <1>1, <1>3, <1>4 DEF IInv, ShapeInv
<1>8. ShapeInv'
  <2>1. pc' \in [Requests -> Running \cup Answers \cup {"new"}]
    <3>1. NextWallet[c] \in Running
      BY <1>5 DEF Running, Currencies
    <3> QED
      BY <1>5, <3>1 DEF IInv, ShapeInv
  <2>2. mishaps' \in 0..MaxMishaps
    BY <1>6, BoundAssumption DEF IInv, ShapeInv, Succeeds, Fails
  <2> QED
    BY <1>7, <2>1, <2>2 DEF IInv, ShapeInv
<1>9. RowsKept /\ ProfilesKept /\ OthersKept(r)
  BY <1>5, TablesUnchanged DEF UsersKept, OthersKept, IInv, ShapeInv
<1>10. FieldsOK(r)' /\ MadeOK(r)' /\ ReviewOK(r)'
  <2>1. pc'[r] \in Made /\ pc[r] \in Made
    BY <1>1, <1>5 DEF Made, Currencies
  <2>2. FieldsOK(r)'
    BY <1>1, <1>5, <2>1 DEF FieldsOK, Made, Deciding, Currencies
  <2>3. MadeOK(r)'
    BY <1>1, <1>5, <2>1 DEF MadeOK, Made
  <2>4. ReviewOK(r)'
    BY <1>1 DEF ReviewOK
  <2> QED
    BY <2>2, <2>3, <2>4
<1>11. RequestInv'
  BY <1>9, <1>10, OthersIInv DEF RequestInv, OthersKept
<1>12. UniqueInv'
  BY DEF IInv, UniqueInv
<1>13. WalletInv'
  <2>1. u # None
    BY <1>1, NoUserIsNoRow
  <2>2. \A q \in Requests \ {r} : /\ pc'[q] = pc[q] /\ mine'[q] = mine[q]
                                  /\ mine[q] # u
    BY <1>9, <2>1 DEF OthersKept, IInv, UniqueInv
  <2>3. \A v \in UserIds \ {u} : wallets'[v] = wallets[v]
    BY <1>4 DEF IInv, ShapeInv
  <2>4. \A d \in Currencies \ {c} : wallets'[u][d] = wallets[u][d]
    BY <1>1, <1>3, <1>4 DEF IInv, ShapeInv
  <2>5. wallets'[u][c] <= 1
    BY <1>1, <1>2, <1>3, <1>4 DEF IInv, ShapeInv
  <2>6. \A v \in UserIds, d \in Currencies :
          wallets'[v][d] <= 1 /\ (users'[v] = NoUser => wallets'[v][d] = 0)
    <3>1. \A d \in Currencies : wallets'[u][d] <= 1
      BY <1>1, <2>4, <2>5 DEF IInv, WalletInv
    <3> QED
      BY <1>1, <2>3, <3>1, NoUserIsNoRow DEF IInv, WalletInv
  <2>7. \A q \in Requests \ {r} :
          /\ pc'[q] = "USD" => wallets'[mine'[q]]["USD"] = 0
          /\ pc'[q] \in {"USD", "EUR"} => wallets'[mine'[q]]["EUR"] = 0
          /\ pc'[q] \in Currencies => wallets'[mine'[q]]["JPY"] = 0
    <3>1. \A q \in Requests \ {r} : pc[q] \in Currencies => mine[q] \in UserIds
      BY DEF IInv, RequestInv, FieldsOK, MadeOK, Made
    <3> QED
      BY <2>2, <2>3, <3>1 DEF IInv, WalletInv, Currencies
  <2>8. /\ pc'[r] \in {"USD", "EUR"} => wallets'[mine'[r]]["EUR"] = 0
        /\ pc'[r] \in Currencies => wallets'[mine'[r]]["JPY"] = 0
        /\ pc'[r] # "USD"
    BY <1>1, <1>2, <1>5, <2>4 DEF Currencies
  <2> QED
    BY <2>6, <2>7, <2>8 DEF WalletInv
<1> QED
  BY <1>8, <1>11, <1>12, <1>13 DEF IInv

LEMMA CrashIInv ==
  ASSUME IInv, Crash
  PROVE  IInv'
<1> USE DEF Crash, tables
<1>1. \A r \in Requests : pc'[r] = pc[r] \/ pc'[r] = "dead"
  BY DEF IInv, ShapeInv
<1>2. ShapeInv'
  BY BoundAssumption DEF IInv, ShapeInv, Fails, Answers
<1>3. \A r \in Requests : FieldsOK(r)'
  BY ZenonT(40), <1>1 DEF IInv, RequestInv, FieldsOK, Made, Deciding, Currencies
<1>4. \A r \in Requests : MadeOK(r)'
  BY <1>1 DEF IInv, RequestInv, MadeOK, Made, Currencies
<1>5. \A r \in Requests : ReviewOK(r)'
  BY <1>1 DEF IInv, RequestInv, ReviewOK
<1>6. UniqueInv'
  BY DEF IInv, UniqueInv
<1>7. WalletInv'
  BY <1>1 DEF IInv, WalletInv, Currencies
<1> QED
  BY <1>2, <1>3, <1>4, <1>5, <1>6, <1>7 DEF IInv, RequestInv

-----------------------------------------------------------------------------
LEMMA NextIInv == IInv /\ [Next]_vars => IInv'
<1> SUFFICES ASSUME IInv, [Next]_vars PROVE IInv'
  OBVIOUS
<1>1. CASE UNCHANGED vars
  <2> USE <1>1 DEF vars, tables
  <2>1. ShapeInv' /\ UniqueInv' /\ WalletInv'
    BY DEF IInv, ShapeInv, UniqueInv, WalletInv
  <2>2. ASSUME NEW r \in Requests PROVE FieldsOK(r)' /\ MadeOK(r)' /\ ReviewOK(r)'
    BY OthersIInv, TablesUnchanged DEF UsersKept
  <2> QED
    BY <2>1, <2>2 DEF IInv, RequestInv
<1>2. CASE Crash
  BY <1>2, CrashIInv
<1>3. ASSUME NEW r \in Requests, RequestStep(r) PROVE IInv'
  BY <1>3, CheckEmailIInv, CreateUserIInv, EnsureWalletIInv, CountProfilesIInv, ApprovesIInv,
     ActivateIInv, RecordLoginIInv, CountLoginsIInv, CheckExistingIInv, CreateProfileIInv,
     SendIInv, DecideIInv, DecideUserIInv, ProfileLevelIInv, UserLevelIInv DEF RequestStep
<1>4. ASSUME NEW r \in Requests, Arrival(r) PROVE IInv'
  <2>1. \A id \in Identities : id[1] \in Names /\ id[2] \in Emails
    BY IdentityAssumption
  <2> QED
    BY <1>4, <2>1, RegisterIInv, LoginIInv, SubmitIInv, ReviewIInv, UpdateStatusIInv DEF Arrival
<1> QED
  BY <1>1, <1>2, <1>3, <1>4 DEF Next

LEMMA InvariantIInv == Spec => []IInv
  BY InitIInv, NextIInv, PTL DEF Spec

-----------------------------------------------------------------------------
\* The tables and requests keep their shape.
THEOREM TypeCorrect == Spec => []TypeOK
<1>1. IInv => TypeOK
  BY DEF IInv, ShapeInv, TypeOK
<1> QED
  BY <1>1, InvariantIInv, PTL

(* Who froze or rejected a user *)

\* Somebody was told that he gave u the status u has.
IsTold(u) == \E q \in Requests : WasToldOf(q, u, users[u].status)

\* Nobody who registered is frozen or rejected unless somebody was told so.
ToldInv ==
  \A r \in Requests : mine[r] # None /\ users[mine[r]].status \in {"FROZEN", "REJECTED"} => IsTold(mine[r])

\* Request r, which has no answer yet, takes a step.
StepOf(r) ==
  /\ pc[r] \notin Answers
  /\ \E label : pc' = [pc EXCEPT ![r] = label]
  /\ request' = request \/ \E what : request' = [request EXCEPT ![r] = what]

LEMMA StepIsOfOne ==
  ASSUME IInv, NEW r \in Requests, Arrival(r) \/ RequestStep(r)
  PROVE  StepOf(r)
<1> USE DEF StepOf, Goto, Answers
<1>1. CASE Arrival(r)
  BY <1>1 DEF Arrival, Asks, RefusesOnError, Register, Login, SubmitKYC, ReviewKYC, UpdateStatus
<1>2. CASE CheckEmail(r) \/ CreateUser(r) \/ EnsureWalletAccount(r) \/ CountProfiles(r)
           \/ EnsureKYCApproved(r) \/ ActivateUser(r)
  BY <1>2 DEF CheckEmail, CreateUser, EnsureWalletAccount, CountProfiles, EnsureKYCApproved,
     ActivateUser, Currencies
<1>3. CASE RecordLoginAttempt(r) \/ CountFailedLogins(r) \/ CheckExisting(r) \/ CreateKYCProfile(r)
  BY <1>3 DEF RecordLoginAttempt, CountFailedLogins, CheckExisting, CreateKYCProfile, RefusesOnError
<1>4. CASE SendToReview(r) \/ DecideKYC(r) \/ DecideUser(r) \/ UpdateKYCRiskLevel(r)
           \/ UpdateUserRiskLevel(r)
  BY <1>4 DEF SendToReview, DecideKYC, UpdateKYCStatus, DecideUser, UpdateKYCRiskLevel,
     UpdateUserRiskLevel, RefusesOnError
<1> QED
  BY <1>1, <1>2, <1>3, <1>4 DEF RequestStep

\* What somebody was told, he was told for good.
LEMMA ToldForGood ==
  ASSUME IInv, [Next]_vars, NEW q \in Requests, pc[q] = "served"
  PROVE  pc'[q] = "served" /\ request'[q] = request[q]
<1>1. pc \in [Requests -> Running \cup Answers \cup {"new"}] /\ DOMAIN request = Requests
  BY DEF IInv, ShapeInv
<1>2. CASE UNCHANGED vars
  BY <1>2 DEF vars
<1>3. CASE Crash
  BY <1>1, <1>3 DEF Crash, Running, Currencies
<1>4. ASSUME NEW r \in Requests, Arrival(r) \/ RequestStep(r)
      PROVE  pc'[q] = "served" /\ request'[q] = request[q]
  <2>1. StepOf(r) /\ q # r
    BY <1>4, StepIsOfOne DEF StepOf, Answers
  <2> QED
    BY <1>1, <2>1 DEF StepOf
<1> QED
  BY <1>2, <1>3, <1>4 DEF Next

\* Whoever is frozen or rejected in a step, somebody is told so in it.
LEMMA WhoMovesUsers ==
  ASSUME IInv, [Next]_vars, NEW u \in UserIds, users'[u] \in UserRows,
         users'[u].status \in {"FROZEN", "REJECTED"}
  PROVE  \/ users[u] \in UserRows /\ users'[u].status = users[u].status
         \/ IsTold(u)'
<1>1. users \in [UserIds -> UserRows \cup {NoUser}] /\ pc \in [Requests -> Running \cup Answers \cup {"new"}]
      /\ DOMAIN request = Requests
  BY DEF IInv, ShapeInv
<1>2. CASE users' = users
  BY <1>2
<1>3. ASSUME NEW r \in Requests, CreateUser(r), users' # users
      PROVE  users[u] \in UserRows /\ users'[u].status = users[u].status
  <2>1. PICK v \in UserIds : users' = [users EXCEPT ![v] = NewUser(request[r])]
    BY <1>3 DEF CreateUser
  <2>2. NewUser(request[r]).status \in {"ACTIVE", "PENDING_KYC"}
    BY DEF NewUser
  <2> QED
    BY <1>1, <2>1, <2>2
<1>4. ASSUME NEW v \in UserIds, NEW status \in UserStatuses, users' = WithStatus(v, status),
             u # v \/ status \notin {"FROZEN", "REJECTED"}
      PROVE  users[u] \in UserRows /\ users'[u].status = users[u].status
  <2>1. CASE UserMayBecome(v, status) /\ u = v
    <3>1. users'[u].status = status
      BY <1>4, <2>1, WithStatusKeeps
    <3> QED
      BY <1>4, <2>1, <3>1
  <2>2. CASE ~ UserMayBecome(v, status) \/ u # v
    <3>1. users'[u] = users[u]
      BY <1>1, <1>4, <2>2 DEF WithStatus
    <3> QED
      BY <3>1
  <2> QED
    BY <2>1, <2>2
<1>5. ASSUME NEW r \in Requests, ActivateUser(r), users' # users
      PROVE  users[u] \in UserRows /\ users'[u].status = users[u].status
  <2>1. users' = WithStatus(mine[r], "ACTIVE") /\ pc[r] = "activate"
    BY <1>5 DEF ActivateUser
  <2>2. mine[r] \in UserIds
    BY <2>1 DEF IInv, RequestInv, FieldsOK, MadeOK, Made
  <2> QED
    BY <1>4, <2>1, <2>2 DEF UserStatuses
<1>6. ASSUME NEW r \in Requests, DecideUser(r), users' # users
      PROVE  \/ users[u] \in UserRows /\ users'[u].status = users[u].status
             \/ IsTold(u)'
  <2> DEFINE v == request[r].user
             status == UserStatusFor(request[r].action)
  <2>1. /\ users' = WithStatus(v, status) /\ UserMayBecome(v, status) /\ pc[r] = "user"
        /\ pc' = [pc EXCEPT ![r] = AfterUser(request[r])] /\ request' = request
    BY <1>6 DEF DecideUser, Goto
  <2>2. /\ v \in UserIds /\ request[r].op = "review" /\ request[r].action \in {"APPROVED", "REJECTED"}
    BY <2>1 DEF IInv, RequestInv, FieldsOK, Deciding
  <2>3. status \in UserStatuses /\ (status = "REJECTED" => AfterUser(request[r]) = "served")
    BY <2>2 DEF UserStatusFor, UserStatuses, AfterUser
  <2>4. CASE u = v /\ status = "REJECTED"
    <3>1. users'[u].status = status /\ pc'[r] = "served"
      BY <1>1, <2>1, <2>2, <2>3, <2>4, WithStatusKeeps
    <3>2. WasToldOf(r, u, users[u].status)'
      BY <2>1, <2>2, <2>4, <3>1 DEF WasToldOf
    <3> QED
      BY <3>2 DEF IsTold
  <2>5. CASE u # v \/ status # "REJECTED"
    <3>1. u # v \/ status \notin {"FROZEN", "REJECTED"}
      BY <2>5 DEF UserStatusFor
    <3> HIDE DEF v, status
    <3> QED
      BY <1>4, <2>1, <2>2, <2>3, <3>1
  <2> QED
    BY <2>4, <2>5
<1>7. ASSUME NEW r \in Requests, NEW v \in UserIds, NEW status \in UserStatuses,
             UpdateStatus(r, v, status), users' # users
      PROVE  \/ users[u] \in UserRows /\ users'[u].status = users[u].status
             \/ IsTold(u)'
  <2>1. /\ users' = WithStatus(v, status) /\ UserMayBecome(v, status)
        /\ pc' = [pc EXCEPT ![r] = "served"]
        /\ request' = [request EXCEPT ![r] = [op |-> "update", user |-> v, status |-> status]]
    BY <1>7 DEF UpdateStatus, Asks, Goto
  <2>2. CASE u = v
    <3>1. users'[u].status = status
      BY <2>1, <2>2, WithStatusKeeps
    <3>2. WasToldOf(r, u, users[u].status)'
      BY <1>1, <2>1, <2>2, <3>1 DEF WasToldOf
    <3> QED
      BY <3>2 DEF IsTold
  <2>3. CASE u # v
    BY <1>4, <2>1, <2>3
  <2> QED
    BY <2>2, <2>3
<1>8. ASSUME NEW r \in Requests, CountFailedLogins(r) \/ UpdateUserRiskLevel(r), users' # users
      PROVE  users[u] \in UserRows /\ users'[u].status = users[u].status
  <2>1. CASE CountFailedLogins(r)
    <3>1. \/ users'[u] = users[u]
          \/ /\ users[u] # NoUser
             /\ \E n : users'[u] = [users[u] EXCEPT !.failed = n]
      BY <1>8, <2>1 DEF CountFailedLogins, Named
    <3>2. users[u] \in UserRows
      BY <1>1, <3>1
    <3> QED
      BY <3>1, <3>2 DEF UserRows
  <2>2. CASE UpdateUserRiskLevel(r)
    <3>1. /\ users' = [users EXCEPT ![request[r].user] =
                         [users[request[r].user] EXCEPT !.level = request[r].level]]
          /\ pc[r] = "user level"
      BY <1>8, <2>2 DEF UpdateUserRiskLevel, RefusesOnError
    <3>2. users[request[r].user] \in UserRows
      BY <3>1 DEF IInv, RequestInv, ReviewOK, FieldsOK, Deciding
    <3>3. users[u] \in UserRows
      BY <1>1, <3>1, <3>2
    <3> QED
      BY <1>1, <3>1, <3>3 DEF UserRows
  <2> QED
    BY <1>8, <2>1, <2>2
<1>9. CASE UNCHANGED vars \/ Crash
  BY <1>2, <1>9 DEF vars, tables, Crash
<1>10. ASSUME NEW r \in Requests, RequestStep(r)
       PROVE  \/ CreateUser(r) \/ ActivateUser(r) \/ DecideUser(r) \/ CountFailedLogins(r)
              \/ UpdateUserRiskLevel(r) \/ users' = users
  BY <1>10, Zenon DEF RequestStep, CheckEmail, EnsureWalletAccount, CountProfiles, EnsureKYCApproved,
     RecordLoginAttempt, CheckExisting, CreateKYCProfile, SendToReview, DecideKYC, UpdateKYCStatus,
     UpdateKYCRiskLevel, tables
<1>11. ASSUME NEW r \in Requests, Arrival(r)
       PROVE  (\E v \in UserIds, status \in UserStatuses : UpdateStatus(r, v, status)) \/ users' = users
  BY <1>11, Zenon DEF Arrival, Register, Login, SubmitKYC, ReviewKYC, tables
<1> QED
  BY <1>2, <1>3, <1>5, <1>6, <1>7, <1>8, <1>9, <1>10, <1>11 DEF Next

\* Only CreateUser gives a registration its user.
LEMMA WhoMakesUsers ==
  ASSUME IInv, [Next]_vars, NEW r \in Requests, mine'[r] # mine[r]
  PROVE  users'[mine'[r]].status \in {"ACTIVE", "PENDING_KYC"}
<1>1. mine \in [Requests -> UserIds \cup {None}] /\ users \in [UserIds -> UserRows \cup {NoUser}]
  BY DEF IInv, ShapeInv
<1>2. mine' # mine
  OBVIOUS
<1>3. PICK q \in Requests : CreateUser(q)
  <2>1. ~ Crash /\ ~ UNCHANGED vars
    BY <1>2 DEF Crash, vars
  <2>2. ASSUME NEW q \in Requests, Arrival(q) PROVE FALSE
    BY <1>2, <2>2, Zenon DEF Arrival, Register, Login, SubmitKYC, ReviewKYC, UpdateStatus
  <2>3. ASSUME NEW q \in Requests, RequestStep(q) PROVE CreateUser(q)
    BY <1>2, <2>3, Zenon DEF RequestStep, CheckEmail, EnsureWalletAccount, CountProfiles,
       EnsureKYCApproved, ActivateUser, RecordLoginAttempt, CountFailedLogins, CheckExisting,
       CreateKYCProfile, SendToReview, DecideKYC, UpdateKYCStatus, DecideUser, UpdateKYCRiskLevel,
       UpdateUserRiskLevel
  <2> QED
    BY <2>1, <2>2, <2>3 DEF Next
<1>4. PICK u \in UserIds : /\ users' = [users EXCEPT ![u] = NewUser(request[q])]
                           /\ mine' = [mine EXCEPT ![q] = u]
  BY <1>2, <1>3 DEF CreateUser
<1>5. mine'[r] = u /\ users'[u] = NewUser(request[q])
  BY <1>1, <1>4
<1> QED
  BY <1>5 DEF NewUser

LEMMA ToldInvInit == Init => ToldInv
  BY DEF Init, ToldInv

LEMMA ToldInvNext == IInv /\ IInv' /\ ToldInv /\ [Next]_vars => ToldInv'
<1>1. SUFFICES ASSUME IInv, IInv', ToldInv, [Next]_vars, NEW r \in Requests, mine'[r] # None,
                      users'[mine'[r]].status \in {"FROZEN", "REJECTED"}
               PROVE  IsTold(mine[r])'
  BY DEF ToldInv
<1>2. PICK u \in UserIds : u = mine'[r] /\ u = mine[r] /\ users[u] \in UserRows /\ users'[u] \in UserRows
  <2>1. mine'[r] = mine[r]
    BY <1>1, WhoMakesUsers
  <2> QED
    BY <1>1, <2>1 DEF IInv, ShapeInv, RequestInv, MadeOK
<1>3. CASE users'[u].status = users[u].status
  <2>1. PICK q \in Requests : WasToldOf(q, u, users[u].status)
    BY <1>1, <1>2, <1>3 DEF ToldInv, IsTold
  <2>2. pc'[q] = "served" /\ request'[q] = request[q]
    BY <1>1, <2>1, ToldForGood DEF WasToldOf
  <2>3. WasToldOf(q, mine[r], users[mine[r]].status)'
    BY <1>2, <1>3, <2>1, <2>2 DEF WasToldOf
  <2> QED
    BY <2>3 DEF IsTold
<1>4. CASE users'[u].status # users[u].status
  <2>1. IsTold(u)'
    BY <1>1, <1>2, <1>4, WhoMovesUsers
  <2> QED
    BY <1>2, <2>1 DEF IsTold
<1> QED
  BY <1>3, <1>4

LEMMA InvariantTold == Spec => []ToldInv
<1>1. Init => IInv /\ ToldInv
  BY InitIInv, ToldInvInit
<1>2. IInv /\ ToldInv /\ [Next]_vars => (IInv /\ ToldInv)'
  BY NextIInv, ToldInvNext
<1> QED
  BY <1>1, <1>2, PTL DEF Spec

-----------------------------------------------------------------------------
\* However registrations race and fail: one name or address is registered once;
\* who is told of success is active, unless somebody was told that he had frozen
\* or rejected him; and no wallet is given its balance twice.
THEOREM RegistrationsAreTrue == Spec => []RegistrationsAreHonest
<1>1. ASSUME IInv, ToldInv PROVE RegistrationsAreHonest
  <2>1. ASSUME NEW r \in Requests, request[r].op = "register", pc[r] = "served"
        PROVE  /\ mine[r] \in UserIds /\ mine[r] # None /\ users[mine[r]] \in UserRows
               /\ users[mine[r]].status \in {"ACTIVE", "FROZEN", "REJECTED"}
               /\ users[mine[r]].name = request[r].name /\ users[mine[r]].email = request[r].email
    BY <1>1, <2>1, NoUserIsNoRow DEF IInv, RequestInv, MadeOK, UserRows, UserStatuses
  <2>6. ASSUME NEW r \in Requests, request[r].op = "register", pc[r] = "served"
        PROVE  \/ users[mine[r]].status = "ACTIVE"
               \/ /\ users[mine[r]].status \in {"FROZEN", "REJECTED"}
                  /\ \E q \in Requests : WasToldOf(q, mine[r], users[mine[r]].status)
    BY <1>1, <2>1, <2>6 DEF ToldInv, IsTold
  <2>2. ASSUME NEW r \in Requests, pc[r] = "refused" PROVE mine[r] = None
    BY <1>1, <2>2, NothingMade DEF Made, Currencies
  <2>3. ASSUME NEW r \in Requests, NEW q \in Requests, q # r,
               request[r].op = "register", pc[r] = "served",
               request[q].op = "register", pc[q] = "served"
        PROVE  request[q].name # request[r].name /\ request[q].email # request[r].email
    BY <1>1, <2>1, <2>3 DEF IInv, UniqueInv
  <2>4. \A u \in UserIds, c \in Currencies : wallets[u][c] <= 1
    BY <1>1 DEF IInv, WalletInv
  <2>5. \A q, r \in Requests : {pc[q], pc[r]} = {"served"} => pc[q] = "served" /\ pc[r] = "served"
    OBVIOUS
  <2> QED
    BY <2>1, <2>2, <2>3, <2>4, <2>5, <2>6 DEF RegistrationsAreHonest
<1> QED
  BY <1>1, InvariantIInv, InvariantTold, PTL

\* What a reviewer was told is not taken back by any other reviewer, by the user
\* or by an administrator.
THEOREM ReviewsAreFinal == Spec => []ReviewsStand
<1>1. IInv => ReviewsStand
  BY DEF IInv, RequestInv, FieldsOK, ReviewOK, ReviewsStand, ProfilesOf
<1> QED
  BY <1>1, InvariantIInv, PTL
===============================================================================
