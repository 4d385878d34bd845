------------------------------ MODULE Onboarding -------------------------------
(***************************************************************************)
(* Registration, login and KYC: service/user_svc.go and service/kyc_svc.go *)
(* over the tables users, accounts and kyc_profiles.                       *)
(*                                                                         *)
(* Every HTTP request is a process whose statements nothing spans.  A      *)
(* registration makes the user first, then wallets and an approved         *)
(* profile, whose errors it drops, and activates the user last.  A user    *)
(* may have several profiles; reading one returns any of them, updating    *)
(* updates all that may move.                                              *)
(***************************************************************************)
EXTENDS Users, FiniteSets

CONSTANTS Names, Emails,
          Identities,   \* the names and addresses that are registered
          UserIds,      \* ids of users
          Prefix,       \* the start of an id, from which account ids are made
          Registered,   \* the users there are in the beginning
          Reviewing,    \* those of them who have submitted a profile
          Requests,     \* the HTTP requests of a behaviour
          None,
          MaxMishaps    \* how often a statement fails or the service dies

\* Three kinds of keys: no administrator's, an administrator's, and fewer
\* than the seven letters that are compared.
AdminKeys == {"other", "aspira-", "short"}

UserRows == [name: Names, email: Emails, status: UserStatuses, level: RiskLevels, failed: Nat]

ASSUME NoneAssumption == None \notin UserRows \cup UserIds \cup Requests
ASSUME RegisteredAssumption ==
  /\ DOMAIN Registered \subseteq UserIds /\ Reviewing \subseteq DOMAIN Registered
  /\ Registered \in [DOMAIN Registered -> UserRows]
  /\ \A u, v \in DOMAIN Registered :
       Registered[u].name = Registered[v].name \/ Registered[u].email = Registered[v].email => u = v
ASSUME IdentityAssumption == Identities \subseteq Names \X Emails
ASSUME BoundAssumption == MaxMishaps \in Nat

NoRequest == [op |-> None]
NoUser == None

VARIABLES
  users,     \* table users
  wallets,   \* table accounts: how often a wallet was given its first balance
  profiles,  \* table kyc_profiles
  attempts,  \* table login_attempts
  pc,        \* where a request stands
  request,   \* what a request asks for
  mine,      \* the id a registration has made
  mishaps

tables == <<users, wallets, profiles, attempts>>
vars == <<tables, pc, request, mine, mishaps>>

-----------------------------------------------------------------------------
(* Rows *)

\* EnsureWalletAccount is called for these, in this order.
Currencies == {"USD", "EUR", "JPY"}
NextWallet == [USD |-> "EUR", EUR |-> "JPY", JPY |-> "profiles?"]

Profile(id, user, status) == [id |-> id, user |-> user, status |-> status, level |-> "LOW"]

ProfileRows == [id: Requests \cup UserIds, user: UserIds, status: KYCStatuses, level: RiskLevels]

ProfilesOf(u) == { p \in profiles : p.user = u }

\* An UPDATE of the profiles of a user that satisfy a condition.
Moved(u, new) ==
  { IF p.user = u /\ KYCMayBecome(p.status, new) THEN [p EXCEPT !.status = new] ELSE p :
      p \in profiles }

Moves(u, new) == \E p \in ProfilesOf(u) : KYCMayBecome(p.status, new)

IsAdmin(key) == key = "aspira-"

\* AdminKey[:7] of a key that is shorter.
IsAdminPanics(key) == key = "short"

\* EnsureWalletAccount: a wallet that exists gets the balance again; one that
\* does not is made, unless another user's account has its id.
Seeded(w, u, c) ==
  IF w[u][c] = 0 /\ \E v \in UserIds : w[v][c] > 0 /\ Prefix[v] = Prefix[u] THEN w
  ELSE [w EXCEPT ![u] = [w[u] EXCEPT ![c] = @ + 1]]

-----------------------------------------------------------------------------
Init ==
  /\ users = [u \in UserIds |-> IF u \in DOMAIN Registered THEN Registered[u] ELSE NoUser]
  /\ wallets = [u \in UserIds |->
       [c \in Currencies |-> IF u \in DOMAIN Registered THEN 1 ELSE 0]]
  /\ profiles = { Profile(u, u, "MANUAL_REVIEW") : u \in Reviewing }
  /\ attempts = {}
  /\ pc = [r \in Requests |-> "new"]
  /\ request = [r \in Requests |-> NoRequest]
  /\ mine = [r \in Requests |-> None]
  /\ mishaps = 0

Succeeds == UNCHANGED mishaps
Fails == mishaps < MaxMishaps /\ mishaps' = mishaps + 1
Goto(r, label) == pc' = [pc EXCEPT ![r] = label]

\* A statement that returns an error is answered with one.
RefusesOnError(r) == Fails /\ Goto(r, "refused")

Asks(r, what) == pc[r] = "new" /\ request' = [request EXCEPT ![r] = what]

-----------------------------------------------------------------------------
(* Registration *)

Taken(name, email) == \E u \in UserIds : users[u] # NoUser
                                         /\ (users[u].name = name \/ users[u].email = email)

\* GetUserByUsername; a lookup that fails has found nobody.
Register(r, name, email, key) ==
  /\ Asks(r, [op |-> "register", name |-> name, email |-> email, key |-> key])
  /\ \/ Succeeds /\ Goto(r, IF \E u \in UserIds : users[u] # NoUser /\ users[u].name = name
                            THEN "refused" ELSE "email?")
     \/ Fails /\ Goto(r, "email?")
  /\ UNCHANGED <<tables, mine>>

\* GetUserByEmail, and then IsAdmin on the new row.
CheckEmail(r) ==
  LET new == IF IsAdminPanics(request[r].key) THEN "broken" ELSE "create"
  IN  /\ pc[r] = "email?"
      /\ \/ Succeeds /\ Goto(r, IF \E u \in UserIds : users[u] # NoUser
                                                      /\ users[u].email = request[r].email
                                THEN "refused" ELSE new)
         \/ Fails /\ Goto(r, new)
      /\ UNCHANGED <<tables, request, mine>>

\* Mutant: a new user has the first status of a profile.
NewUserPending(q) ==
  [name |-> q.name, email |-> q.email, level |-> "LOW", failed |-> 0,
   status |-> IF IsAdmin(q.key) THEN "ACTIVE" ELSE "PENDING"]

NewUser(q) ==
  [name |-> q.name, email |-> q.email, level |-> "LOW", failed |-> 0,
   status |-> IF IsAdmin(q.key) THEN "ACTIVE" ELSE "PENDING_KYC"]

\* CreateUser; name and email are unique columns.
CreateUser(r) ==
  /\ pc[r] = "create"
  /\ \/ /\ Succeeds /\ ~ Taken(request[r].name, request[r].email)
        /\ \E u \in UserIds :
             /\ users[u] = NoUser
             /\ users' = [users EXCEPT ![u] = NewUser(request[r])]
             /\ mine' = [mine EXCEPT ![r] = u]
        /\ Goto(r, "USD")
     \/ /\ Fails \/ (Succeeds /\ Taken(request[r].name, request[r].email))
        /\ UNCHANGED <<users, mine>>
        /\ Goto(r, "refused")
  /\ UNCHANGED <<wallets, profiles, attempts, request>>

EnsureWalletAccount(r) ==
  /\ pc[r] \in Currencies
  /\ \/ Succeeds /\ wallets' = Seeded(wallets, mine[r], pc[r])
     \/ Fails /\ UNCHANGED wallets
  /\ Goto(r, NextWallet[pc[r]])
  /\ UNCHANGED <<users, profiles, attempts, request, mine>>

\* EnsureKYCApproved counts the profiles: none, if the count fails.
CountProfiles(r) ==
  /\ pc[r] = "profiles?"
  /\ \/ Succeeds /\ Goto(r, IF ProfilesOf(mine[r]) # {} THEN "approve" ELSE "insert")
     \/ Fails /\ Goto(r, "insert")
  /\ UNCHANGED <<tables, request, mine>>

\* It approves them all, or inserts one.
EnsureKYCApproved(r) ==
  /\ pc[r] \in {"approve", "insert"}
  /\ \/ Fails /\ UNCHANGED profiles
     \/ /\ Succeeds
        /\ profiles' =
             IF pc[r] = "insert" THEN profiles \cup {Profile(r, mine[r], "APPROVED")}
             ELSE { IF p.user = mine[r] THEN [p EXCEPT !.status = "APPROVED"] ELSE p :
                      p \in profiles }
  /\ Goto(r, IF IsAdmin(request[r].key) THEN "served" ELSE "activate")
  /\ UNCHANGED <<users, wallets, attempts, request, mine>>

\* The WHERE clause of UpdateUserStatus.
UserMayBecome(u, status) == users[u] # NoUser /\ MayBecome(users[u].status, status)

WithStatus(u, status) ==
  IF UserMayBecome(u, status)
  THEN [users EXCEPT ![u] = [users[u] EXCEPT !.status = status]] ELSE users

\* Mutant: an error of the statement is dropped.
AfterUpdateErrorServed == "served"

\* UpdateUserStatus uses the result of a statement that failed, which is nil.
AfterUpdateError == "broken"

\* That the row may not move is dropped: a user rejected meanwhile is answered
\* ACTIVE, and one frozen meanwhile is active again.
ActivateUser(r) ==
  /\ pc[r] = "activate"
  /\ \/ Succeeds /\ users' = WithStatus(mine[r], "ACTIVE") /\ Goto(r, "served")
     \/ Fails /\ UNCHANGED users /\ Goto(r, AfterUpdateError)
  /\ UNCHANGED <<wallets, profiles, attempts, request, mine>>

-----------------------------------------------------------------------------
(* Login *)

Named(name) == { u \in UserIds : users[u] # NoUser /\ users[u].name = name }

\* No statement sets locked_until: nobody is ever locked out.
Login(r, name, right) ==
  /\ Asks(r, [op |-> "login", name |-> name, right |-> right])
  /\ \/ Succeeds /\ Goto(r, IF Named(name) = {} THEN "attempt"
                            ELSE IF right THEN "reset" ELSE "failed attempt")
     \/ Fails /\ Goto(r, "attempt")
  /\ UNCHANGED <<tables, mine>>

\* Attempts of one request are one row.
RecordLoginAttempt(r) ==
  /\ pc[r] \in {"attempt", "failed attempt", "success"}
  /\ \/ Fails /\ UNCHANGED attempts
     \/ /\ Succeeds
        /\ attempts' = attempts \cup {[id |-> r, name |-> request[r].name,
                                       success |-> pc[r] = "success"]}
  /\ Goto(r, IF pc[r] = "attempt" THEN "refused"
             ELSE IF pc[r] = "success" THEN "served" ELSE "increment")
  /\ UNCHANGED <<users, wallets, profiles, request, mine>>

\* IncrementFailedLoginCount and ResetFailedLoginCount
CountFailedLogins(r) ==
  /\ pc[r] \in {"increment", "reset"}
  /\ \/ Fails /\ UNCHANGED users
     \/ /\ Succeeds
        /\ users' = [u \in UserIds |->
             IF u \notin Named(request[r].name) THEN users[u]
             ELSE [users[u] EXCEPT !.failed = IF pc[r] = "reset" THEN 0 ELSE @ + 1]]
  /\ Goto(r, IF pc[r] = "reset" THEN "success" ELSE "refused")
  /\ UNCHANGED <<wallets, profiles, attempts, request, mine>>

-----------------------------------------------------------------------------
(* KYC *)

\* SubmitKYC: the user exists ...
SubmitKYC(r, u) ==
  /\ Asks(r, [op |-> "submit", user |-> u])
  /\ \/ Succeeds /\ Goto(r, IF users[u] # NoUser THEN "existing" ELSE "refused")
     \/ RefusesOnError(r)
  /\ UNCHANGED <<tables, mine>>

\* ... and a profile of his, if there is one, is rejected or expired.  A read
\* that fails yields an empty profile, which is neither approved nor pending.
CheckExisting(r) ==
  /\ pc[r] = "existing"
  /\ \/ /\ Succeeds
        /\ \/ ProfilesOf(request[r].user) = {} /\ Goto(r, "submit")
           \/ \E p \in ProfilesOf(request[r].user) :
                Goto(r, IF p.status \in {"REJECTED", "EXPIRED"} THEN "submit" ELSE "refused")
     \/ Fails /\ Goto(r, "submit")
  /\ UNCHANGED <<tables, request, mine>>

CreateKYCProfile(r) ==
  /\ pc[r] = "submit"
  /\ \/ /\ Succeeds
        /\ profiles' = profiles \cup {Profile(r, request[r].user, "PENDING")}
        /\ Goto(r, "to review")
     \/ RefusesOnError(r) /\ UNCHANGED profiles
  /\ UNCHANGED <<users, wallets, attempts, request, mine>>

\* UpdateKYCStatus: an error if no row may move.
UpdateKYCStatus(r, new, next) ==
  /\ \/ /\ Succeeds /\ Moves(request[r].user, new)
        /\ profiles' = Moved(request[r].user, new)
        /\ Goto(r, next)
     \/ /\ Succeeds /\ ~ Moves(request[r].user, new)
        /\ UNCHANGED profiles /\ Goto(r, "refused")
     \/ RefusesOnError(r) /\ UNCHANGED profiles
  /\ UNCHANGED <<users, wallets, attempts, request, mine>>

SendToReview(r) == pc[r] = "to review" /\ UpdateKYCStatus(r, "MANUAL_REVIEW", "served")

\* ReviewKYC looks for a profile ...
ReviewKYC(r, u, action, riskLevel) ==
  /\ Asks(r, [op |-> "review", user |-> u, action |-> action, level |-> riskLevel])
  /\ \/ Succeeds /\ Goto(r, IF ProfilesOf(u) # {} THEN "decide" ELSE "refused")
     \/ RefusesOnError(r)
  /\ UNCHANGED <<tables, mine>>

\* ... decides about all that may move ...
DecideKYC(r) == pc[r] = "decide" /\ UpdateKYCStatus(r, request[r].action, "user")

UserStatusFor(action) == IF action = "APPROVED" THEN "ACTIVE" ELSE "REJECTED"

\* Where a review goes when the user has moved.
AfterUser(q) == IF q.action = "APPROVED" /\ q.level # None THEN "profile level" ELSE "served"

\* ... and moves the user, if he may move.
DecideUser(r) ==
  LET u == request[r].user
      new == UserStatusFor(request[r].action)
  IN  /\ pc[r] = "user"
      /\ \/ /\ Succeeds /\ UserMayBecome(u, new)
            /\ users' = WithStatus(u, new)
            /\ Goto(r, AfterUser(request[r]))
         \/ /\ Succeeds /\ ~ UserMayBecome(u, new)
            /\ UNCHANGED users /\ Goto(r, "refused")
         \/ Fails /\ UNCHANGED users /\ Goto(r, "broken")
      /\ UNCHANGED <<wallets, profiles, attempts, request, mine>>

UpdateKYCRiskLevel(r) ==
  /\ pc[r] = "profile level"
  /\ \/ /\ Succeeds
        /\ profiles' = { IF p.user = request[r].user THEN [p EXCEPT !.level = request[r].level]
                         ELSE p : p \in profiles }
        /\ Goto(r, "user level")
     \/ RefusesOnError(r) /\ UNCHANGED profiles
  /\ UNCHANGED <<users, wallets, attempts, request, mine>>

UpdateUserRiskLevel(r) ==
  /\ pc[r] = "user level"
  /\ \/ /\ Succeeds
        /\ users' = [users EXCEPT ![request[r].user] = [@ EXCEPT !.level = request[r].level]]
        /\ Goto(r, "served")
     \/ RefusesOnError(r) /\ UNCHANGED users
  /\ UNCHANGED <<wallets, profiles, attempts, request, mine>>

-----------------------------------------------------------------------------
(* Everything else *)

\* The one statement of an administrator's UpdateStatus.
UpdateStatus(r, u, status) ==
  /\ Asks(r, [op |-> "update", user |-> u, status |-> status])
  /\ \/ /\ Succeeds /\ UserMayBecome(u, status)
        /\ users' = WithStatus(u, status) /\ Goto(r, "served")
     \/ /\ Succeeds /\ ~ UserMayBecome(u, status)
        /\ UNCHANGED users /\ Goto(r, "refused")
     \/ Fails /\ UNCHANGED users /\ Goto(r, "broken")
  /\ UNCHANGED <<wallets, profiles, attempts, mine>>

Answers == {"served", "refused", "broken", "dead"}

Running == Currencies \cup
  {"email?", "create", "profiles?", "approve", "insert", "activate", "attempt", "failed attempt",
   "success", "increment", "reset", "existing", "submit", "to review", "decide", "user",
   "profile level", "user level"}

Crash ==
  /\ Fails
  /\ pc' = [r \in Requests |-> IF pc[r] \in Running THEN "dead" ELSE pc[r]]
  /\ UNCHANGED <<tables, request, mine>>

RequestStep(r) ==
  \/ CheckEmail(r) \/ CreateUser(r) \/ EnsureWalletAccount(r) \/ CountProfiles(r)
  \/ EnsureKYCApproved(r) \/ ActivateUser(r)
  \/ RecordLoginAttempt(r) \/ CountFailedLogins(r)
  \/ CheckExisting(r) \/ CreateKYCProfile(r) \/ SendToReview(r)
  \/ DecideKYC(r) \/ DecideUser(r) \/ UpdateKYCRiskLevel(r) \/ UpdateUserRiskLevel(r)

Arrival(r) ==
  \/ \E id \in Identities, key \in AdminKeys : Register(r, id[1], id[2], key)
  \/ \E name \in Names, right \in BOOLEAN : Login(r, name, right)
  \/ \E u \in UserIds : SubmitKYC(r, u)
  \/ \E u \in UserIds, action \in {"APPROVED", "REJECTED"}, riskLevel \in {None, "HIGH"} :
       ReviewKYC(r, u, action, riskLevel)
  \/ \E u \in UserIds, status \in UserStatuses : UpdateStatus(r, u, status)

Next ==
  \/ \E r \in Requests : Arrival(r) \/ RequestStep(r)
  \/ Crash

Spec == Init /\ [][Next]_vars

-----------------------------------------------------------------------------
(* Properties *)

\* The shape of every variable.
TypeOK ==
  /\ users \in [UserIds -> UserRows \cup {NoUser}]
  /\ wallets \in [UserIds -> [Currencies -> Nat]]
  /\ profiles \subseteq ProfileRows
  /\ attempts \subseteq [id: Requests, name: Names, success: BOOLEAN]
  /\ pc \in [Requests -> Running \cup Answers \cup {"new"}]
  /\ mine \in [Requests -> UserIds \cup {None}]
  /\ mishaps \in 0..MaxMishaps

\* A reviewer or an administrator was told that he gave user u a status.
WasToldOf(q, u, status) ==
  /\ pc[q] = "served"
  /\ \/ request[q].op = "update" /\ request[q].user = u /\ request[q].status = status
     \/ /\ request[q].op = "review" /\ request[q].user = u
        /\ UserStatusFor(request[q].action) = status

\* Of the registrations of one name or address that race, one succeeds.  Whoever
\* is told of success is active, unless somebody has frozen or rejected him and
\* was told so; that may have been before the answer, which says ACTIVE whatever
\* the update of ActivateUser did.  A refused registration has left no user, and
\* nobody's wallet is given its balance twice.
RegistrationsAreHonest ==
  /\ \A r \in Requests : request[r].op = "register" =>
       /\ pc[r] = "served" =>
            /\ mine[r] # None /\ users[mine[r]].name = request[r].name
            /\ \/ users[mine[r]].status = "ACTIVE"
               \/ /\ users[mine[r]].status \in {"FROZEN", "REJECTED"}
                  /\ \E q \in Requests : WasToldOf(q, mine[r], users[mine[r]].status)
       /\ pc[r] = "refused" => mine[r] = None
       /\ \A q \in Requests \ {r} :
            /\ request[q].op = "register" /\ {pc[q], pc[r]} = {"served"}
            => request[q].name # request[r].name /\ request[q].email # request[r].email
  /\ \A u \in UserIds, c \in Currencies : wallets[u][c] <= 1

\* What a reviewer was told stands: after an approval the user has an approved
\* profile and is active, or frozen since; after a rejection he stays rejected.
\* Two reviewers are never told opposite things, whatever they and the user do
\* at the same time.
ReviewsStand ==
  \A r \in Requests : request[r].op = "review" /\ pc[r] = "served" =>
    LET u == request[r].user
    IN  IF request[r].action = "APPROVED"
        THEN /\ users[u].status \in {"ACTIVE", "FROZEN"}
             /\ \E p \in ProfilesOf(u) : IsApproved(p.status)
        ELSE users[u].status = "REJECTED"
===============================================================================
