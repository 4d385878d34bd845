--------------------------------- MODULE Users ---------------------------------
(***************************************************************************)
(* Users and their KYC profiles: the statuses of domain/user and           *)
(* domain/kyc and the guarded updates of repository/user_repo.go and       *)
(* repository/kyc_repo.go.                                                 *)
(***************************************************************************)
EXTENDS Integers

UserStatuses == {"PENDING_KYC", "ACTIVE", "FROZEN", "REJECTED"}

\* Mutant: a rejected user can be activated.
ValidTransitionsLenient ==
  { <<"PENDING_KYC", "ACTIVE">>, <<"PENDING_KYC", "REJECTED">>, <<"PENDING_KYC", "FROZEN">>,
    <<"ACTIVE", "FROZEN">>, <<"FROZEN", "ACTIVE">>, <<"REJECTED", "ACTIVE">> }

ValidTransitions ==
  { <<"PENDING_KYC", "ACTIVE">>, <<"PENDING_KYC", "REJECTED">>, <<"PENDING_KYC", "FROZEN">>,
    <<"ACTIVE", "FROZEN">>, <<"FROZEN", "ACTIVE">> }

\* The UPDATE of UpdateUserStatus finds the row.
MayBecome(status, new) == <<status, new>> \in ValidTransitions

CanTransact(user) == user.status = "ACTIVE"

IsFrozen(user) == user.status = "FROZEN"

KYCStatuses == {"PENDING", "MANUAL_REVIEW", "APPROVED", "REJECTED", "EXPIRED"}

ValidKYCTransitions ==
  { <<"PENDING", "MANUAL_REVIEW">>, <<"PENDING", "APPROVED">>, <<"PENDING", "REJECTED">>,
    <<"MANUAL_REVIEW", "APPROVED">>, <<"MANUAL_REVIEW", "REJECTED">>,
    <<"APPROVED", "EXPIRED">>, <<"REJECTED", "PENDING">>, <<"EXPIRED", "PENDING">> }

KYCMayBecome(status, new) == <<status, new>> \in ValidKYCTransitions

IsApproved(status) == status = "APPROVED"

RiskLevels == {"LOW", "MEDIUM", "HIGH"}
===============================================================================
