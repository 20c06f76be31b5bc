------------------------------- MODULE Login --------------------------------
(***************************************************************************)
(* One user account as logins, password changes and administrators move    *)
(* it: the failure counter, the lockout and its expiry, the status and the *)
(* password.                                                               *)
(*                                                                         *)
(* A login reads the row, decides, and writes the counter as an absolute   *)
(* value; its audit row is a second transaction, and only then are tokens  *)
(* issued.  Tokens themselves are not kept: a request that needs one may   *)
(* arrive whenever the account lets it in.                                 *)
(***************************************************************************)
EXTENDS Requests, Integers, Sequences

CONSTANTS
    Password,
    MaxFailed,  \* MAX_FAILED_ATTEMPTS
    LockTime,   \* LOCKOUT_MINUTES, in ticks of the clock
    MaxClock    \* bound: the last instant

ASSUME LockAssumption == MaxFailed \in Nat \ {0} /\ LockTime \in Nat \ {0} /\ MaxClock \in Nat

AccountStatus == {"active", "inactive", "suspended"}

AccountRow ==
    [status : AccountStatus, failed : Nat, locked : 0..(MaxClock + LockTime), password : Password]

VARIABLES
    account,  \* the user row; locked is 0 for NULL
    clock,
    audit,    \* the AuditLog rows about the account
    failures  \* history: failures counted since the last success (missed), how many of
              \* the last ones came one after the other without a lockout (chain), whether
              \* one of them had read the row before that success (overtaken), and the
              \* lockouts (locks) and successes (wins) so far

loginVars == <<account, clock, audit, failures, requests>>

LoginInit ==
    /\ \E p \in Password :
          account = [status |-> "active", failed |-> 0, locked |-> 0, password |-> p]
    /\ clock = 0
    /\ audit = << >>
    /\ failures = [missed |-> 0, chain |-> 0, overtaken |-> FALSE, locks |-> 0, wins |-> 0]
    /\ InitRequests

IsLocked == account.locked > clock

\* A request about the account, with what it goes on with of the row it has read.
Read(s, op, at, got) ==
    /\ Arrive(s, [op |-> op, at |-> at, on |-> {"account"}, got |-> got,
                  seen |-> Len(audit), locks |-> failures.locks,
                  missed |-> failures.missed, wins |-> failures.wins])
    /\ UNCHANGED <<account, clock, audit, failures>>

ContinueWith(s, at, got) == Continue(s, [task[s] EXCEPT !.at = at, !.got = got])

Audited(row) == audit' = Append(audit, row)

-----------------------------------------------------------------------------
\* authenticate_user

ArriveRefused(s, p) ==
    /\ IsLocked \/ account.status # "active"
    /\ Read(s, "login", "answer", [row |-> "login_failed"])

ArriveWrong(s, p) ==
    /\ ~IsLocked /\ account.status = "active"
    /\ p # account.password
    /\ Read(s, "login", "failed", [failed |-> account.failed])

\* A lock that only stops wrong passwords.
ArriveRightWhileLocked(s, p) ==
    /\ account.status = "active"
    /\ p = account.password
    /\ Read(s, "login", "succeeded", [status |-> account.status])

ArriveRight(s, p) ==
    /\ ~IsLocked /\ account.status = "active"
    /\ p = account.password
    /\ Read(s, "login", "succeeded", [status |-> account.status])

\* A failure is counted; it comes after the one before it unless the row has been
\* written since the login read it.
Counted(t, lock) ==
    LET stale == t.missed # failures.missed \/ t.wins # failures.wins
    IN failures' = [missed |-> failures.missed + 1,
                    chain |-> IF lock THEN 0 ELSE IF stale THEN 1 ELSE failures.chain + 1,
                    overtaken |-> failures.overtaken \/ t.wins # failures.wins,
                    locks |-> IF lock THEN failures.locks + 1 ELSE failures.locks,
                    wins |-> failures.wins]

\* A lock that comes one failure late.
RegisterFailedAttemptLate(s) ==
    /\ At(s, "login", "failed")
    /\ LET failed == task[s].got.failed + 1
           lock == failed > MaxFailed
       IN /\ account' = [account EXCEPT !.failed = failed,
                                        !.locked = IF lock THEN clock + LockTime ELSE @]
          /\ Counted(task[s], lock)
    /\ ContinueWith(s, "answer", [row |-> "login_failed"])
    /\ UNCHANGED <<clock, audit>>

\* _register_failed_attempt: the counter that was read, plus one.
RegisterFailedAttempt(s) ==
    /\ At(s, "login", "failed")
    /\ LET failed == task[s].got.failed + 1
           lock == failed >= MaxFailed
       IN /\ account' = [account EXCEPT !.failed = failed,
                                        !.locked = IF lock THEN clock + LockTime ELSE @]
          /\ Counted(task[s], lock)
    /\ ContinueWith(s, "answer", [row |-> "login_failed"])
    /\ UNCHANGED <<clock, audit>>

\* The failures start anew.
Forgiven ==
    failures' = [missed |-> 0, chain |-> 0, overtaken |-> FALSE,
                 locks |-> failures.locks, wins |-> failures.wins + 1]

\* A success that only lifts the lock.
CommitSuccessUncounted(s) ==
    /\ At(s, "login", "succeeded")
    /\ account' = [account EXCEPT !.locked = 0]
    /\ Forgiven
    /\ ContinueWith(s, "answer", [row |-> "login_success"])
    /\ UNCHANGED <<clock, audit>>

\* The counter and the lock are cleared, the answer is still to come.
CommitSuccess(s) ==
    /\ At(s, "login", "succeeded")
    /\ account' = [account EXCEPT !.failed = 0, !.locked = 0]
    /\ Forgiven
    /\ ContinueWith(s, "answer", [row |-> "login_success"])
    /\ UNCHANGED <<clock, audit>>

\* login: the audit row is committed, then the answer is sent.
Answer(s) ==
    /\ At(s, "login", "answer")
    /\ Audited([row |-> task[s].got.row])
    /\ End(s)
    /\ UNCHANGED <<account, clock, failures>>

-----------------------------------------------------------------------------
\* Requests with a token (auth.py, users.py)

\* A refresh that trusts the token alone.
ArriveRefreshUnchecked(s) == Read(s, "refresh", "answer", [status |-> account.status])

\* refresh: the status is checked, the lock is not.
ArriveRefresh(s) ==
    /\ account.status = "active"
    /\ Read(s, "refresh", "answer", [status |-> account.status])

AnswerRefresh(s) ==
    /\ At(s, "refresh", "answer")
    /\ End(s)
    /\ UNCHANGED <<account, clock, audit, failures>>

\* get_current_user lets an active, unlocked account in.
Admitted == account.status = "active" /\ ~IsLocked

\* change_password: the hash get_current_user loaded is the one that is verified,
\* the second load of the row returns the same object.
ArriveChange(s, old, new) ==
    /\ Admitted
    /\ old = account.password
    /\ Read(s, "change_password", "commit", [old |-> old, new |-> new])

CommitChange(s) ==
    /\ At(s, "change_password", "commit")
    /\ account' = [account EXCEPT !.password = task[s].got.new]
    /\ Audited([row |-> "password_changed", old |-> task[s].got.old, new |-> task[s].got.new])
    /\ End(s)
    /\ UNCHANGED <<clock, failures>>

\* update_user and deactivate_user, by an administrator.
ArriveStatus(s, st) ==
    Read(s, "update_user", "commit", [loaded |-> account.status, new |-> st])

CommitAccountStatus(s) ==
    /\ At(s, "update_user", "commit")
    /\ account' = [account EXCEPT !.status = Assigned(task[s].got.loaded, task[s].got.new, @)]
    /\ Audited([row |-> "update_user", status |-> task[s].got.new])
    /\ End(s)
    /\ UNCHANGED <<clock, failures>>

-----------------------------------------------------------------------------

Tick ==
    /\ clock < MaxClock
    /\ clock' = clock + 1
    /\ UNCHANGED <<account, audit, failures, requests>>

HangUp(s) == ~Idle(s) /\ End(s) /\ UNCHANGED <<account, clock, audit, failures>>

LoginNext ==
    \/ Tick
    \/ \E s \in Session :
          \/ \E p \in Password : ArriveRefused(s, p) \/ ArriveWrong(s, p) \/ ArriveRight(s, p)
          \/ RegisterFailedAttempt(s) \/ CommitSuccess(s) \/ Answer(s)
          \/ ArriveRefresh(s) \/ AnswerRefresh(s)
          \/ \E old, new \in Password : ArriveChange(s, old, new)
          \/ CommitChange(s)
          \/ \E st \in AccountStatus : ArriveStatus(s, st)
          \/ CommitAccountStatus(s)
          \/ HangUp(s)

LoginSpec == LoginInit /\ [][LoginNext]_loginVars

-----------------------------------------------------------------------------

Apart == raced = {}

\* Of the first seen audit rows the n-th is the last to set the status.
StatusLastSet(n, seen) ==
    /\ audit[n].row = "update_user"
    /\ \A m \in (n + 1)..seen : audit[m].row # "update_user"

LoginTypeOK ==
    /\ account \in AccountRow
    /\ clock \in 0..MaxClock
    /\ Len(audit) <= begun /\ begun \in 0..MaxRequests
    /\ failures \in [missed : 0..MaxRequests, chain : 0..MaxRequests, overtaken : BOOLEAN,
                    locks : 0..MaxRequests, wins : 0..MaxRequests]

\* auth_service.py:51 "Successful login - reset failure counters": without two
\* requests at once the counter is the number of failures since the last success,
\* through lockouts and their expiry.
CounterTellsFailures == Apart => account.failed = failures.missed

\* README.md:62-63 "Account lockout after 5 failed attempts": MaxFailed failures that
\* come one after the other lock, whatever else is under way.  Failures that meet
\* count as one (auth_service.py:62 adds to the value the login has read), so a
\* guesser with several requests at once is locked out later than that.
LockInTime == failures.chain < MaxFailed

\* auth_service.py:64: nobody is locked out by fewer than MaxFailed failures since
\* the last success, unless a login that had read the row before that success wrote
\* its older count back over it (auth_service.py:62, 66).
LockIsEarned ==
    ~failures.overtaken =>
        /\ account.failed <= failures.missed
        /\ account.locked # 0 => failures.missed >= MaxFailed

\* An account of the right shape whose failures, and nothing else, lock it
\* (auth_service.py:61-67).
LockoutInv == LoginTypeOK /\ LockInTime /\ LockIsEarned

\* README.md:63 "(15 min)": before it expires, a lockout is lifted only by a login
\* that had verified its password before the lockout was set.
LockLasts ==
    [][IsLocked /\ account'.locked < account.locked =>
         \E s \in Session : At(s, "login", "succeeded") /\ task[s].locks < failures.locks]_loginVars

\* deps.py:5 "rejects inactive/suspended ... accounts even if their token is still
\* technically valid": no answer with tokens is under way to an account that, when
\* it was asked, had been set to another status, unless requests were at once.
TokensToActiveAccounts ==
    \A s \in Busy :
       /\ Apart
       /\ At(s, "refresh", "answer") \/ At(s, "login", "succeeded")
       => \A n \in 1..task[s].seen : StatusLastSet(n, task[s].seen) => audit[n].status = "active"
=============================================================================
