---------------------------- MODULE AccessProofs ----------------------------
(***************************************************************************)
(* Proofs about who is let in: Login, for every number of sessions, every  *)
(* password set and every lockout policy; then Roles, for every set of     *)
(* identities, roles and permissions given to them, and every table its    *)
(* assumptions let a behaviour start from.                                 *)
(***************************************************************************)
EXTENDS Login, Roles, SumsAndSequences

\* What the tasks of a login know of the lockouts set so far: a password that was
\* verified was verified while the account was not locked, and only a lockout set
\* since can be in force.
LockAt(t) ==
    /\ t.locks \in Nat /\ t.locks <= failures.locks
    /\ t.op = "login" /\ t.at = "succeeded" /\ t.locks = failures.locks => ~IsLocked
    /\ t.op = "login" /\ t.at = "failed" => t.got.failed \in Nat

\* The fields of a history of failures.
Counts(f) ==
    f = [missed |-> f.missed, chain |-> f.chain, overtaken |-> f.overtaken,
         locks |-> f.locks, wins |-> f.wins]

LockInv ==
    /\ clock \in Nat /\ account.locked \in Nat /\ account.locked <= clock + LockTime
    /\ account.failed \in Nat
    /\ account = [status |-> account.status, failed |-> account.failed,
                  locked |-> account.locked, password |-> account.password]
    /\ Counts(failures)
    /\ failures.locks \in Nat /\ DOMAIN task = Session
    /\ \A s \in Busy : LockAt(task[s])

LEMMA LockInit == LoginInit => LockInv
<1> SUFFICES ASSUME LoginInit PROVE LockInv
  OBVIOUS
<1>1. Busy = {}
  BY DEF LoginInit, InitRequests, Busy, Idle
<1> QED BY <1>1, LockAssumption DEF LoginInit, InitRequests, LockInv, Counts

\* A step that leaves the account and the lockouts alone.
LEMMA LockKept ==
    ASSUME LockInv, NEW s \in Session, NEW t,
           task' = [task EXCEPT ![s] = t], t = Nil \/ LockAt(t),
           UNCHANGED clock, account'.locked = account.locked, account'.failed \in Nat,
           failures'.locks = failures.locks,
           Counts(failures'),
           account' = [status |-> account'.status, failed |-> account'.failed,
                       locked |-> account'.locked, password |-> account'.password]
    PROVE  LockInv'
<1>1. ASSUME NEW r \in Session, task'[r] # Nil PROVE LockAt(task'[r]) 
  BY <1>1 DEF LockInv, Busy, Idle
<1>2. ASSUME NEW r \in Session, task'[r] # Nil PROVE LockAt(task[r])' 
  BY <1>1, <1>2 DEF LockAt, IsLocked
<1> QED BY <1>2 DEF LockInv, Busy, Idle

LEMMA ReadLock ==
    ASSUME LockInv, NEW s \in Session, NEW op, NEW at, NEW got, Read(s, op, at, got),
           op = "login" /\ at = "succeeded" => ~IsLocked,
           op = "login" /\ at = "failed" => got.failed \in Nat
    PROVE  LockInv'
<1> DEFINE t == [op |-> op, at |-> at, on |-> {"account"}, got |-> got,
                 seen |-> Len(audit), locks |-> failures.locks,
                 missed |-> failures.missed, wins |-> failures.wins]
<1>1. task' = [task EXCEPT ![s] = t] /\ UNCHANGED <<account, clock, failures>>
  BY DEF Read, Arrive
<1>2. LockAt(t)
  BY DEF LockInv, LockAt
<1> HIDE DEF t
<1> QED BY <1>1, <1>2, LockKept DEF LockInv

\* A lockout that is set is counted, and every login on its way has been overtaken.
LEMMA FailureLock ==
    ASSUME LockInv, NEW s \in Session, RegisterFailedAttempt(s)
    PROVE  LockInv' /\ account'.locked >= account.locked
<1> DEFINE failed == task[s].got.failed + 1
           lock == failed >= MaxFailed
           t == [task[s] EXCEPT !.at = "answer", !.got = [row |-> "login_failed"]]
<1>1. /\ At(s, "login", "failed") /\ UNCHANGED clock /\ task' = [task EXCEPT ![s] = t]
      /\ account' = [account EXCEPT !.failed = failed,
                                    !.locked = IF lock THEN clock + LockTime ELSE @]
      /\ failures'.locks = (IF lock THEN failures.locks + 1 ELSE failures.locks)
      /\ Counts(failures')
  BY DEF RegisterFailedAttempt, ContinueWith, Continue, Counted, Counts
<1>2. LockAt(task[s])
  BY <1>1 DEF LockInv, Busy, At
<1>3. LockAt(t)
  BY <1>1, <1>2 DEF LockAt, At
<1>6. failed \in Nat
  BY <1>1, <1>2 DEF LockAt, At
<1> HIDE DEF t, failed
<1>4. CASE lock
  <2>1. /\ account' = [status |-> account.status, failed |-> failed,
                       locked |-> clock + LockTime, password |-> account.password]
        /\ failures'.locks = failures.locks + 1
    BY <1>1, <1>4 DEF LockInv
  <2>2. ASSUME NEW r \in Session, task'[r] # Nil PROVE LockAt(task'[r])
    BY <1>1, <1>3, <2>2 DEF LockInv, Busy, Idle
  <2>3. ASSUME NEW r \in Session, task'[r] # Nil PROVE LockAt(task[r])'
    BY <2>1, <2>2, <2>3 DEF LockAt, LockInv
  <2>4. /\ account'.locked \in Nat /\ account'.locked = clock + LockTime
        /\ account.locked <= clock + LockTime /\ account'.failed \in Nat
    BY <1>6, <2>1, LockAssumption DEF LockInv
  <2>5. DOMAIN task' = Session /\ \A r \in Busy' : LockAt(task[r])'
    BY <1>1, <2>3 DEF LockInv, Busy, Idle
  <2>6. /\ account' = [status |-> account'.status, failed |-> account'.failed,
                       locked |-> account'.locked, password |-> account'.password]
        /\ failures'.locks \in Nat
    BY <2>1 DEF LockInv
  <2> QED BY <1>1, <2>4, <2>5, <2>6 DEF LockInv
<1>5. CASE ~lock
  <2>1. /\ account' = [status |-> account.status, failed |-> failed,
                       locked |-> account.locked, password |-> account.password]
        /\ failures'.locks = failures.locks
    BY <1>1, <1>5 DEF LockInv
  <2>2. /\ account' = [status |-> account'.status, failed |-> account'.failed,
                       locked |-> account'.locked, password |-> account'.password]
        /\ account'.locked = account.locked /\ failures'.locks = failures.locks
        /\ account'.failed \in Nat
    BY <1>6, <2>1 DEF LockInv
  <2>3. LockInv'
    BY <1>1, <1>3, <2>2, LockKept
  <2> QED BY <2>2, <2>3 DEF LockInv
<1> QED BY <1>4, <1>5

LEMMA SuccessLock ==
    ASSUME LockInv, NEW s \in Session, CommitSuccess(s)
    PROVE  LockInv'
<1> DEFINE t == [task[s] EXCEPT !.at = "answer", !.got = [row |-> "login_success"]]
<1>1. /\ At(s, "login", "succeeded") /\ UNCHANGED clock /\ task' = [task EXCEPT ![s] = t]
      /\ account' = [account EXCEPT !.failed = 0, !.locked = 0]
      /\ failures'.locks = failures.locks /\ Counts(failures')
  BY DEF CommitSuccess, ContinueWith, Continue, Forgiven, Counts
<1>2. LockAt(task[s])
  BY <1>1 DEF LockInv, Busy, At
<1>3. LockAt(t)
  BY <1>1, <1>2 DEF LockAt, At
<1> HIDE DEF t
<1>4. /\ account' = [status |-> account.status, failed |-> 0,
                     locked |-> 0, password |-> account.password]
  BY <1>1 DEF LockInv
<1>5. ASSUME NEW r \in Session, task'[r] # Nil PROVE LockAt(task'[r])
  BY <1>1, <1>3, <1>5 DEF LockInv, Busy, Idle
<1>6. ASSUME NEW r \in Session, task'[r] # Nil PROVE LockAt(task[r])'
  BY <1>1, <1>4, <1>5, <1>6 DEF LockAt, LockInv, IsLocked
<1>7. /\ account' = [status |-> account'.status, failed |-> account'.failed,
                     locked |-> account'.locked, password |-> account'.password]
      /\ account'.locked = 0 /\ account'.failed = 0
  BY <1>4
<1>8. DOMAIN task' = Session /\ \A r \in Busy' : LockAt(task[r])'
  BY <1>1, <1>6 DEF LockInv, Busy, Idle
<1> QED BY <1>1, <1>7, <1>8, LockAssumption DEF LockInv

\* The other steps end a request, and at most write the password or the status.
LEMMA EndLock ==
    ASSUME LockInv, NEW s \in Session, End(s), UNCHANGED <<clock, failures>>,
           \/ UNCHANGED account
           \/ \E v : account' = [account EXCEPT !.password = v]
           \/ \E v : account' = [account EXCEPT !.status = v]
    PROVE  LockInv'
<1>1. task' = [task EXCEPT ![s] = Nil]
  BY DEF End
<1>2. /\ account'.locked = account.locked
      /\ account' = [status |-> account'.status, failed |-> account'.failed,
                     locked |-> account'.locked, password |-> account'.password]
      /\ account'.failed = account.failed
  BY DEF LockInv
<1> QED BY <1>1, <1>2, LockKept DEF LockInv

LEMMA TickLock == ASSUME LockInv, Tick PROVE LockInv'
<1>1. clock' = clock + 1 /\ UNCHANGED <<account, failures, task>>
  BY DEF Tick, requests
<1> QED BY <1>1, LockAssumption DEF LockInv, LockAt, IsLocked, Busy, Idle

LEMMA LockStep ==
    ASSUME LockInv, LoginNext
    PROVE  LockInv'
<1>1. CASE Tick
  BY <1>1, TickLock
<1>2. ASSUME NEW s \in Session, NEW p \in Password,
             ArriveRefused(s, p) \/ ArriveWrong(s, p) \/ ArriveRight(s, p)
      PROVE  LockInv'
  <2>1. CASE ArriveRefused(s, p)
    BY <2>1, ReadLock DEF ArriveRefused
  <2>2. CASE ArriveWrong(s, p)
    <3>1. account.failed \in Nat /\ Read(s, "login", "failed", [failed |-> account.failed])
      BY <2>2 DEF ArriveWrong, LockInv
    <3> QED BY <3>1, ReadLock
  <2>3. CASE ArriveRight(s, p)
    BY <2>3, ReadLock DEF ArriveRight
  <2> QED BY <1>2, <2>1, <2>2, <2>3
<1>3. ASSUME NEW s \in Session, ArriveRefresh(s) PROVE LockInv'
  BY <1>3, ReadLock DEF ArriveRefresh
<1>4. ASSUME NEW s \in Session, NEW old \in Password, NEW new \in Password,
             ArriveChange(s, old, new)
      PROVE  LockInv'
  BY <1>4, ReadLock DEF ArriveChange
<1>5. ASSUME NEW s \in Session, NEW st \in AccountStatus, ArriveStatus(s, st) PROVE LockInv'
  BY <1>5, ReadLock DEF ArriveStatus
<1>6. ASSUME NEW s \in Session, RegisterFailedAttempt(s) \/ CommitSuccess(s) PROVE LockInv'
  BY <1>6, FailureLock, SuccessLock
<1>7. ASSUME NEW s \in Session,
             \/ Answer(s) \/ AnswerRefresh(s) \/ CommitChange(s) \/ CommitAccountStatus(s)
             \/ HangUp(s)
      PROVE  LockInv'
  BY <1>7, EndLock DEF Answer, AnswerRefresh, CommitChange, CommitAccountStatus, HangUp
<1> QED BY <1>1, <1>2, <1>3, <1>4, <1>5, <1>6, <1>7 DEF LoginNext

LEMMA LockStutter == LockInv /\ UNCHANGED loginVars => LockInv'
BY DEF loginVars, requests, LockInv, LockAt, IsLocked, Busy, Idle

\* Only a login that verified its password before a lockout cuts it short.
OvertakenOnly ==
    IsLocked /\ account'.locked < account.locked =>
        \E s \in Session : At(s, "login", "succeeded") /\ task[s].locks < failures.locks

LEMMA StepOvertaken == LockInv /\ [LoginNext]_loginVars => OvertakenOnly
<1> SUFFICES ASSUME LockInv, [LoginNext]_loginVars, IsLocked, account'.locked < account.locked
             PROVE  \E s \in Session :
                       At(s, "login", "succeeded") /\ task[s].locks < failures.locks
  BY DEF OvertakenOnly
<1>1. account.locked \in Nat /\ ~(account.locked < account.locked)
  BY DEF LockInv
<1>2. account'.locked # account.locked
  BY <1>1
<1>3. ASSUME NEW s \in Session, CommitSuccess(s)
      PROVE  At(s, "login", "succeeded") /\ task[s].locks < failures.locks
  <2>1. At(s, "login", "succeeded") /\ LockAt(task[s])
    BY <1>3 DEF CommitSuccess, LockInv, Busy, At
  <2> QED BY <2>1 DEF LockAt, At, LockInv
<1>4. ASSUME NEW s \in Session, RegisterFailedAttempt(s) PROVE FALSE
  <2>1. account'.locked >= account.locked /\ account'.locked \in Nat
    BY <1>4, FailureLock DEF LockInv
  <2> QED BY <1>1, <2>1
<1>5. ASSUME NEW s \in Session, CommitChange(s) \/ CommitAccountStatus(s) PROVE FALSE
  BY <1>2, <1>5 DEF CommitChange, CommitAccountStatus, LockInv
<1> QED BY <1>2, <1>3, <1>4, <1>5 DEF LoginNext, loginVars, Tick, ArriveRefused, ArriveWrong,
       ArriveRight, ArriveRefresh, ArriveChange, ArriveStatus, Read, Answer, AnswerRefresh,
       HangUp

\* README.md:63 "(15 min)": whatever requests interleave and however time passes, a
\* lockout that has not expired is lifted only by a login that had verified its
\* password before the lockout was set.
THEOREM LockoutStands == LoginSpec => LockLasts
<1>1. LockInv /\ [LoginNext]_loginVars => LockInv'
  BY LockStep, LockStutter
<1>2. LockInv /\ [LoginNext]_loginVars => [OvertakenOnly]_loginVars
  BY StepOvertaken
<1>3. LoginSpec => [][OvertakenOnly]_loginVars
  BY <1>1, <1>2, LockInit, PTL DEF LoginSpec
<1>4. [][OvertakenOnly]_loginVars <=> LockLasts
  BY DEF OvertakenOnly, LockLasts
<1> QED BY <1>3, <1>4

-----------------------------------------------------------------------------

AuditRow ==
    [row : {"login_failed", "login_success"}]
    \cup [row : {"password_changed"}, old : Password, new : Password]
    \cup [row : {"update_user"}, status : AccountStatus]

\* What every task is, about the one account.
TaskAt(t) ==
    /\ t.on = {"account"}
    /\ DOMAIN t = {"op", "at", "on", "got", "seen", "locks", "missed", "wins"}
    /\ t.op = "login" /\ t.at = "answer" => t.got.row \in {"login_failed", "login_success"}
    /\ t.op = "change_password" => t.got.old \in Password /\ t.got.new \in Password
    /\ t.op = "update_user" => t.got.new \in AccountStatus

\* What a task has read is what is still there: n audit rows and the account.
FreshReads(t, n, row) ==
    /\ t.seen = n
    /\ t.op = "login" /\ t.at = "failed" => t.got.failed = row.failed
    /\ t.op = "login" /\ t.at = "succeeded" => row.status = "active"
    /\ t.op = "refresh" => row.status = "active"
    /\ t.op = "update_user" => t.got.loaded = row.status

\* The trail tells the status of the account.
LastStatusTold ==
    \A n \in 1..Len(audit) :
        StatusLastSet(n, Len(audit)) => audit[n].status = account.status

\* Requests that never met take turns, each working on what it found.
TurnsTaken ==
    /\ \A r, s \in Busy : r = s
    /\ \A s \in Busy : FreshReads(task[s], Len(audit), account)
    /\ account.failed = failures.missed
    /\ LastStatusTold

AccountInv ==
    /\ LockInv
    /\ audit \in Seq(AuditRow) /\ account.status \in AccountStatus
    /\ \A s \in Busy : TaskAt(task[s])
    /\ Apart => TurnsTaken

LEMMA AccountInit == LoginInit => AccountInv
<1> SUFFICES ASSUME LoginInit PROVE AccountInv
  OBVIOUS
<1>1. Busy = {}
  BY DEF LoginInit, InitRequests, Busy, Idle
<1>2. audit = << >> /\ account.failed = failures.missed /\ account.status \in AccountStatus
  BY DEF LoginInit, AccountStatus
<1> QED BY <1>1, <1>2, LockInit DEF AccountInv, TurnsTaken, LastStatusTold

\* A step of one session when no two have met leaves the others idle.
LEMMA Alone ==
    ASSUME AccountInv, NEW s \in Session, NEW t, task' = [task EXCEPT ![s] = t],
           \/ s \in Busy /\ raced' = raced
           \/ t.on = {"account"} /\ Arrive(s, t),
           Apart'
    PROVE  Apart /\ \A r \in Session \ {s} : task'[r] = Nil
<1>1. DOMAIN task = Session
  BY DEF AccountInv, LockInv
<1>2. CASE s \in Busy /\ raced' = raced
  <2>1. Apart /\ \A r \in Busy : r = s
    BY <1>2 DEF Apart, AccountInv, TurnsTaken
  <2> QED BY <1>1, <2>1 DEF Busy, Idle
<1>3. CASE t.on = {"account"} /\ Arrive(s, t)
  <2>1. raced \cup UNION {t.on \cap task[r].on : r \in Busy} = {}
    BY <1>3 DEF Arrive, Apart
  <2>2. ASSUME NEW r \in Busy PROVE FALSE
    <3>1. "account" \in t.on \cap task[r].on
      BY <1>3 DEF AccountInv, TaskAt
    <3> QED BY <2>1, <3>1
  <2> QED BY <1>1, <2>1, <2>2 DEF Apart, Busy, Idle
<1> QED BY <1>2, <1>3

\* What is left to show of a step.
LEMMA AccountKept ==
    ASSUME AccountInv, NEW s \in Session, NEW t, task' = [task EXCEPT ![s] = t],
           \/ s \in Busy /\ raced' = raced
           \/ t.on = {"account"} /\ Arrive(s, t),
           LockInv', audit' \in Seq(AuditRow), account'.status \in AccountStatus,
           t = Nil \/ TaskAt(t),
           Apart /\ Apart' => /\ t = Nil \/ FreshReads(t, Len(audit'), account')
                             /\ account'.failed = failures'.missed /\ LastStatusTold'
    PROVE  AccountInv'
<1>1. DOMAIN task = Session
  BY DEF AccountInv, LockInv
<1>2. \A r \in Busy' : TaskAt(task'[r])
  BY <1>1 DEF AccountInv, Busy, Idle
<1>3. ASSUME Apart' PROVE TurnsTaken'
  <2>1. Apart /\ \A r \in Session \ {s} : task'[r] = Nil
    BY <1>3, Alone
  <2>2. \A r \in Busy' : r = s /\ task'[r] = t /\ t # Nil
    BY <1>1, <2>1 DEF Busy, Idle
  <2> QED BY <1>3, <2>1, <2>2 DEF TurnsTaken
<1> QED BY <1>2, <1>3 DEF AccountInv, TaskAt

LEMMA StatusToldStays ==
    ASSUME LastStatusTold, UNCHANGED audit, account'.status = account.status
    PROVE  LastStatusTold'
BY DEF LastStatusTold, StatusLastSet

\* An audit row about something else than the status.
LEMMA StatusToldBeside ==
    ASSUME LastStatusTold, NEW row \in AuditRow, row.row # "update_user",
           audit \in Seq(AuditRow), audit' = Append(audit, row),
           account'.status = account.status
    PROVE  LastStatusTold'
<1>1. /\ Len(audit) \in Nat /\ Len(audit') = Len(audit) + 1 /\ audit'[Len(audit) + 1] = row
      /\ \A n \in 1..Len(audit) : audit'[n] = audit[n]
  OBVIOUS
<1> SUFFICES ASSUME NEW n \in 1..Len(audit'), audit'[n].row = "update_user",
                    \A m \in (n + 1)..Len(audit') : audit'[m].row # "update_user"
             PROVE  audit'[n].status = account'.status
  BY DEF LastStatusTold, StatusLastSet
<1>2. n \in 1..Len(audit)
  BY <1>1
<1>3. \A m \in (n + 1)..Len(audit) : audit[m].row # "update_user"
  BY <1>1
<1> QED BY <1>1, <1>2, <1>3 DEF LastStatusTold, StatusLastSet

LEMMA StatusToldNow ==
    ASSUME NEW row \in AuditRow, row.row = "update_user",
           audit \in Seq(AuditRow), audit' = Append(audit, row),
           account'.status = row.status
    PROVE  LastStatusTold'
<1>1. Len(audit) \in Nat /\ Len(audit') = Len(audit) + 1 /\ audit'[Len(audit) + 1] = row
  OBVIOUS
<1> SUFFICES ASSUME NEW n \in 1..Len(audit'), audit'[n].row = "update_user",
                    \A m \in (n + 1)..Len(audit') : audit'[m].row # "update_user"
             PROVE  audit'[n].status = account'.status
  BY DEF LastStatusTold, StatusLastSet
<1>2. n = Len(audit) + 1
  BY <1>1
<1> QED BY <1>1, <1>2

LEMMA ReadAccount ==
    ASSUME AccountInv, LockInv', NEW s \in Session, NEW op, NEW at, NEW got,
           Read(s, op, at, got),
           op \in {"login", "refresh", "change_password", "update_user"},
           op = "login" => at \in {"answer", "failed", "succeeded"},
           op = "login" /\ at = "answer" => got.row = "login_failed",
           op = "login" /\ at = "failed" => got.failed = account.failed,
           op = "login" /\ at = "succeeded" => account.status = "active",
           op = "refresh" => account.status = "active",
           op = "change_password" => got.old \in Password /\ got.new \in Password,
           op = "update_user" => got.loaded = account.status /\ got.new \in AccountStatus
    PROVE  AccountInv'
<1> DEFINE t == [op |-> op, at |-> at, on |-> {"account"}, got |-> got,
                 seen |-> Len(audit), locks |-> failures.locks,
                 missed |-> failures.missed, wins |-> failures.wins]
<1>1. /\ Arrive(s, t) /\ task' = [task EXCEPT ![s] = t]
      /\ UNCHANGED <<account, clock, audit, failures>>
  BY DEF Read, Arrive
<1>2. TaskAt(t) /\ FreshReads(t, Len(audit), account) /\ t.on = {"account"}
  BY DEF TaskAt, FreshReads
<1> HIDE DEF t
<1>3. Apart => LastStatusTold'
  BY <1>1, StatusToldStays DEF AccountInv, TurnsTaken
<1> QED BY <1>1, <1>2, <1>3, AccountKept DEF AccountInv, TurnsTaken

LEMMA FailureAccount ==
    ASSUME AccountInv, LockInv', NEW s \in Session, RegisterFailedAttempt(s)
    PROVE  AccountInv'
<1> DEFINE t == [task[s] EXCEPT !.at = "answer", !.got = [row |-> "login_failed"]]
<1>1. /\ At(s, "login", "failed") /\ task' = [task EXCEPT ![s] = t] /\ raced' = raced
      /\ account' = [account EXCEPT !.failed = task[s].got.failed + 1, !.locked = account'.locked]
      /\ failures'.missed = failures.missed + 1 /\ UNCHANGED audit
  <2>1. RegisterFailedAttempt(s)
    OBVIOUS
  <2> QED BY <2>1 DEF RegisterFailedAttempt, ContinueWith, Continue, Counted, AccountInv, LockInv
<1>2. s \in Busy /\ TaskAt(task[s])
  BY <1>1 DEF AccountInv, Busy, At
<1>3. TaskAt(t) /\ t.seen = task[s].seen /\ t.op = "login" /\ t.at = "answer"
  <2>1. /\ task[s].on = {"account"} /\ task[s].op = "login"
        /\ DOMAIN task[s] = {"op", "at", "on", "got", "seen", "locks", "missed", "wins"}
    BY <1>1, <1>2 DEF TaskAt, At
  <2>2. /\ t.op = "login" /\ t.at = "answer" /\ t.on = {"account"}
        /\ t.got = [row |-> "login_failed"] /\ t.seen = task[s].seen
        /\ DOMAIN t = {"op", "at", "on", "got", "seen", "locks", "missed", "wins"}
    BY <2>1
  <2> HIDE DEF t
  <2> QED BY <2>2 DEF TaskAt
<1> HIDE DEF t
<1>4. /\ account'.status = account.status /\ account'.failed = task[s].got.failed + 1
  BY <1>1 DEF AccountInv, LockInv
<1>5. ASSUME Apart
      PROVE  /\ FreshReads(t, Len(audit'), account') /\ account'.failed = failures'.missed
             /\ LastStatusTold'
  <2>1. TurnsTaken /\ FreshReads(task[s], Len(audit), account)
    BY <1>2, <1>5 DEF AccountInv, TurnsTaken
  <2>2. FreshReads(t, Len(audit'), account') /\ account'.failed = failures'.missed
    BY <1>1, <1>3, <1>4, <2>1 DEF FreshReads, TurnsTaken, At
  <2> QED BY <1>1, <1>4, <2>1, <2>2, StatusToldStays DEF TurnsTaken
<1> QED BY <1>1, <1>2, <1>3, <1>4, <1>5, AccountKept DEF AccountInv

LEMMA SuccessAccount ==
    ASSUME AccountInv, LockInv', NEW s \in Session, CommitSuccess(s)
    PROVE  AccountInv'
<1> DEFINE t == [task[s] EXCEPT !.at = "answer", !.got = [row |-> "login_success"]]
<1>1. /\ At(s, "login", "succeeded") /\ task' = [task EXCEPT ![s] = t] /\ raced' = raced
      /\ account' = [account EXCEPT !.failed = 0, !.locked = 0]
      /\ failures'.missed = 0 /\ UNCHANGED audit
  BY DEF CommitSuccess, ContinueWith, Continue, Forgiven
<1>2. s \in Busy /\ TaskAt(task[s])
  BY <1>1 DEF AccountInv, Busy, At
<1>3. TaskAt(t) /\ t.seen = task[s].seen /\ t.op = "login" /\ t.at = "answer"
  <2>1. /\ task[s].on = {"account"} /\ task[s].op = "login"
        /\ DOMAIN task[s] = {"op", "at", "on", "got", "seen", "locks", "missed", "wins"}
    BY <1>1, <1>2 DEF TaskAt, At
  <2>2. /\ t.op = "login" /\ t.at = "answer" /\ t.on = {"account"}
        /\ t.got = [row |-> "login_success"] /\ t.seen = task[s].seen
        /\ DOMAIN t = {"op", "at", "on", "got", "seen", "locks", "missed", "wins"}
    BY <2>1
  <2> HIDE DEF t
  <2> QED BY <2>2 DEF TaskAt
<1> HIDE DEF t
<1>4. /\ account'.status = account.status /\ account'.failed = 0 /\ failures'.missed = 0
  BY <1>1 DEF AccountInv, LockInv
<1>5. ASSUME Apart
      PROVE  /\ FreshReads(t, Len(audit'), account') /\ account'.failed = failures'.missed
             /\ LastStatusTold'
  <2>1. TurnsTaken /\ FreshReads(task[s], Len(audit), account)
    BY <1>2, <1>5 DEF AccountInv, TurnsTaken
  <2>2. FreshReads(t, Len(audit'), account')
    BY <1>1, <1>3, <2>1 DEF FreshReads
  <2> QED BY <1>1, <1>4, <2>1, <2>2, StatusToldStays DEF TurnsTaken
<1> QED BY <1>1, <1>2, <1>3, <1>4, <1>5, AccountKept DEF AccountInv

\* A request that ends, with an audit row or without.
LEMMA EndAccount ==
    ASSUME AccountInv, LockInv', NEW s \in Busy, End(s), audit' \in Seq(AuditRow),
           account'.status \in AccountStatus,
           account'.failed = account.failed, UNCHANGED failures, TurnsTaken => LastStatusTold'
    PROVE  AccountInv'
<1>1. task' = [task EXCEPT ![s] = Nil] /\ raced' = raced /\ s \in Session
  BY DEF End, Busy
<1> QED BY <1>1, AccountKept DEF AccountInv, TurnsTaken

LEMMA QuietEnd ==
    ASSUME AccountInv, LockInv', NEW s \in Session,
           AnswerRefresh(s) \/ HangUp(s)
    PROVE  AccountInv'
<1>1. s \in Busy /\ End(s) /\ UNCHANGED <<account, audit, failures>>
  BY DEF AnswerRefresh, HangUp, Busy, At
<1>2. TurnsTaken => LastStatusTold'
  BY <1>1, StatusToldStays DEF TurnsTaken
<1> QED BY <1>1, <1>2, EndAccount DEF AccountInv

LEMMA AnswerAccount ==
    ASSUME AccountInv, LockInv', NEW s \in Session, Answer(s)
    PROVE  AccountInv'
<1> DEFINE row == [row |-> task[s].got.row]
<1>1. /\ At(s, "login", "answer") /\ audit' = Append(audit, row) /\ End(s)
      /\ UNCHANGED <<account, failures>>
  BY DEF Answer, Audited
<1>2. s \in Busy /\ task[s].got.row \in {"login_failed", "login_success"}
  BY <1>1 DEF AccountInv, TaskAt, Busy, At
<1>3. row \in AuditRow /\ row.row # "update_user"
  BY <1>2 DEF AuditRow
<1> HIDE DEF row
<1>4. audit' \in Seq(AuditRow)
  BY <1>1, <1>3 DEF AccountInv
<1>5. TurnsTaken => LastStatusTold'
  BY <1>1, <1>3, StatusToldBeside DEF AccountInv, TurnsTaken
<1> QED BY <1>1, <1>2, <1>4, <1>5, EndAccount DEF AccountInv

LEMMA ChangeAccount ==
    ASSUME AccountInv, LockInv', NEW s \in Session, CommitChange(s)
    PROVE  AccountInv'
<1> DEFINE row == [row |-> "password_changed", old |-> task[s].got.old, new |-> task[s].got.new]
<1>1. /\ At(s, "change_password", "commit") /\ audit' = Append(audit, row) /\ End(s)
      /\ account' = [account EXCEPT !.password = task[s].got.new] /\ UNCHANGED failures
  BY DEF CommitChange, Audited
<1>2. s \in Busy /\ task[s].got.old \in Password /\ task[s].got.new \in Password
  BY <1>1 DEF AccountInv, TaskAt, Busy, At
<1>3. row \in AuditRow /\ row.row # "update_user"
  BY <1>2 DEF AuditRow
<1> HIDE DEF row
<1>4. audit' \in Seq(AuditRow)
  BY <1>1, <1>3 DEF AccountInv
<1>5. account'.status = account.status /\ account'.failed = account.failed
  BY <1>1 DEF AccountInv, LockInv
<1>6. TurnsTaken => LastStatusTold'
  BY <1>1, <1>3, <1>5, StatusToldBeside DEF AccountInv, TurnsTaken
<1> QED BY <1>1, <1>2, <1>4, <1>5, <1>6, EndAccount DEF AccountInv

LEMMA StatusAccount ==
    ASSUME AccountInv, LockInv', NEW s \in Session, CommitAccountStatus(s)
    PROVE  AccountInv'
<1> DEFINE row == [row |-> "update_user", status |-> task[s].got.new]
<1>1. /\ At(s, "update_user", "commit") /\ audit' = Append(audit, row) /\ End(s)
      /\ account' = [account EXCEPT !.status =
                         Assigned(task[s].got.loaded, task[s].got.new, account.status)]
      /\ UNCHANGED failures
  BY DEF CommitAccountStatus, Audited
<1>2. s \in Busy /\ task[s].got.new \in AccountStatus
  BY <1>1 DEF AccountInv, TaskAt, Busy, At
<1>3. row \in AuditRow /\ row.row = "update_user" /\ row.status = task[s].got.new
  BY <1>2 DEF AuditRow
<1> HIDE DEF row
<1>4. audit' \in Seq(AuditRow)
  BY <1>1, <1>3 DEF AccountInv
<1>5. /\ account'.status = Assigned(task[s].got.loaded, task[s].got.new, account.status)
      /\ account'.failed = account.failed /\ account'.status \in AccountStatus
  BY <1>1, <1>2 DEF AccountInv, LockInv, Assigned
<1>6. ASSUME TurnsTaken PROVE LastStatusTold'
  <2>1. task[s].got.loaded = account.status
    BY <1>1, <1>2, <1>6 DEF TurnsTaken, FreshReads, At
  <2>2. account'.status = row.status
    BY <1>3, <1>5, <2>1 DEF Assigned
  <2> QED BY <1>1, <1>3, <2>2, StatusToldNow DEF AccountInv
<1> QED BY <1>1, <1>2, <1>4, <1>5, <1>6, EndAccount DEF AccountInv

LEMMA AccountStep == AccountInv /\ [LoginNext]_loginVars => AccountInv'
<1> SUFFICES ASSUME AccountInv, [LoginNext]_loginVars PROVE AccountInv'
  OBVIOUS
<1>0. LockInv'
  BY LockStep, LockStutter DEF AccountInv
<1>1. CASE UNCHANGED loginVars
  BY <1>0, <1>1 DEF loginVars, requests, AccountInv, TurnsTaken, LastStatusTold, StatusLastSet,
     Apart, Busy, Idle
<1>2. CASE Tick
  BY <1>0, <1>2 DEF Tick, requests, AccountInv, TurnsTaken, LastStatusTold, StatusLastSet, Apart,
     Busy, Idle
<1>3. ASSUME NEW s \in Session, NEW p \in Password, ArriveRefused(s, p) PROVE AccountInv'
  BY <1>0, <1>3, ReadAccount DEF ArriveRefused
<1>4. ASSUME NEW s \in Session, NEW p \in Password, ArriveWrong(s, p) PROVE AccountInv'
  BY <1>0, <1>4, ReadAccount DEF ArriveWrong
<1>5. ASSUME NEW s \in Session, NEW p \in Password, ArriveRight(s, p) PROVE AccountInv'
  BY <1>0, <1>5, ReadAccount DEF ArriveRight
<1>6. ASSUME NEW s \in Session, ArriveRefresh(s) PROVE AccountInv'
  BY <1>0, <1>6, ReadAccount DEF ArriveRefresh
<1>7. ASSUME NEW s \in Session, NEW old \in Password, NEW new \in Password,
             ArriveChange(s, old, new)
      PROVE  AccountInv'
  BY <1>0, <1>7, ReadAccount DEF ArriveChange
<1>8. ASSUME NEW s \in Session, NEW st \in AccountStatus, ArriveStatus(s, st) PROVE AccountInv'
  BY <1>0, <1>8, ReadAccount DEF ArriveStatus
<1>9. ASSUME NEW s \in Session,
             \/ RegisterFailedAttempt(s) \/ CommitSuccess(s) \/ Answer(s) \/ AnswerRefresh(s)
             \/ CommitChange(s) \/ CommitAccountStatus(s) \/ HangUp(s)
      PROVE  AccountInv'
  BY <1>0, <1>9, FailureAccount, SuccessAccount, AnswerAccount, QuietEnd, ChangeAccount,
     StatusAccount
<1> QED BY <1>1, <1>2, <1>3, <1>4, <1>5, <1>6, <1>7, <1>8, <1>9 DEF LoginNext

\* auth_service.py:51 "Successful login - reset failure counters": as long as no two
\* requests were under way at once, the counter is the number of failures since the
\* last success, through lockouts and their expiry.
THEOREM CounterIsFailures == LoginSpec => []CounterTellsFailures
<1>1. AccountInv => CounterTellsFailures
  BY DEF AccountInv, TurnsTaken, CounterTellsFailures
<1> QED BY <1>1, AccountInit, AccountStep, PTL DEF LoginSpec

\* deps.py:5 "rejects inactive/suspended ... accounts even if their token is still
\* technically valid": as long as no two requests were under way at once, tokens are
\* on their way only to an account whose status was last set to active.
THEOREM TokensFollowStatus == LoginSpec => []TokensToActiveAccounts
<1>1. AccountInv => TokensToActiveAccounts
  <2> SUFFICES ASSUME AccountInv, NEW s \in Busy, Apart,
                      At(s, "refresh", "answer") \/ At(s, "login", "succeeded"),
                      NEW n \in 1..task[s].seen, StatusLastSet(n, task[s].seen)
               PROVE  audit[n].status = "active"
    BY DEF TokensToActiveAccounts
  <2>1. LastStatusTold /\ FreshReads(task[s], Len(audit), account)
    BY DEF AccountInv, TurnsTaken
  <2> QED BY <2>1 DEF FreshReads, LastStatusTold, At
<1> QED BY <1>1, AccountInit, AccountStep, PTL DEF LoginSpec

-----------------------------------------------------------------------------
\* The lockout in time.  A login that read the counter after everything written
\* adds to what is there; one that was overtaken by another failure writes a counter
\* that is no higher than the failures since the last success, as long as it has
\* read the row after that success.

\* Logins that are about to write the counter, and those of them that failed.
Writing == {s \in Busy : task[s].op = "login" /\ task[s].at \in {"failed", "succeeded"}}

Failing == {s \in Busy : task[s].op = "login" /\ task[s].at = "failed"}

\* Every request writes at most one audit row, and counts as at most one failure or
\* one success.
CountsOK ==
    /\ begun \in 0..MaxRequests /\ IsFiniteSet(Busy)
    /\ Len(audit) + Cardinality(Busy) <= begun
    /\ failures.missed \in Nat /\ failures.wins \in Nat
    /\ failures.missed + Cardinality(Writing) <= begun
    /\ failures.locks + Cardinality(Writing) <= begun
    /\ failures.wins + Cardinality(Writing) <= begun

\* What a failed login has read, with the history f and the counter n there are now.
ReadBefore(t, f, n) ==
    /\ t.wins \in Nat /\ t.missed \in Nat /\ t.wins <= f.wins
    /\ t.wins = f.wins => t.missed <= f.missed
    /\ t.wins = f.wins /\ t.missed = f.missed => t.got.failed = n
    /\ t.wins = f.wins /\ ~f.overtaken => t.got.failed <= f.missed

InTime ==
    /\ failures.chain \in Nat /\ failures.overtaken \in BOOLEAN
    /\ failures.chain <= failures.missed /\ failures.chain <= account.failed
    /\ LockInTime /\ LockIsEarned
    /\ \A s \in Failing : ReadBefore(task[s], failures, account.failed)

LatestInv ==
    /\ AccountInv
    /\ account.password \in Password /\ clock <= MaxClock
    /\ CountsOK
    /\ InTime

-----------------------------------------------------------------------------
\* What a step does to the requests under way.

LEMMA OneMoreAtMost ==
    ASSUME NEW S, NEW T, NEW x, IsFiniteSet(S), T \subseteq S \cup {x}
    PROVE  /\ IsFiniteSet(T) /\ Cardinality(S) \in Nat /\ Cardinality(T) \in Nat
           /\ Cardinality(T) <= Cardinality(S) + 1
<1>1. /\ IsFiniteSet(S \cup {x}) /\ Cardinality(S) \in Nat
      /\ Cardinality(S \cup {x}) = Cardinality(S) \/ Cardinality(S \cup {x}) = Cardinality(S) + 1
  BY FS_AddElement, FS_CardinalityType
<1>2. IsFiniteSet(T) /\ Cardinality(T) <= Cardinality(S \cup {x}) /\ Cardinality(T) \in Nat
  BY <1>1, FS_Subset, FS_CardinalityType
<1> QED BY <1>1, <1>2

LEMMA OneLess ==
    ASSUME NEW S, NEW x \in S, IsFiniteSet(S)
    PROVE  /\ Cardinality(S) \in Nat /\ Cardinality(S \ {x}) \in Nat
           /\ IsFiniteSet(S \ {x}) /\ Cardinality(S \ {x}) = Cardinality(S) - 1
BY FS_RemoveElement, FS_CardinalityType

LEMMA Started ==
    ASSUME AccountInv, CountsOK, NEW s \in Session, NEW t, Arrive(s, t), UNCHANGED audit,
           UNCHANGED failures
    PROVE  CountsOK'
<1>1. /\ Idle(s) /\ task' = [task EXCEPT ![s] = t] /\ begun' = begun + 1 /\ begun < MaxRequests
      /\ DOMAIN task = Session /\ Len(audit) \in Nat /\ failures.locks \in Nat
  BY DEF Arrive, AccountInv, LockInv
<1>2. Busy' \subseteq Busy \cup {s} /\ Writing' \subseteq Writing \cup {s}
  BY <1>1 DEF Busy, Idle, Writing
<1>3. IsFiniteSet(Busy) /\ IsFiniteSet(Writing)
  BY FS_Subset DEF CountsOK, Writing
<1>4. /\ IsFiniteSet(Busy') /\ Cardinality(Busy') <= Cardinality(Busy) + 1
      /\ Cardinality(Busy) \in Nat /\ Cardinality(Busy') \in Nat
  BY <1>2, <1>3, OneMoreAtMost
<1>5. /\ Cardinality(Writing') <= Cardinality(Writing) + 1
      /\ Cardinality(Writing) \in Nat /\ Cardinality(Writing') \in Nat
  BY <1>2, <1>3, OneMoreAtMost
<1>6. begun' \in 0..MaxRequests
  BY <1>1, MaxRequestsIsNat DEF CountsOK
<1>7. Len(audit') + Cardinality(Busy') <= begun'
  BY <1>1, <1>4 DEF CountsOK
<1>8. /\ failures'.missed + Cardinality(Writing') <= begun'
      /\ failures'.locks + Cardinality(Writing') <= begun'
      /\ failures'.wins + Cardinality(Writing') <= begun'
  <2>1. /\ begun \in Nat /\ failures.missed \in Nat /\ failures.wins \in Nat
        /\ failures.missed + Cardinality(Writing) <= begun
        /\ failures.locks + Cardinality(Writing) <= begun
        /\ failures.wins + Cardinality(Writing) <= begun
    BY MaxRequestsIsNat DEF CountsOK
  <2>2. \A a \in Nat : a + Cardinality(Writing) <= begun => a + Cardinality(Writing') <= begun'
    BY <1>1, <1>5, <2>1
  <2> QED BY <1>1, <2>1, <2>2
<1> QED BY <1>4, <1>6, <1>7, <1>8 DEF CountsOK

\* A session that goes on, or ends with at most one audit row.
LEMMA WentOn ==
    ASSUME AccountInv, CountsOK, NEW s \in Busy, NEW t, task' = [task EXCEPT ![s] = t],
           UNCHANGED begun, failures'.missed \in Nat, failures'.locks \in Nat,
           failures'.wins \in Nat,
           t = Nil \/ (t.op = task[s].op /\ t.at = "answer"),
           \/ UNCHANGED audit
           \/ t = Nil /\ Len(audit') = Len(audit) + 1,
           \/ UNCHANGED failures
           \/ /\ s \in Writing
              /\ failures'.missed <= failures.missed + 1
              /\ failures'.locks <= failures.locks + 1
              /\ failures'.wins <= failures.wins + 1
    PROVE  CountsOK'
<1>1. DOMAIN task = Session /\ Len(audit) \in Nat /\ failures.locks \in Nat /\ s \in Session
  BY DEF AccountInv, LockInv, Busy
<1>2. Busy' = (IF t = Nil THEN Busy \ {s} ELSE Busy) /\ Writing' = Writing \ {s}
  BY <1>1 DEF Busy, Idle, Writing
<1>3. IsFiniteSet(Busy) /\ IsFiniteSet(Writing)
  BY FS_Subset DEF CountsOK, Writing
<1>4. /\ IsFiniteSet(Busy') /\ Cardinality(Busy) \in Nat /\ Cardinality(Busy') \in Nat
      /\ Cardinality(Busy') = (IF t = Nil THEN Cardinality(Busy) - 1 ELSE Cardinality(Busy))
  BY <1>2, <1>3, OneLess, FS_CardinalityType
<1>5. /\ Cardinality(Writing) \in Nat /\ Cardinality(Writing') \in Nat
      /\ Cardinality(Writing') <= Cardinality(Writing)
      /\ s \in Writing => Cardinality(Writing') = Cardinality(Writing) - 1
  <2>1. CASE s \in Writing
    BY <1>2, <1>3, <2>1, OneLess
  <2>2. CASE s \notin Writing
    <3>1. Writing' = Writing
      BY <1>2, <2>2
    <3> QED BY <1>3, <2>2, <3>1, FS_CardinalityType
  <2> QED BY <2>1, <2>2
<1>6. Len(audit') + Cardinality(Busy') <= begun
  BY <1>1, <1>4 DEF CountsOK
<1>7. /\ failures'.missed + Cardinality(Writing') <= begun
      /\ failures'.locks + Cardinality(Writing') <= begun
      /\ failures'.wins + Cardinality(Writing') <= begun
  <2>1. /\ begun \in Nat /\ failures.missed \in Nat /\ failures.wins \in Nat
        /\ failures.missed + Cardinality(Writing) <= begun
        /\ failures.locks + Cardinality(Writing) <= begun
        /\ failures.wins + Cardinality(Writing) <= begun
    BY MaxRequestsIsNat DEF CountsOK
  <2>2. CASE UNCHANGED failures
    BY <1>1, <1>5, <2>1, <2>2
  <2>3. CASE /\ s \in Writing /\ failures'.missed <= failures.missed + 1
             /\ failures'.locks <= failures.locks + 1
             /\ failures'.wins <= failures.wins + 1
    <3>1. \A a, b, c, d, e \in Int : a <= b + 1 /\ c = d - 1 /\ b + d <= e => a + c <= e
      OBVIOUS
    <3>2. Cardinality(Writing') = Cardinality(Writing) - 1
      BY <1>5, <2>3
    <3>3. /\ failures'.missed \in Int /\ failures.missed \in Int /\ begun \in Int
      BY <2>1
    <3>4. /\ failures'.locks \in Int /\ failures.locks \in Int
          /\ failures'.wins \in Int /\ failures.wins \in Int
      BY <1>1, <2>1
    <3>5. Cardinality(Writing) \in Int /\ Cardinality(Writing') \in Int
      BY <1>5
    <3>6. failures'.missed + Cardinality(Writing') <= begun
      BY <2>1, <2>3, <3>1, <3>2, <3>3, <3>4, <3>5
    <3>7. failures'.locks + Cardinality(Writing') <= begun
      BY <2>1, <2>3, <3>1, <3>2, <3>3, <3>4, <3>5
    <3>8. failures'.wins + Cardinality(Writing') <= begun
      BY <2>1, <2>3, <3>1, <3>2, <3>3, <3>4, <3>5
    <3> QED BY <3>6, <3>7, <3>8
  <2> QED BY <2>2, <2>3
<1>8. begun' = begun /\ begun' \in 0..MaxRequests
  BY DEF CountsOK
<1>9. IsFiniteSet(Busy')
  BY <1>4
<1> QED BY <1>6, <1>7, <1>8, <1>9 DEF CountsOK

\* A step that leaves the counter, the lock and the history alone.
LEMMA StillInTime ==
    ASSUME AccountInv, InTime, NEW s \in Session, NEW t, task' = [task EXCEPT ![s] = t],
           UNCHANGED failures, account'.failed = account.failed,
           account'.locked = account.locked,
           t # Nil /\ t.op = "login" /\ t.at = "failed" =>
               ReadBefore(t, failures, account.failed)
    PROVE  InTime'
<1>1. DOMAIN task = Session
  BY DEF AccountInv, LockInv
<1>2. ASSUME NEW r \in Failing' PROVE ReadBefore(task'[r], failures', account'.failed)
  BY <1>1, <1>2 DEF Failing, Busy, Idle, InTime
<1>3. LockInTime' /\ LockIsEarned'
  BY DEF InTime, LockInTime, LockIsEarned
<1> QED BY <1>2, <1>3 DEF InTime

\* An answer that is on its way.
Answered(t, row) == [t EXCEPT !.at = "answer", !.got = [row |-> row]]

LEMMA FailureLatest ==
    ASSUME LatestInv, NEW s \in Session, RegisterFailedAttempt(s)
    PROVE  CountsOK' /\ InTime'
<1> DEFINE k == task[s].got.failed
           lock == k + 1 >= MaxFailed
           stale == task[s].missed # failures.missed \/ task[s].wins # failures.wins
           t == Answered(task[s], "login_failed")
<1>1. /\ At(s, "login", "failed") /\ task' = [task EXCEPT ![s] = t] /\ UNCHANGED <<begun, audit>>
      /\ account' = [account EXCEPT !.failed = k + 1,
                                    !.locked = IF lock THEN clock + LockTime ELSE @]
  BY DEF RegisterFailedAttempt, ContinueWith, Continue, Answered
<1>2. /\ failures'.missed = failures.missed + 1
      /\ failures'.chain = (IF lock THEN 0 ELSE IF stale THEN 1 ELSE failures.chain + 1)
      /\ failures'.overtaken = (failures.overtaken \/ task[s].wins # failures.wins)
      /\ failures'.locks = (IF lock THEN failures.locks + 1 ELSE failures.locks)
      /\ failures'.wins = failures.wins
  BY DEF RegisterFailedAttempt, Counted
<1>3. s \in Busy /\ s \in Failing /\ s \in Writing /\ DOMAIN task = Session
  BY <1>1 DEF Busy, At, Failing, Writing, LatestInv, AccountInv, LockInv
<1>4. k \in Nat /\ account.failed \in Nat /\ MaxFailed \in Nat \ {0} /\ failures.locks \in Nat
  <2>1. LockAt(task[s]) /\ LockInv
    BY <1>3 DEF LatestInv, AccountInv, LockInv
  <2> QED BY <1>1, <2>1, LockAssumption DEF LockAt, At, LockInv
<1>5. t.op = task[s].op /\ t.at = "answer"
  <2>1. DOMAIN task[s] = {"op", "at", "on", "got", "seen", "locks", "missed", "wins"}
    BY <1>3 DEF LatestInv, AccountInv, TaskAt
  <2> QED BY <2>1 DEF Answered
<1>6. /\ account'.failed = k + 1
      /\ account'.locked = (IF lock THEN clock + LockTime ELSE account.locked)
  BY <1>1 DEF LatestInv, AccountInv, LockInv
<1>7. /\ failures.missed \in Nat /\ failures.wins \in Nat /\ failures.chain \in Nat
      /\ failures.chain <= failures.missed /\ failures.chain <= account.failed
      /\ failures.overtaken \in BOOLEAN
      /\ ReadBefore(task[s], failures, account.failed)
  BY <1>3 DEF LatestInv, CountsOK, InTime
<1> HIDE DEF t
<1>8. CountsOK'
  <2>1. /\ failures'.missed \in Nat /\ failures'.locks \in Nat /\ failures'.wins \in Nat
        /\ failures'.missed <= failures.missed + 1 /\ failures'.locks <= failures.locks + 1
        /\ failures'.wins <= failures.wins + 1
    BY <1>2, <1>4, <1>7
  <2> QED BY <1>1, <1>3, <1>5, <2>1, WentOn DEF LatestInv
<1>9. /\ failures'.chain \in Nat /\ failures'.chain <= account'.failed
      /\ failures'.chain <= failures'.missed /\ failures'.chain < MaxFailed
  <2>1. CASE lock
    BY <1>2, <1>4, <1>6, <1>7, <2>1
  <2>2. CASE ~lock /\ stale
    BY <1>2, <1>4, <1>6, <1>7, <2>2
  <2>3. CASE ~lock /\ ~stale
    <3>1. k = account.failed
      BY <1>7, <2>3 DEF ReadBefore
    <3> QED BY <1>2, <1>4, <1>6, <1>7, <2>3, <3>1
  <2> QED BY <2>1, <2>2, <2>3
<1>10. ASSUME ~failures'.overtaken
       PROVE  /\ account'.failed <= failures'.missed
              /\ account'.locked # 0 => failures'.missed >= MaxFailed
  <2>1. ~failures.overtaken /\ task[s].wins = failures.wins
    BY <1>2, <1>10
  <2>2. k <= failures.missed
    BY <1>7, <2>1 DEF ReadBefore
  <2>3. account.locked # 0 => failures.missed >= MaxFailed
    BY <2>1 DEF LatestInv, InTime, LockIsEarned
  <2>4. CASE lock
    BY <1>2, <1>4, <1>6, <1>7, <2>2, <2>4
  <2>5. CASE ~lock
    BY <1>2, <1>4, <1>6, <1>7, <2>2, <2>3, <2>5
  <2> QED BY <2>4, <2>5
<1>11. ASSUME NEW r \in Failing' PROVE ReadBefore(task'[r], failures', account'.failed)
  <2>1. r \in Failing /\ r # s /\ task'[r] = task[r]
    BY <1>1, <1>3, <1>5, <1>11 DEF Failing, Busy, Idle
  <2>2. ReadBefore(task[r], failures, account.failed)
    BY <2>1 DEF LatestInv, InTime
  <2>3. /\ task[r].wins \in Nat /\ task[r].missed \in Nat
        /\ task[r].wins <= failures.wins
        /\ task[r].wins = failures.wins => task[r].missed <= failures.missed
        /\ task[r].wins = failures.wins /\ ~failures.overtaken =>
              task[r].got.failed <= failures.missed
    BY <2>2 DEF ReadBefore
  <2>4. task[r].got.failed \in Nat
    BY <2>1 DEF LatestInv, AccountInv, LockInv, LockAt, Failing
  <2>5. /\ task[r].wins <= failures'.wins
        /\ task[r].wins = failures'.wins => task[r].missed < failures'.missed
    BY <1>2, <1>7, <2>3
  <2>6. task[r].wins = failures'.wins /\ ~failures'.overtaken =>
            task[r].got.failed <= failures'.missed
    BY <1>2, <1>7, <2>3, <2>4
  <2>7. failures'.missed \in Nat
    BY <1>2, <1>7
  <2> QED BY <2>1, <2>3, <2>5, <2>6, <2>7 DEF ReadBefore
<1>12. failures'.overtaken \in BOOLEAN
  BY <1>2
<1> QED BY <1>8, <1>9, <1>10, <1>11, <1>12 DEF InTime, LockInTime, LockIsEarned

LEMMA SuccessLatest ==
    ASSUME LatestInv, NEW s \in Session, CommitSuccess(s)
    PROVE  CountsOK' /\ InTime'
<1> DEFINE t == Answered(task[s], "login_success")
<1>1. /\ At(s, "login", "succeeded") /\ task' = [task EXCEPT ![s] = t]
      /\ UNCHANGED <<begun, audit>> /\ account'.failed = 0 /\ account'.locked = 0
  BY DEF CommitSuccess, ContinueWith, Continue, Answered, LatestInv, AccountInv, LockInv
<1>2. /\ failures'.missed = 0 /\ failures'.chain = 0 /\ ~failures'.overtaken
      /\ failures'.overtaken \in BOOLEAN
      /\ failures'.locks = failures.locks /\ failures'.wins = failures.wins + 1
  BY DEF CommitSuccess, Forgiven
<1>3. s \in Busy /\ s \in Writing /\ s \notin Failing /\ DOMAIN task = Session
  BY <1>1 DEF Busy, At, Failing, Writing, LatestInv, AccountInv, LockInv
<1>4. t.op = task[s].op /\ t.at = "answer"
  <2>1. DOMAIN task[s] = {"op", "at", "on", "got", "seen", "locks", "missed", "wins"}
    BY <1>3 DEF LatestInv, AccountInv, TaskAt
  <2> QED BY <2>1 DEF Answered
<1> HIDE DEF t
<1>5. failures.locks \in Nat /\ failures.missed \in Nat /\ failures.wins \in Nat
  BY DEF LatestInv, AccountInv, LockInv, CountsOK
<1>6. CountsOK'
  <2>1. /\ failures'.missed \in Nat /\ failures'.locks \in Nat /\ failures'.wins \in Nat
        /\ failures'.missed <= failures.missed + 1 /\ failures'.locks <= failures.locks + 1
        /\ failures'.wins <= failures.wins + 1
    BY <1>2, <1>5
  <2> QED BY <1>1, <1>3, <1>4, <2>1, WentOn DEF LatestInv
<1>7. ASSUME NEW r \in Failing' PROVE ReadBefore(task'[r], failures', account'.failed)
  <2>1. r \in Failing /\ r # s /\ task'[r] = task[r]
    BY <1>1, <1>3, <1>4, <1>7 DEF Failing, Busy, Idle
  <2>2. ReadBefore(task[r], failures, account.failed)
    BY <2>1 DEF LatestInv, InTime
  <2>3. task[r].wins \in Nat /\ task[r].missed \in Nat /\ task[r].wins <= failures.wins
    BY <2>2 DEF ReadBefore
  <2>4. task[r].wins <= failures'.wins /\ task[r].wins # failures'.wins
    BY <1>2, <1>5, <2>3
  <2> QED BY <2>1, <2>3, <2>4 DEF ReadBefore
<1> QED BY <1>1, <1>2, <1>6, <1>7, LockAssumption DEF InTime, LockInTime, LockIsEarned

LEMMA EndLatest ==
    ASSUME LatestInv, NEW s \in Busy, End(s), UNCHANGED failures,
           account'.failed = account.failed, account'.locked = account.locked,
           UNCHANGED audit \/ Len(audit') = Len(audit) + 1
    PROVE  CountsOK' /\ InTime'
<1>1. task' = [task EXCEPT ![s] = Nil] /\ UNCHANGED begun /\ s \in Session
  BY DEF End, Busy
<1>2. failures'.missed \in Nat /\ failures'.wins \in Nat /\ failures'.locks \in Nat
  BY DEF LatestInv, CountsOK, AccountInv, LockInv
<1>3. CountsOK'
  BY <1>1, <1>2, WentOn DEF LatestInv
<1>4. InTime'
  BY <1>1, StillInTime DEF LatestInv
<1> QED BY <1>3, <1>4

LEMMA ReadLatest ==
    ASSUME LatestInv, NEW s \in Session, NEW op, NEW at, NEW got, Read(s, op, at, got),
           op = "login" /\ at = "failed" => got.failed = account.failed
    PROVE  CountsOK' /\ InTime'
<1> DEFINE t == [op |-> op, at |-> at, on |-> {"account"}, got |-> got,
                 seen |-> Len(audit), locks |-> failures.locks,
                 missed |-> failures.missed, wins |-> failures.wins]
<1>1. /\ Arrive(s, t) /\ task' = [task EXCEPT ![s] = t]
      /\ UNCHANGED <<account, clock, audit, failures>>
  BY DEF Read, Arrive
<1>2. ASSUME t.op = "login", t.at = "failed" PROVE ReadBefore(t, failures, account.failed)
  <2>1. /\ t.got.failed = account.failed
        /\ t.missed = failures.missed /\ t.wins = failures.wins
    BY <1>2
  <2>2. failures.missed \in Nat /\ failures.wins \in Nat
    BY DEF LatestInv, CountsOK
  <2>3. ~failures.overtaken => account.failed <= failures.missed
    BY DEF LatestInv, InTime, LockIsEarned
  <2> HIDE DEF t
  <2> QED BY <2>1, <2>2, <2>3 DEF ReadBefore
<1> HIDE DEF t
<1>3. CountsOK'
  BY <1>1, Started DEF LatestInv
<1>4. InTime'
  BY <1>1, <1>2, StillInTime DEF LatestInv
<1> QED BY <1>3, <1>4

LEMMA LatestInit == LoginInit => LatestInv
<1> SUFFICES ASSUME LoginInit PROVE LatestInv
  OBVIOUS
<1>1. Busy = {} /\ Failing = {} /\ Writing = {}
  BY DEF LoginInit, InitRequests, Busy, Idle, Failing, Writing
<1>2. Cardinality(Busy) = 0 /\ IsFiniteSet(Busy) /\ Cardinality(Writing) = 0
  BY <1>1, FS_EmptySet
<1>3. /\ account.failed = 0 /\ account.locked = 0 /\ account.password \in Password
      /\ clock = 0 /\ begun = 0 /\ Len(audit) = 0
      /\ failures = [missed |-> 0, chain |-> 0, overtaken |-> FALSE, locks |-> 0, wins |-> 0]
  BY DEF LoginInit, InitRequests
<1>4. CountsOK
  BY <1>2, <1>3, MaxRequestsIsNat DEF CountsOK
<1>5. InTime
  BY <1>1, <1>3, LockAssumption DEF InTime, LockInTime, LockIsEarned
<1> QED BY <1>3, <1>4, <1>5, AccountInit, LockAssumption DEF LatestInv

LEMMA LatestStep ==
    ASSUME LatestInv, [LoginNext]_loginVars
    PROVE  LatestInv'
<1>1. AccountInv'
  BY AccountStep DEF LatestInv
<1>2. CASE UNCHANGED loginVars
  BY <1>1, <1>2 DEF loginVars, requests, LatestInv, CountsOK, InTime, LockInTime, LockIsEarned,
     Failing, Writing, Busy, Idle
<1>3. CASE Tick
  <2>1. /\ clock' = clock + 1 /\ clock < MaxClock
        /\ UNCHANGED <<account, audit, failures, task, begun, raced>>
    BY <1>3 DEF Tick, requests
  <2>2. clock' <= MaxClock
    BY <2>1, LockAssumption DEF LatestInv, AccountInv, LockInv
  <2> QED BY <1>1, <2>1, <2>2 DEF LatestInv, CountsOK, InTime, LockInTime, LockIsEarned, Failing,
             Writing, Busy, Idle
<1>4. ASSUME NEW s \in Session, NEW op, NEW at, NEW got, Read(s, op, at, got),
             op = "login" /\ at = "failed" => got.failed = account.failed
      PROVE  LatestInv'
  <2>1. UNCHANGED <<account, clock>>
    BY <1>4 DEF Read
  <2>2. CountsOK' /\ InTime'
    BY <1>4, ReadLatest
  <2> QED BY <1>1, <2>1, <2>2 DEF LatestInv
<1>5. ASSUME NEW s \in Session, NEW p \in Password,
             ArriveRefused(s, p) \/ ArriveWrong(s, p) \/ ArriveRight(s, p)
      PROVE  LatestInv'
  BY <1>4, <1>5 DEF ArriveRefused, ArriveWrong, ArriveRight
<1>6. ASSUME NEW s \in Session,
             \/ ArriveRefresh(s)
             \/ \E old, new \in Password : ArriveChange(s, old, new)
             \/ \E st \in AccountStatus : ArriveStatus(s, st)
      PROVE  LatestInv'
  BY <1>4, <1>6 DEF ArriveRefresh, ArriveChange, ArriveStatus
<1>7. ASSUME NEW s \in Session, RegisterFailedAttempt(s) PROVE LatestInv'
  <2>1. account'.password = account.password /\ UNCHANGED clock
    BY <1>7 DEF RegisterFailedAttempt, LatestInv, AccountInv, LockInv
  <2>2. CountsOK' /\ InTime'
    BY <1>7, FailureLatest
  <2> QED BY <1>1, <2>1, <2>2 DEF LatestInv
<1>8. ASSUME NEW s \in Session, CommitSuccess(s) PROVE LatestInv'
  <2>1. account'.password = account.password /\ UNCHANGED clock
    BY <1>8 DEF CommitSuccess, LatestInv, AccountInv, LockInv
  <2>2. CountsOK' /\ InTime'
    BY <1>8, SuccessLatest
  <2> QED BY <1>1, <2>1, <2>2 DEF LatestInv
<1>9. ASSUME NEW s \in Busy, End(s), UNCHANGED <<clock, failures>>,
             account'.failed = account.failed, account'.locked = account.locked,
             account'.password \in Password,
             UNCHANGED audit \/ Len(audit') = Len(audit) + 1
      PROVE  LatestInv'
  <2>1. CountsOK' /\ InTime'
    BY <1>9, EndLatest
  <2> QED BY <1>1, <1>9, <2>1 DEF LatestInv
<1>10. ASSUME NEW row, Audited(row) PROVE Len(audit') = Len(audit) + 1
  BY <1>10 DEF Audited, LatestInv, AccountInv
<1>11. ASSUME NEW s \in Session, Answer(s) \/ AnswerRefresh(s) \/ HangUp(s) PROVE LatestInv'
  <2>1. s \in Busy /\ End(s) /\ UNCHANGED <<clock, failures, account>>
    BY <1>11 DEF Answer, AnswerRefresh, HangUp, Busy, At
  <2>2. UNCHANGED audit \/ Len(audit') = Len(audit) + 1
    BY <1>10, <1>11 DEF Answer, AnswerRefresh, HangUp
  <2>3. account'.password \in Password
    BY <2>1 DEF LatestInv
  <2> QED BY <1>9, <2>1, <2>2, <2>3
<1>12. ASSUME NEW s \in Session, CommitChange(s) PROVE LatestInv'
  <2>1. s \in Busy /\ End(s) /\ UNCHANGED <<clock, failures>> /\ Len(audit') = Len(audit) + 1
    BY <1>10, <1>12 DEF CommitChange, Busy, At
  <2>2. task[s].got.new \in Password
    BY <1>12, <2>1 DEF CommitChange, At, LatestInv, AccountInv, TaskAt
  <2>3. /\ account'.failed = account.failed /\ account'.locked = account.locked
        /\ account'.password \in Password
    BY <1>12, <2>2 DEF CommitChange, LatestInv, AccountInv, LockInv
  <2> QED BY <1>9, <2>1, <2>3
<1>13. ASSUME NEW s \in Session, CommitAccountStatus(s) PROVE LatestInv'
  <2>1. s \in Busy /\ End(s) /\ UNCHANGED <<clock, failures>> /\ Len(audit') = Len(audit) + 1
    BY <1>10, <1>13 DEF CommitAccountStatus, Busy, At
  <2>2. /\ account'.failed = account.failed /\ account'.locked = account.locked
        /\ account'.password \in Password
    BY <1>13 DEF CommitAccountStatus, LatestInv, AccountInv, LockInv
  <2> QED BY <1>9, <2>1, <2>2
<1> QED BY <1>2, <1>3, <1>5, <1>6, <1>7, <1>8, <1>11, <1>12, <1>13 DEF LoginNext

\* README.md:62-63 "Account lockout after 5 failed attempts": of any number of requests
\* at a time, for every number of failures that locks and every time a lockout lasts,
\* that many failures one after the other lock the account (auth_service.py:62-66),
\* and fewer since the last success do not, unless a failure that had read the row
\* before that success was written after it.
THEOREM LockoutInTime == LoginSpec => []LockoutInv
<1>1. LatestInv => LockoutInv
  <2> SUFFICES ASSUME LatestInv PROVE LockoutInv
    OBVIOUS
  <2>1. /\ account.status \in AccountStatus /\ account.failed \in Nat
        /\ account.locked \in Nat /\ account.locked <= clock + LockTime
        /\ account = [status |-> account.status, failed |-> account.failed,
                      locked |-> account.locked, password |-> account.password]
        /\ Counts(failures)
        /\ clock \in Nat /\ clock <= MaxClock /\ failures.locks \in Nat /\ Len(audit) \in Nat
        /\ account.password \in Password
    BY DEF LatestInv, AccountInv, LockInv
  <2>2. account.locked \in 0..(MaxClock + LockTime) /\ clock \in 0..MaxClock
    BY <2>1, LockAssumption
  <2>3. account \in AccountRow
    BY <2>1, <2>2 DEF AccountRow
  <2>4. Cardinality(Busy) \in Nat /\ Cardinality(Writing) \in Nat
    BY FS_CardinalityType, FS_Subset DEF LatestInv, CountsOK, Writing
  <2>5. /\ Len(audit) + Cardinality(Busy) <= begun /\ begun \in 0..MaxRequests
        /\ failures.missed \in Nat /\ failures.wins \in Nat /\ failures.locks \in Nat
        /\ failures.missed + Cardinality(Writing) <= begun
        /\ failures.locks + Cardinality(Writing) <= begun
        /\ failures.wins + Cardinality(Writing) <= begun
    BY <2>1 DEF LatestInv, CountsOK
  <2>6. \A a \in Nat : a + Cardinality(Writing) <= begun => a \in 0..MaxRequests
    BY <2>4, <2>5, MaxRequestsIsNat
  <2>7. /\ Len(audit) <= begun /\ begun \in 0..MaxRequests
        /\ failures.missed \in 0..MaxRequests /\ failures.wins \in 0..MaxRequests
        /\ failures.locks \in 0..MaxRequests
    BY <2>1, <2>4, <2>5, <2>6, MaxRequestsIsNat
  <2>8. failures.chain \in 0..MaxRequests /\ failures.overtaken \in BOOLEAN
    BY <2>7, MaxRequestsIsNat DEF LatestInv, InTime
  <2>9. failures \in [missed : 0..MaxRequests, chain : 0..MaxRequests, overtaken : BOOLEAN,
                      locks : 0..MaxRequests, wins : 0..MaxRequests]
    BY <2>1, <2>7, <2>8 DEF Counts
  <2>10. LoginTypeOK
    BY <2>2, <2>3, <2>7, <2>9 DEF LoginTypeOK
  <2> QED BY <2>10 DEF LatestInv, InTime, LockoutInv
<1>2. LatestInv /\ [LoginNext]_loginVars => LatestInv'
  BY LatestStep
<1> QED BY <1>1, <1>2, LatestInit, PTL DEF LoginSpec

-----------------------------------------------------------------------------
(***************************************************************************)
(* Roles                                                                   *)
(***************************************************************************)
\* What the task of each handler holds.  The tables are parameters, so that the
\* predicates speak of either end of a step.
ActiveChange == BOOLEAN \cup {Nil}

SeedOK(t, rs) ==
    /\ t.on = {<<"role", r>> : r \in DOMAIN Default}
    /\ t.got.found \subseteq DOMAIN rs
    /\ DOMAIN t.got.missing \subseteq DOMAIN Default
    /\ \A r \in DOMAIN t.got.missing : t.got.missing[r] \subseteq Default[r]
    /\ t.at = "commit" => DOMAIN t.got.missing = DOMAIN Default

TaskOK(t, us, rs, n) ==
    /\ DOMAIN t = {"op", "at", "by", "seen", "on", "got"}
    /\ t.seen \in 0..n
    /\ t.op \in DOMAIN Needs \cup {"seed"}
    /\ t.op = "seed" => SeedOK(t, rs)
    /\ t.op # "seed" => t.by \in DOMAIN us /\ <<"user", t.by>> \in t.on
    /\ t.op = "create_user" =>
          /\ t.got.name \in Identifier /\ t.got.email \in Identifier
          /\ t.got.grants \subseteq RoleNames \X Scope
    /\ t.op \in {"deactivate", "update_user"} =>
          /\ t.got.user \in DOMAIN us /\ <<"user", t.got.user>> \in t.on
          /\ t.got.new \in UserStatus
    /\ t.op \in {"assign", "revoke"} =>
          /\ t.got.user \in DOMAIN us /\ <<"user", t.got.user>> \in t.on
          /\ t.got.role \in DOMAIN rs
    /\ t.op = "assign" => t.got.scope \in Scope
    /\ t.op = "revoke" => \A l \in t.got.read : l.user = t.got.user
    /\ t.op \in {"create_role", "update_role"} => <<"role", t.got.role>> \in t.on
    /\ t.op = "create_role" => t.got.role \in RoleNames /\ t.got.codes \subseteq Permission
    /\ t.op = "update_role" =>
          /\ t.got.role \in DOMAIN rs
          /\ t.got.codes = Nil \/ t.got.codes \subseteq Permission
          /\ t.got.active \in ActiveChange

\* An entry of the history is about users and roles there are.
EntryOK(h, us, rs) ==
    /\ h.op \in {"create_user", "deactivate", "update_user", "assign", "revoke"} =>
          h.what.user \in DOMAIN us
    /\ h.op = "create_user" => h.what.roles \subseteq DOMAIN rs
    /\ h.op \in {"assign", "revoke", "create_role", "update_role"} => h.what.role \in DOMAIN rs

\* Two requests are about one object only when it counts as raced.
RacedOK ==
    \A r, s \in Session :
        r # s /\ ~Idle(r) /\ ~Idle(s) => task[r].on \cap task[s].on \subseteq raced

RolesInv ==
    /\ TypeOK
    /\ DOMAIN task = Session
    /\ \A s \in Session : ~Idle(s) => TaskOK(task[s], users, roles, Len(history))
    /\ RacedOK
    /\ Sequence(history)
    /\ \A k \in 1..Len(history) : EntryOK(history[k], users, roles)

-----------------------------------------------------------------------------

\* Users and roles are never deleted.
Grew ==
    /\ DOMAIN users \subseteq DOMAIN users'
    /\ DOMAIN roles \subseteq DOMAIN roles'
    /\ Len(history) \in Nat /\ Len(history') \in Nat /\ Len(history) <= Len(history')

LEMMA TaskStays ==
    ASSUME Grew, NEW t, TaskOK(t, users, roles, Len(history))
    PROVE  TaskOK(t, users', roles', Len(history'))
<1>1. t.seen \in 0..Len(history')
  BY DEF Grew, TaskOK
<1>2. SeedOK(t, roles) => SeedOK(t, roles')
  BY DEF Grew, SeedOK
<1> QED BY <1>1, <1>2 DEF Grew, TaskOK

LEMMA EntryStays ==
    ASSUME Grew, NEW h, EntryOK(h, users, roles)
    PROVE  EntryOK(h, users', roles')
BY DEF Grew, EntryOK

LEMMA RolesInit == Init => RolesInv
<1> SUFFICES ASSUME Init PROVE RolesInv
  OBVIOUS
<1>1. TypeOK
  BY WorldsAssumption, MaxRequestsIsNat DEF Init, InitRequests, TypeOK
<1>2. DOMAIN task = Session /\ \A s \in Session : Idle(s)
  BY DEF Init, InitRequests, Idle
<1>3. history \in Seq({}) /\ Len(history) = 0
  BY DEF Init
<1>4. Sequence(history)
  BY <1>3, SeqOfItself
<1> QED BY <1>1, <1>2, <1>3, <1>4 DEF RolesInv, RacedOK

\* Every request arrives with a task.
LEMMA ArriveSafe ==
    ASSUME RolesInv, NEW s \in Session, NEW t, Arrive(s, t), UNCHANGED tables,
           TaskOK(t, users, roles, Len(history))
    PROVE  RolesInv'
<1>1. UNCHANGED <<users, roles, links, history>>
  BY DEF tables
<1>2. begun' \in 0..MaxRequests
  BY MaxRequestsIsNat DEF RolesInv, TypeOK, Arrive
<1>3. TypeOK'
  BY <1>1, <1>2 DEF RolesInv, TypeOK
<1>4. /\ task' = [task EXCEPT ![s] = t]
      /\ raced' = raced \cup UNION {t.on \cap task[r].on : r \in Busy}
  BY DEF Arrive
<1>5. DOMAIN task' = Session /\ task'[s] = t /\ \A r \in Session \ {s} : task'[r] = task[r]
  BY <1>4 DEF RolesInv
<1>6. ASSUME NEW r \in Session, task'[r] # Nil
      PROVE  TaskOK(task'[r], users, roles, Len(history))
  BY <1>5, <1>6 DEF RolesInv, Idle
<1>7. RacedOK'
  <2> SUFFICES ASSUME NEW q \in Session, NEW r \in Session, q # r,
                      task'[q] # Nil, task'[r] # Nil, NEW x \in task'[q].on \cap task'[r].on
               PROVE  x \in raced'
    BY DEF RacedOK, Idle
  <2>1. CASE q # s /\ r # s
    BY <1>4, <1>5, <2>1 DEF RolesInv, RacedOK, Idle
  <2>2. CASE q = s
    BY <1>4, <1>5, <2>2 DEF Busy, Idle
  <2>3. CASE r = s
    BY <1>4, <1>5, <2>3 DEF Busy, Idle
  <2> QED BY <2>1, <2>2, <2>3
<1> QED BY <1>1, <1>3, <1>5, <1>6, <1>7 DEF RolesInv, Idle

\* The end of a request that leaves the tables right.
LEMMA EndSafe ==
    ASSUME RolesInv, NEW s \in Session, End(s), Grew, TypeOK', Sequence(history'),
           \A k \in 1..Len(history') : EntryOK(history'[k], users', roles')
    PROVE  RolesInv'
<1>1. task' = [task EXCEPT ![s] = Nil] /\ raced' = raced
  BY DEF End
<1>2. DOMAIN task' = Session /\ task'[s] = Nil /\ \A r \in Session \ {s} : task'[r] = task[r]
  BY <1>1 DEF RolesInv
<1>3. ASSUME NEW r \in Session, task'[r] # Nil
      PROVE  TaskOK(task'[r], users', roles', Len(history'))
  <2>1. task'[r] = task[r] /\ TaskOK(task[r], users, roles, Len(history))
    BY <1>2, <1>3 DEF RolesInv, Idle
  <2> QED BY <2>1, TaskStays
<1>4. RacedOK'
  BY <1>1, <1>2 DEF RolesInv, RacedOK, Idle
<1> QED BY <1>2, <1>3, <1>4 DEF RolesInv, Idle

\* A request that ends without a trace.
LEMMA RefusedSafe ==
    ASSUME RolesInv, NEW s \in Session, Refused(s)
    PROVE  RolesInv'
<1>1. UNCHANGED <<users, roles, links, history>> /\ End(s)
  BY DEF Refused, tables
<1>2. TypeOK'
  BY <1>1 DEF RolesInv, TypeOK, End
<1>3. Len(history) \in Nat
  <2>1. Sequence(history)
    BY DEF RolesInv
  <2> QED BY <2>1 DEF Sequence
<1> QED BY <1>1, <1>2, <1>3, EndSafe DEF RolesInv, Grew

-----------------------------------------------------------------------------
\* The arrivals.

LEMMA HistoryLength ==
    ASSUME RolesInv
    PROVE  Len(history) \in Nat /\ DOMAIN history = 1..Len(history)
<1>1. Sequence(history)
  BY DEF RolesInv
<1> QED BY <1>1 DEF Sequence

NewTask(u, op, got, on) ==
    [op |-> op, at |-> "commit", by |-> u, seen |-> Len(history),
     on |-> on \cup {<<"user", u>>}, got |-> got]

\* What a task must hold beyond the fields that ArriveBy fills in.
GotOK(op, got, on) ==
    /\ op \in DOMAIN Needs
    /\ op = "create_user" =>
          /\ got.name \in Identifier /\ got.email \in Identifier
          /\ got.grants \subseteq RoleNames \X Scope
    /\ op \in {"deactivate", "update_user"} =>
          /\ got.user \in DOMAIN users /\ <<"user", got.user>> \in on
          /\ got.new \in UserStatus
    /\ op \in {"assign", "revoke"} =>
          /\ got.user \in DOMAIN users /\ <<"user", got.user>> \in on
          /\ got.role \in DOMAIN roles
    /\ op = "assign" => got.scope \in Scope
    /\ op = "revoke" => \A l \in got.read : l.user = got.user
    /\ op \in {"create_role", "update_role"} => <<"role", got.role>> \in on
    /\ op = "create_role" => got.role \in RoleNames /\ got.codes \subseteq Permission
    /\ op = "update_role" =>
          /\ got.role \in DOMAIN roles
          /\ got.codes = Nil \/ got.codes \subseteq Permission
          /\ got.active \in ActiveChange

LEMMA ArriveBySafe ==
    ASSUME RolesInv, NEW s \in Session, NEW u \in DOMAIN users, NEW op, NEW got, NEW on,
           ArriveBy(s, u, op, got, on), GotOK(op, got, on), UNCHANGED tables
    PROVE  RolesInv'
<1> DEFINE t == NewTask(u, op, got, on)
<1>1. Arrive(s, t)
  BY DEF ArriveBy, NewTask
<1>2. op # "seed" /\ op \in DOMAIN Needs
  BY DEF GotOK, Needs
<1>3. /\ t.op = op /\ t.at = "commit" /\ t.by = u /\ t.seen = Len(history) /\ t.got = got
      /\ t.on = on \cup {<<"user", u>>} /\ DOMAIN t = {"op", "at", "by", "seen", "on", "got"}
  BY DEF NewTask
<1> HIDE DEF t
<1>4. t.seen \in 0..Len(history)
  BY <1>3, HistoryLength
<1>5. TaskOK(t, users, roles, Len(history))
  BY <1>2, <1>3, <1>4 DEF TaskOK, GotOK
<1> QED BY <1>1, <1>5, ArriveSafe

\* The conditions of every handler but the seed's, as one.
Arriving(s) ==
    \E u \in DOMAIN users :
          \/ \E a \in NewAccounts : ArriveCreateUser(s, u, a[1], a[2], a[3])
          \/ \E v \in DOMAIN users :
                \/ ArriveDeactivate(s, u, v)
                \/ \E st \in UserStatus : ArriveUpdateUser(s, u, v, st)
                \/ \E g \in Grants : ArriveAssign(s, u, v, g[1], g[2])
                \/ \E r \in DOMAIN roles : ArriveRevoke(s, u, v, r)
          \/ \E r \in RoleNames, codes \in CodeSets : ArriveCreateRole(s, u, r, codes)
          \/ \E r \in DOMAIN roles, c \in RoleChanges : ArriveUpdateRole(s, u, r, c[1], c[2])

\* What a request has found out when it arrives, of tables that may change later.
Found(op, got) ==
    /\ op \in {"deactivate", "update_user"} => got.loaded = users[got.user].status
    /\ op = "revoke" => got.read = {l \in links : l.user = got.user /\ l.role = got.role}
    /\ op = "update_role" => got.read = roles[got.role].codes

LEMMA Arrivals ==
    ASSUME RolesInv, NEW s \in Session, Arriving(s)
    PROVE  \E u \in DOMAIN users : \E op, got, on :
              /\ ArriveBy(s, u, op, got, on) /\ UNCHANGED tables
              /\ GotOK(op, got, on) /\ Found(op, got)
<1> DEFINE Goal(u, op, got, on) == /\ ArriveBy(s, u, op, got, on) /\ UNCHANGED tables
                                   /\ GotOK(op, got, on) /\ Found(op, got)
<1> SUFFICES \E u \in DOMAIN users : \E op, got, on : Goal(u, op, got, on)
  OBVIOUS
<1>0. PICK u \in DOMAIN users :
          \/ \E a \in NewAccounts : ArriveCreateUser(s, u, a[1], a[2], a[3])
          \/ \E v \in DOMAIN users :
                \/ ArriveDeactivate(s, u, v)
                \/ \E st \in UserStatus : ArriveUpdateUser(s, u, v, st)
                \/ \E g \in Grants : ArriveAssign(s, u, v, g[1], g[2])
                \/ \E r \in DOMAIN roles : ArriveRevoke(s, u, v, r)
          \/ \E r \in RoleNames, codes \in CodeSets : ArriveCreateRole(s, u, r, codes)
          \/ \E r \in DOMAIN roles, c \in RoleChanges : ArriveUpdateRole(s, u, r, c[1], c[2])
  BY DEF Arriving
<1>1. ASSUME NEW a \in NewAccounts, ArriveCreateUser(s, u, a[1], a[2], a[3])
      PROVE  \E op, got, on : Goal(u, op, got, on)
  <2> DEFINE got == [name |-> a[1], email |-> a[2], grants |-> a[3]]
  <2>1. a[1] \in Identifier /\ a[2] \in Identifier /\ a[3] \subseteq RoleNames \X Scope
    BY PayloadsAssumption
  <2>2. ArriveBy(s, u, "create_user", got, {}) /\ UNCHANGED tables
    BY <1>1 DEF ArriveCreateUser
  <2>3. GotOK("create_user", got, {}) /\ Found("create_user", got)
    BY <2>1 DEF GotOK, Found, Needs
  <2> HIDE DEF got
  <2> QED BY <2>2, <2>3
<1>2. ASSUME NEW v \in DOMAIN users, ArriveDeactivate(s, u, v)
      PROVE  \E op, got, on : Goal(u, op, got, on)
  <2> DEFINE got == [user |-> v, loaded |-> users[v].status, new |-> "inactive"]
  <2>2. ArriveBy(s, u, "deactivate", got, {<<"user", v>>}) /\ UNCHANGED tables
    BY <1>2 DEF ArriveDeactivate
  <2>3. GotOK("deactivate", got, {<<"user", v>>}) /\ Found("deactivate", got)
    BY DEF GotOK, Found, Needs, UserStatus
  <2> HIDE DEF got
  <2> QED BY <2>2, <2>3
<1>3. ASSUME NEW v \in DOMAIN users, NEW st \in UserStatus, ArriveUpdateUser(s, u, v, st)
      PROVE  \E op, got, on : Goal(u, op, got, on)
  <2> DEFINE got == [user |-> v, loaded |-> users[v].status, new |-> st]
  <2>2. ArriveBy(s, u, "update_user", got, {<<"user", v>>}) /\ UNCHANGED tables
    BY <1>3 DEF ArriveUpdateUser
  <2>3. GotOK("update_user", got, {<<"user", v>>}) /\ Found("update_user", got)
    BY DEF GotOK, Found, Needs
  <2> HIDE DEF got
  <2> QED BY <2>2, <2>3
<1>4. ASSUME NEW v \in DOMAIN users, NEW g \in Grants, ArriveAssign(s, u, v, g[1], g[2])
      PROVE  \E op, got, on : Goal(u, op, got, on)
  <2> DEFINE got == [user |-> v, role |-> g[1], scope |-> g[2]]
  <2>1. g[2] \in Scope
    BY PayloadsAssumption DEF Scope
  <2>2. /\ ArriveBy(s, u, "assign", got, {<<"user", v>>}) /\ UNCHANGED tables
        /\ g[1] \in DOMAIN roles
    BY <1>4 DEF ArriveAssign
  <2>3. GotOK("assign", got, {<<"user", v>>}) /\ Found("assign", got)
    BY <2>1, <2>2 DEF GotOK, Found, Needs
  <2> HIDE DEF got
  <2> QED BY <2>2, <2>3
<1>5. ASSUME NEW v \in DOMAIN users, NEW r \in DOMAIN roles, ArriveRevoke(s, u, v, r)
      PROVE  \E op, got, on : Goal(u, op, got, on)
  <2> DEFINE found == {l \in links : l.user = v /\ l.role = r}
             got == [user |-> v, role |-> r, read |-> found]
  <2>2. ArriveBy(s, u, "revoke", got, {<<"user", v>>}) /\ UNCHANGED tables
    BY <1>5 DEF ArriveRevoke
  <2>3. GotOK("revoke", got, {<<"user", v>>}) /\ Found("revoke", got)
    BY DEF GotOK, Found, Needs
  <2> HIDE DEF got
  <2> QED BY <2>2, <2>3
<1>6. ASSUME NEW r \in RoleNames, NEW codes \in CodeSets, ArriveCreateRole(s, u, r, codes)
      PROVE  \E op, got, on : Goal(u, op, got, on)
  <2> DEFINE got == [role |-> r, codes |-> codes]
  <2>1. codes \subseteq Permission
    BY PayloadsAssumption
  <2>2. ArriveBy(s, u, "create_role", got, {<<"role", r>>}) /\ UNCHANGED tables
    BY <1>6 DEF ArriveCreateRole
  <2>3. GotOK("create_role", got, {<<"role", r>>}) /\ Found("create_role", got)
    BY <2>1 DEF GotOK, Found, Needs
  <2> HIDE DEF got
  <2> QED BY <2>2, <2>3
<1>7. ASSUME NEW r \in DOMAIN roles, NEW c \in RoleChanges, ArriveUpdateRole(s, u, r, c[1], c[2])
      PROVE  \E op, got, on : Goal(u, op, got, on)
  <2> DEFINE got == [role |-> r, codes |-> c[1], read |-> roles[r].codes,
                     loaded |-> roles[r].active, active |-> c[2]]
  <2>1. c[1] \in (SUBSET Permission) \cup {Nil} /\ c[2] \in ActiveChange
    BY PayloadsAssumption DEF ActiveChange
  <2>2. ArriveBy(s, u, "update_role", got, {<<"role", r>>}) /\ UNCHANGED tables
    BY <1>7 DEF ArriveUpdateRole
  <2>3. got.role = r /\ got.codes = c[1] /\ got.read = roles[r].codes
    OBVIOUS
  <2>4. got.active \in ActiveChange
    <3>1. got.active = c[2]
      BY Zenon
    <3> QED BY <2>1, <3>1, Zenon
  <2> HIDE DEF got
  <2>5. got.codes = Nil \/ got.codes \subseteq Permission
    BY <2>1, <2>3
  <2>6. <<"role", got.role>> \in {<<"role", r>>} /\ got.role \in DOMAIN roles
    BY <2>3
  <2>7. GotOK("update_role", got, {<<"role", r>>})
    BY <2>4, <2>5, <2>6 DEF GotOK, Needs
  <2>8. Found("update_role", got)
    BY <2>3 DEF Found
  <2> QED BY <2>2, <2>7, <2>8
<1> QED BY <1>0, <1>1, <1>2, <1>3, <1>4, <1>5, <1>6, <1>7

SeedTask ==
    [op |-> "seed", at |-> "links", by |-> Nil, seen |-> Len(history),
     on |-> {<<"role", r>> : r \in DOMAIN Default},
     got |-> [found |-> DOMAIN roles, missing |-> << >>]]

LEMMA ArriveSeedSafe ==
    ASSUME RolesInv, NEW s \in Session, ArriveSeed(s)
    PROVE  RolesInv'
<1> DEFINE t == SeedTask
<1>1. Arrive(s, t) /\ UNCHANGED tables
  BY DEF ArriveSeed, SeedTask
<1>2. /\ t.op = "seed" /\ t.at = "links" /\ t.seen = Len(history)
      /\ t.on = {<<"role", r>> : r \in DOMAIN Default} /\ t.got.missing = << >>
      /\ t.got.found = DOMAIN roles /\ DOMAIN t = {"op", "at", "by", "seen", "on", "got"}
  BY DEF SeedTask
<1> HIDE DEF t
<1>3. SeedOK(t, roles)
  BY <1>2 DEF SeedOK
<1>4. t.seen \in 0..Len(history)
  BY <1>2, HistoryLength
<1>5. TaskOK(t, users, roles, Len(history))
  BY <1>2, <1>3, <1>4 DEF TaskOK
<1> QED BY <1>1, <1>5, ArriveSafe

-----------------------------------------------------------------------------
\* The commits.

Entry(s, what) == [by |-> task[s].by, op |-> task[s].op, what |-> what]

\* What a commit of a request about the objects on leaves alone.
StaysBut(on) ==
    /\ \A u \in DOMAIN users :
          u \in DOMAIN users' /\ (<<"user", u>> \in on \/ users'[u] = users[u])
    /\ \A r \in DOMAIN roles :
          r \in DOMAIN roles' /\ (<<"role", r>> \in on \/ roles'[r] = roles[r])
    /\ \A r \in DOMAIN roles' : r \in DOMAIN roles \/ <<"role", r>> \in on
    /\ \A l \in links \cup links' :
          \/ l.user \notin DOMAIN users \/ <<"user", l.user>> \in on
          \/ l \in links /\ l \in links'

\* What is common to the commits.
Committed(s, h) ==
    /\ End(s) /\ TypeOK' /\ StaysBut(task[s].on)
    /\ More(history', history, h) /\ EntryOK(h, users', roles')

LEMMA CommitSafe ==
    ASSUME RolesInv, NEW s \in Session, NEW h, Committed(s, h)
    PROVE  RolesInv'
<1>1. Sequence(history) /\ More(history', history, h)
  BY DEF RolesInv, Committed
<1>2. /\ Sequence(history') /\ Len(history) \in Nat /\ Len(history') = Len(history) + 1
      /\ history'[Len(history) + 1] = h
      /\ \A c \in 1..Len(history) : history'[c] = history[c]
  BY <1>1, OneMore
<1>3. Grew
  <2>1. DOMAIN users \subseteq DOMAIN users' /\ DOMAIN roles \subseteq DOMAIN roles'
    BY DEF Committed, StaysBut
  <2> QED BY <1>2, <2>1 DEF Grew
<1>4. ASSUME NEW k \in 1..Len(history') PROVE EntryOK(history'[k], users', roles')
  <2>1. CASE k = Len(history) + 1
    BY <1>2, <2>1 DEF Committed
  <2>2. CASE k \in 1..Len(history)
    BY <1>2, <1>3, <2>2, EntryStays DEF RolesInv
  <2> QED BY <1>2, <2>1, <2>2
<1> QED BY <1>2, <1>3, <1>4, EndSafe DEF Committed

LEMMA UserRows ==
    ASSUME RolesInv, NEW row \in UserRow
    PROVE  LET us == Append(users, row) IN
           /\ us \in Seq(UserRow) /\ Len(users) \in Nat
           /\ DOMAIN users = 1..Len(users) /\ DOMAIN us = 1..(Len(users) + 1)
           /\ us[Len(users) + 1] = row /\ \A u \in DOMAIN users : us[u] = users[u]
BY DEF RolesInv, TypeOK

\* The new user and the links of the roles granted.
GrantedTo(s) ==
    {[id |-> Len(history) + 1, user |-> Len(users) + 1, role |-> g[1], scope |-> g[2]] :
        g \in task[s].got.grants}

CreateUserEntry(s) ==
    Entry(s, [user |-> Len(users) + 1, roles |-> {g[1] : g \in task[s].got.grants}])

LEMMA CreateUserEffect ==
    ASSUME RolesInv, NEW s \in Session, CommitCreateUser(s)
    PROVE  \/ Refused(s)
           \/ /\ Committed(s, CreateUserEntry(s)) /\ task[s].op = "create_user"
              /\ links' = links \cup GrantedTo(s) /\ roles' = roles
              /\ DOMAIN users' = DOMAIN users \cup {Len(users) + 1}
              /\ Len(users) + 1 \notin DOMAIN users
              /\ \A u \in DOMAIN users : users'[u] = users[u]
<1> DEFINE t == task[s].got
           new == Len(users) + 1
           granted == {g[1] : g \in t.grants}
           row == [username |-> t.name, email |-> t.email, status |-> "active"]
<1> SUFFICES ASSUME ~Refused(s)
             PROVE  /\ Committed(s, CreateUserEntry(s)) /\ task[s].op = "create_user"
                    /\ links' = links \cup GrantedTo(s) /\ roles' = roles
                    /\ DOMAIN users' = DOMAIN users \cup {Len(users) + 1}
                    /\ Len(users) + 1 \notin DOMAIN users
                    /\ \A u \in DOMAIN users : users'[u] = users[u]
  OBVIOUS
<1>1. /\ granted \subseteq DOMAIN roles /\ users' = Append(users, row)
      /\ links' = links \cup GrantedTo(s) /\ roles' = roles
      /\ history' = Append(history, CreateUserEntry(s)) /\ End(s)
      /\ task[s].op = "create_user"
  BY DEF CommitCreateUser, GrantedTo, CreateUserEntry, Entry, Record, At
<1>2. TaskOK(task[s], users, roles, Len(history))
  BY DEF RolesInv, CommitCreateUser, At, Idle
<1>3. t.name \in Identifier /\ t.email \in Identifier /\ t.grants \subseteq RoleNames \X Scope
  BY <1>1, <1>2 DEF TaskOK
<1>4. row \in UserRow
  BY <1>3 DEF UserRow, UserStatus
<1> HIDE DEF row
<1>5. /\ users' \in Seq(UserRow) /\ Len(users) \in Nat
      /\ DOMAIN users = 1..Len(users) /\ DOMAIN users' = 1..new
      /\ \A u \in DOMAIN users : users'[u] = users[u]
  BY <1>1, <1>4, UserRows
<1>6. ASSUME NEW l \in GrantedTo(s)
      PROVE  l \in UserRoleRow /\ l.user = new /\ l.role \in DOMAIN roles
  <2>1. PICK g \in t.grants :
            l = [id |-> Len(history) + 1, user |-> new, role |-> g[1], scope |-> g[2]]
    BY <1>6 DEF GrantedTo
  <2>2. g[1] \in RoleNames /\ g[2] \in Scope /\ g[1] \in DOMAIN roles
    BY <1>1, <1>3
  <2>3. Len(history) + 1 \in Int /\ new \in Nat \ {0}
    BY <1>5, HistoryLength
  <2> QED BY <2>1, <2>2, <2>3 DEF UserRoleRow
<1>7. TypeOK'
  <2>1. \A l \in links' : l.user \in DOMAIN users' /\ l.role \in DOMAIN roles'
    BY <1>1, <1>5, <1>6 DEF RolesInv, TypeOK
  <2>2. links' \subseteq UserRoleRow
    BY <1>1, <1>6 DEF RolesInv, TypeOK
  <2>3. begun' = begun
    BY <1>1 DEF End
  <2> QED BY <1>1, <1>5, <2>1, <2>2, <2>3 DEF RolesInv, TypeOK
<1>8. DOMAIN users' = DOMAIN users \cup {new} /\ new \notin DOMAIN users
  BY <1>5
<1>9. StaysBut(task[s].on)
  BY <1>1, <1>5, <1>6, <1>8 DEF StaysBut
<1>10. EntryOK(CreateUserEntry(s), users', roles')
  <2>1. /\ CreateUserEntry(s).op = "create_user" /\ CreateUserEntry(s).what.user = new
        /\ CreateUserEntry(s).what.roles = granted
    BY <1>1 DEF CreateUserEntry, Entry
  <2> QED BY <1>1, <1>8, <2>1 DEF EntryOK
<1> QED BY <1>1, <1>5, <1>7, <1>8, <1>9, <1>10 DEF Committed, More

StatusEntry(s) == Entry(s, [user |-> task[s].got.user, status |-> task[s].got.new])

LEMMA StatusEffect ==
    ASSUME RolesInv, NEW s \in Session, CommitStatus(s)
    PROVE  LET t == task[s].got IN
           /\ Committed(s, StatusEntry(s)) /\ task[s].op \in {"deactivate", "update_user"}
           /\ links' = links /\ roles' = roles /\ DOMAIN users' = DOMAIN users
           /\ t.user \in DOMAIN users /\ <<"user", t.user>> \in task[s].on
           /\ \A u \in DOMAIN users \ {t.user} : users'[u] = users[u]
           /\ users'[t.user].status = Assigned(t.loaded, t.new, users[t.user].status)
<1> DEFINE t == task[s].got
           k == t.user
           st == Assigned(t.loaded, t.new, users[k].status)
<1>1. /\ users' = [users EXCEPT ![k].status = st]
      /\ links' = links /\ roles' = roles
      /\ history' = Append(history, StatusEntry(s)) /\ End(s)
      /\ task[s].op \in {"deactivate", "update_user"} /\ ~Idle(s)
  BY DEF CommitStatus, StatusEntry, Entry, Record, At
<1>2. TaskOK(task[s], users, roles, Len(history))
  BY <1>1 DEF RolesInv
<1>3. k \in DOMAIN users /\ <<"user", k>> \in task[s].on /\ t.new \in UserStatus
  BY <1>1, <1>2 DEF TaskOK
<1>4. users \in Seq(UserRow) /\ users[k] \in UserRow
  BY <1>3 DEF RolesInv, TypeOK
<1>5. st \in UserStatus
  BY <1>3, <1>4 DEF Assigned, UserRow
<1> HIDE DEF st, k
<1>6. [users[k] EXCEPT !.status = st] \in UserRow
  BY <1>4, <1>5 DEF UserRow
<1>7. /\ users' \in Seq(UserRow) /\ DOMAIN users' = DOMAIN users
      /\ \A u \in DOMAIN users \ {k} : users'[u] = users[u]
      /\ users'[k] = [users[k] EXCEPT !.status = st]
  BY <1>1, <1>3, <1>4, <1>6
<1>8. users'[k].status = st
  BY <1>4, <1>7 DEF UserRow
<1>9. TypeOK'
  <2>1. begun' = begun
    BY <1>1 DEF End
  <2> QED BY <1>1, <1>7, <2>1 DEF RolesInv, TypeOK
<1>10. StaysBut(task[s].on)
  BY <1>1, <1>3, <1>7 DEF StaysBut
<1>11. EntryOK(StatusEntry(s), users', roles')
  <2>1. StatusEntry(s).op = task[s].op /\ StatusEntry(s).what.user = k
    BY DEF StatusEntry, Entry, k
  <2> QED BY <1>1, <1>3, <1>7, <2>1 DEF EntryOK
<1> QED BY <1>1, <1>3, <1>7, <1>8, <1>9, <1>10, <1>11 DEF Committed, More, st, k

NewLink(s) ==
    [id |-> Len(history) + 1, user |-> task[s].got.user, role |-> task[s].got.role,
     scope |-> task[s].got.scope]

RoleEntry(s) == Entry(s, [user |-> task[s].got.user, role |-> task[s].got.role])

LEMMA AssignEffect ==
    ASSUME RolesInv, NEW s \in Session, CommitAssign(s)
    PROVE  \/ Refused(s)
           \/ /\ Committed(s, RoleEntry(s)) /\ task[s].op = "assign"
              /\ links' = links \cup {NewLink(s)} /\ users' = users /\ roles' = roles
<1> DEFINE t == task[s].got
<1> SUFFICES ASSUME ~Refused(s)
             PROVE  /\ Committed(s, RoleEntry(s)) /\ task[s].op = "assign"
                    /\ links' = links \cup {NewLink(s)} /\ users' = users /\ roles' = roles
  OBVIOUS
<1>1. /\ links' = links \cup {NewLink(s)} /\ users' = users /\ roles' = roles
      /\ history' = Append(history, RoleEntry(s)) /\ End(s)
      /\ task[s].op = "assign" /\ ~Idle(s)
  BY DEF CommitAssign, RoleEntry, NewLink, Entry, Record, At
<1>2. TaskOK(task[s], users, roles, Len(history))
  BY <1>1 DEF RolesInv
<1>3. /\ t.user \in DOMAIN users /\ <<"user", t.user>> \in task[s].on
      /\ t.role \in DOMAIN roles /\ t.scope \in Scope
  BY <1>1, <1>2 DEF TaskOK
<1>4. NewLink(s) \in UserRoleRow /\ NewLink(s).user = t.user /\ NewLink(s).role = t.role
  <2>1. t.user \in Nat \ {0} /\ t.role \in RoleNames /\ Len(history) + 1 \in Int
    BY <1>3, HistoryLength DEF RolesInv, TypeOK
  <2> QED BY <1>3, <2>1 DEF NewLink, UserRoleRow
<1>5. TypeOK'
  <2>1. begun' = begun
    BY <1>1 DEF End
  <2> QED BY <1>1, <1>3, <1>4, <2>1 DEF RolesInv, TypeOK
<1>6. StaysBut(task[s].on)
  BY <1>1, <1>3, <1>4 DEF StaysBut
<1>7. EntryOK(RoleEntry(s), users', roles')
  <2>1. /\ RoleEntry(s).op = task[s].op /\ RoleEntry(s).what.user = t.user
        /\ RoleEntry(s).what.role = t.role
    BY DEF RoleEntry, Entry
  <2> QED BY <1>1, <1>3, <2>1 DEF EntryOK
<1> QED BY <1>1, <1>5, <1>6, <1>7 DEF Committed, More

LEMMA RevokeEffect ==
    ASSUME RolesInv, NEW s \in Session, CommitRevoke(s)
    PROVE  /\ Committed(s, RoleEntry(s)) /\ task[s].op = "revoke"
           /\ links' = links \ task[s].got.read /\ users' = users /\ roles' = roles
<1> DEFINE t == task[s].got
<1>1. /\ links' = links \ t.read /\ users' = users /\ roles' = roles
      /\ history' = Append(history, RoleEntry(s)) /\ End(s)
      /\ task[s].op = "revoke" /\ ~Idle(s)
  BY DEF CommitRevoke, RoleEntry, Entry, Record, At
<1>2. TaskOK(task[s], users, roles, Len(history))
  BY <1>1 DEF RolesInv
<1>3. /\ t.user \in DOMAIN users /\ <<"user", t.user>> \in task[s].on
      /\ t.role \in DOMAIN roles /\ \A l \in t.read : l.user = t.user
  BY <1>1, <1>2 DEF TaskOK
<1>4. TypeOK'
  <2>1. begun' = begun
    BY <1>1 DEF End
  <2> QED BY <1>1, <2>1 DEF RolesInv, TypeOK
<1>5. StaysBut(task[s].on)
  BY <1>1, <1>3 DEF StaysBut
<1>6. EntryOK(RoleEntry(s), users', roles')
  <2>1. /\ RoleEntry(s).op = task[s].op /\ RoleEntry(s).what.user = t.user
        /\ RoleEntry(s).what.role = t.role
    BY DEF RoleEntry, Entry
  <2> QED BY <1>1, <1>3, <2>1 DEF EntryOK
<1> QED BY <1>1, <1>4, <1>5, <1>6 DEF Committed, More

CodesEntry(s) == Entry(s, [role |-> task[s].got.role, codes |-> task[s].got.codes])

LEMMA CodesEntryFields ==
    ASSUME NEW s \in Session
    PROVE  /\ CodesEntry(s).op = task[s].op /\ CodesEntry(s).what.role = task[s].got.role
           /\ CodesEntry(s).what.codes = task[s].got.codes
BY DEF CodesEntry, Entry

LEMMA CreateRoleEffect ==
    ASSUME RolesInv, NEW s \in Session, CommitCreateRole(s)
    PROVE  \/ Refused(s)
           \/ LET t == task[s].got IN
              /\ Committed(s, CodesEntry(s)) /\ task[s].op = "create_role"
              /\ links' = links /\ users' = users
              /\ DOMAIN roles' = DOMAIN roles \cup {t.role} /\ t.role \notin DOMAIN roles
              /\ roles'[t.role].codes = t.codes
              /\ \A r \in DOMAIN roles : roles'[r] = roles[r]
<1> DEFINE t == task[s].got
           k == t.role
           row == [codes |-> t.codes, active |-> TRUE, system |-> FALSE]
<1> SUFFICES ASSUME ~Refused(s)
             PROVE  /\ Committed(s, CodesEntry(s)) /\ task[s].op = "create_role"
                    /\ links' = links /\ users' = users
                    /\ DOMAIN roles' = DOMAIN roles \cup {k} /\ k \notin DOMAIN roles
                    /\ roles'[k].codes = t.codes
                    /\ \A r \in DOMAIN roles : roles'[r] = roles[r]
  OBVIOUS
<1>1. /\ roles' = [r \in DOMAIN roles \cup {k} |-> IF r = k THEN row ELSE roles[r]]
      /\ k \notin DOMAIN roles /\ links' = links /\ users' = users
      /\ history' = Append(history, CodesEntry(s)) /\ End(s)
      /\ task[s].op = "create_role" /\ ~Idle(s)
  BY DEF CommitCreateRole, CodesEntry, Entry, Record, At
<1>2. TaskOK(task[s], users, roles, Len(history))
  BY <1>1 DEF RolesInv
<1>3. k \in RoleNames /\ <<"role", k>> \in task[s].on /\ t.codes \subseteq Permission
  BY <1>1, <1>2 DEF TaskOK
<1>4. row \in RoleRow /\ row.codes = t.codes
  BY <1>3 DEF RoleRow
<1> HIDE DEF row
<1>5. /\ DOMAIN roles' = DOMAIN roles \cup {k} /\ roles'[k] = row
      /\ \A r \in DOMAIN roles : roles'[r] = roles[r]
  BY <1>1
<1>6. TypeOK'
  <2>1. begun' = begun
    BY <1>1 DEF End
  <2>2. DOMAIN roles' \subseteq RoleNames /\ \A r \in DOMAIN roles' : roles'[r] \in RoleRow
    BY <1>3, <1>4, <1>5 DEF RolesInv, TypeOK
  <2>3. \A l \in links' : l.user \in DOMAIN users' /\ l.role \in DOMAIN roles'
    BY <1>1, <1>5 DEF RolesInv, TypeOK
  <2> QED BY <1>1, <2>1, <2>2, <2>3 DEF RolesInv, TypeOK
<1>7. StaysBut(task[s].on)
  BY <1>1, <1>3, <1>5 DEF StaysBut
<1>8. EntryOK(CodesEntry(s), users', roles')
  BY <1>1, <1>5, CodesEntryFields DEF EntryOK
<1> QED BY <1>1, <1>4, <1>5, <1>6, <1>7, <1>8 DEF Committed, More

LEMMA UpdateRoleEffect ==
    ASSUME RolesInv, NEW s \in Session, CommitUpdateRole(s)
    PROVE  \/ Refused(s)
           \/ LET t == task[s].got IN
              /\ Committed(s, CodesEntry(s)) /\ task[s].op = "update_role"
              /\ links' = links /\ users' = users
              /\ DOMAIN roles' = DOMAIN roles /\ t.role \in DOMAIN roles
              /\ <<"role", t.role>> \in task[s].on
              /\ roles'[t.role].codes = IF t.codes = Nil THEN roles[t.role].codes
                                        ELSE (roles[t.role].codes \ t.read) \cup t.codes
              /\ \A r \in DOMAIN roles \ {t.role} : roles'[r] = roles[r]
<1> DEFINE t == task[s].got
           k == t.role
           new == IF t.codes = Nil THEN roles[k].codes
                  ELSE (roles[k].codes \ t.read) \cup t.codes
           on == IF t.active = Nil THEN roles[k].active
                 ELSE Assigned(t.loaded, t.active, roles[k].active)
           row == [codes |-> new, system |-> roles[k].system, active |-> on]
<1> SUFFICES ASSUME ~Refused(s)
             PROVE  /\ Committed(s, CodesEntry(s)) /\ task[s].op = "update_role"
                    /\ links' = links /\ users' = users
                    /\ DOMAIN roles' = DOMAIN roles /\ k \in DOMAIN roles
                    /\ <<"role", k>> \in task[s].on
                    /\ roles'[k].codes = new
                    /\ \A r \in DOMAIN roles \ {k} : roles'[r] = roles[r]
  OBVIOUS
<1>1. /\ roles' = [roles EXCEPT ![k] = row]
      /\ links' = links /\ users' = users
      /\ history' = Append(history, CodesEntry(s)) /\ End(s)
      /\ task[s].op = "update_role" /\ ~Idle(s)
  BY DEF CommitUpdateRole, CodesEntry, Entry, Record, At
<1>2. TaskOK(task[s], users, roles, Len(history))
  BY <1>1 DEF RolesInv
<1>3. /\ k \in DOMAIN roles /\ <<"role", k>> \in task[s].on
      /\ t.codes = Nil \/ t.codes \subseteq Permission
      /\ t.active \in ActiveChange
  BY <1>1, <1>2 DEF TaskOK
<1>4. roles[k] \in RoleRow
  BY <1>3 DEF RolesInv, TypeOK
<1>5. roles[k].codes \subseteq Permission /\ roles[k].system \in BOOLEAN
      /\ roles[k].active \in BOOLEAN
  BY <1>4 DEF RoleRow
<1>6. new \in SUBSET Permission
  BY <1>3, <1>5
<1>7. on \in BOOLEAN
  <2>1. t.active = Nil \/ t.active \in BOOLEAN
    BY <1>3, Zenon DEF ActiveChange
  <2> QED BY <1>5, <2>1, Zenon DEF Assigned
<1> HIDE DEF new, on
<1>8. row \in RoleRow /\ row.codes = new
  BY <1>5, <1>6, <1>7, Zenon DEF RoleRow
<1> HIDE DEF row, k
<1>9. /\ DOMAIN roles' = DOMAIN roles /\ roles'[k] = row
      /\ \A r \in DOMAIN roles \ {k} : roles'[r] = roles[r]
  BY <1>1, <1>3
<1>10. TypeOK'
  <2>1. begun' = begun
    BY <1>1 DEF End
  <2>2. DOMAIN roles' \subseteq RoleNames /\ \A r \in DOMAIN roles' : roles'[r] \in RoleRow
    BY <1>3, <1>8, <1>9 DEF RolesInv, TypeOK
  <2>3. \A l \in links' : l.user \in DOMAIN users' /\ l.role \in DOMAIN roles'
    BY <1>1, <1>9 DEF RolesInv, TypeOK
  <2> QED BY <1>1, <2>1, <2>2, <2>3 DEF RolesInv, TypeOK
<1>11. StaysBut(task[s].on)
  BY <1>1, <1>3, <1>9 DEF StaysBut
<1>12. EntryOK(CodesEntry(s), users', roles')
  BY <1>1, <1>3, <1>9, CodesEntryFields DEF EntryOK, k
<1> QED BY <1>1, <1>3, <1>8, <1>9, <1>10, <1>11, <1>12 DEF Committed, More, new

SeedEntry == [op |-> "seed", by |-> Nil, what |-> Nil]

HasRoot(us) == \E u \in DOMAIN us : us[u].username = Root

RootRow == [username |-> Root, email |-> Nil, status |-> "active"]

RootLink ==
    [id |-> Len(history) + 1, user |-> Len(users) + 1, role |-> SuperAdmin, scope |-> Nil]

Seeded(s) ==
    LET t == task[s].got IN
    [r \in DOMAIN roles \cup DOMAIN Default |->
       IF r \notin DOMAIN Default THEN roles[r]
       ELSE IF r \in DOMAIN Default \ t.found
       THEN [codes |-> t.missing[r], active |-> TRUE, system |-> r = SuperAdmin]
       ELSE [codes |-> roles[r].codes \cup t.missing[r], active |-> roles[r].active,
             system |-> roles[r].system]]

LEMMA RoleRows ==
    \A codes \in SUBSET Permission, active \in BOOLEAN, system \in BOOLEAN :
        [codes |-> codes, active |-> active, system |-> system] \in RoleRow
BY DEF RoleRow

\* What a seed does to the users.
LEMMA RootAppears ==
    ASSUME RolesInv, SuperAdmin \in DOMAIN roles', DOMAIN roles \subseteq DOMAIN roles',
           DOMAIN roles' \subseteq RoleNames,
           IF HasRoot(users) THEN UNCHANGED <<users, links>>
           ELSE users' = Append(users, RootRow) /\ links' = links \cup {RootLink}
    PROVE  /\ users' \in Seq(UserRow) /\ HasRoot(users')
           /\ \A u \in DOMAIN users : u \in DOMAIN users' /\ users'[u] = users[u]
           /\ links \subseteq links' /\ links' \subseteq UserRoleRow
           /\ \A l \in links' : l \in links \/ l.user \notin DOMAIN users
           /\ \A l \in links' : l.user \in DOMAIN users' /\ l.role \in DOMAIN roles'
<1>1. /\ links \subseteq UserRoleRow /\ users \in Seq(UserRow)
      /\ \A l \in links : l.user \in DOMAIN users /\ l.role \in DOMAIN roles
  BY DEF RolesInv, TypeOK
<1>2. CASE HasRoot(users)
  BY <1>1, <1>2
<1>3. CASE ~HasRoot(users)
  <2>1. RootRow \in UserRow /\ RootRow.username = Root
    BY NamesAssumption DEF RootRow, UserRow, UserStatus
  <2>2. users' = Append(users, RootRow) /\ links' = links \cup {RootLink}
    BY <1>3
  <2>3. /\ users' \in Seq(UserRow) /\ Len(users) \in Nat
        /\ DOMAIN users = 1..Len(users) /\ DOMAIN users' = 1..(Len(users) + 1)
        /\ users'[Len(users) + 1] = RootRow
        /\ \A u \in DOMAIN users : users'[u] = users[u]
    BY <2>1, <2>2, UserRows
  <2>4. HasRoot(users')
    BY <2>1, <2>3 DEF HasRoot
  <2>5. /\ RootLink \in UserRoleRow /\ RootLink.user = Len(users) + 1
        /\ RootLink.role = SuperAdmin
    <3>1. /\ SuperAdmin \in RoleNames /\ Nil \in Scope /\ Len(history) + 1 \in Int
          /\ Len(users) + 1 \in Nat \ {0}
      BY <2>3, HistoryLength DEF Scope
    <3> QED BY <3>1 DEF RootLink, UserRoleRow
  <2>6. \A u \in DOMAIN users : u \in DOMAIN users' /\ u # Len(users) + 1
    BY <2>3
  <2>7. Len(users) + 1 \in DOMAIN users'
    BY <2>3
  <2> QED BY <1>1, <2>2, <2>3, <2>4, <2>5, <2>6, <2>7
<1> QED BY <1>2, <1>3

LEMMA SeedEffect ==
    ASSUME RolesInv, NEW s \in Session, CommitSeed(s)
    PROVE  \/ Refused(s)
           \/ LET t == task[s].got IN
              /\ Committed(s, SeedEntry) /\ task[s].op = "seed" /\ HasRoot(users')
              /\ \A u \in DOMAIN users : u \in DOMAIN users' /\ users'[u] = users[u]
              /\ links \subseteq links'
              /\ \A l \in links' : l \in links \/ l.user \notin DOMAIN users
              /\ DOMAIN roles' = DOMAIN roles \cup DOMAIN Default
              /\ \A r \in DOMAIN roles \ DOMAIN Default : roles'[r] = roles[r]
              /\ \A r \in DOMAIN Default :
                    \/ /\ r \in t.found /\ r \in DOMAIN roles
                       /\ roles'[r].codes = roles[r].codes \cup t.missing[r]
                    \/ r \notin DOMAIN roles /\ r \notin t.found /\ roles'[r].codes = t.missing[r]
<1> DEFINE t == task[s].got
<1> SUFFICES ASSUME ~Refused(s)
             PROVE  /\ Committed(s, SeedEntry) /\ task[s].op = "seed" /\ HasRoot(users')
                    /\ \A u \in DOMAIN users : u \in DOMAIN users' /\ users'[u] = users[u]
                    /\ links \subseteq links'
                    /\ \A l \in links' : l \in links \/ l.user \notin DOMAIN users
                    /\ DOMAIN roles' = DOMAIN roles \cup DOMAIN Default
                    /\ \A r \in DOMAIN roles \ DOMAIN Default : roles'[r] = roles[r]
                    /\ \A r \in DOMAIN Default :
                          \/ /\ r \in t.found /\ r \in DOMAIN roles
                             /\ roles'[r].codes = roles[r].codes \cup t.missing[r]
                          \/ /\ r \notin DOMAIN roles /\ r \notin t.found
                             /\ roles'[r].codes = t.missing[r]
  OBVIOUS
<1>1. /\ roles' = Seeded(s)
      /\ \A r \in DOMAIN Default : r \notin DOMAIN roles \/ r \in t.found
      /\ IF HasRoot(users) THEN UNCHANGED <<users, links>>
         ELSE users' = Append(users, RootRow) /\ links' = links \cup {RootLink}
      /\ history' = Append(history, SeedEntry) /\ End(s)
      /\ task[s].op = "seed" /\ task[s].at = "commit" /\ ~Idle(s)
  BY DEF CommitSeed, Seeded, HasRoot, RootRow, RootLink, SeedEntry, At
<1>2. TaskOK(task[s], users, roles, Len(history))
  BY <1>1 DEF RolesInv
<1>3. SeedOK(task[s], roles)
  BY <1>1, <1>2 DEF TaskOK
<1>4. /\ t.found \subseteq DOMAIN roles
      /\ \A r \in DOMAIN Default : /\ t.missing[r] \subseteq Permission
                                   /\ <<"role", r>> \in task[s].on
  BY <1>1, <1>3, PayloadsAssumption DEF SeedOK
<1>5. /\ DOMAIN roles \subseteq RoleNames
      /\ \A r \in DOMAIN roles : roles[r] \in RoleRow
  BY DEF RolesInv, TypeOK
<1>6. DOMAIN roles' = DOMAIN roles \cup DOMAIN Default
  BY <1>1 DEF Seeded
<1>7. \A r \in DOMAIN roles \ DOMAIN Default : roles'[r] = roles[r]
  BY <1>1 DEF Seeded
<1>8. ASSUME NEW r \in DOMAIN Default
      PROVE  /\ roles'[r] \in RoleRow
             /\ \/ /\ r \in t.found /\ r \in DOMAIN roles
                   /\ roles'[r].codes = roles[r].codes \cup t.missing[r]
                \/ r \notin DOMAIN roles /\ r \notin t.found /\ roles'[r].codes = t.missing[r]
  <2>1. CASE r \in t.found
    <3>1. r \in DOMAIN roles /\ roles[r] \in RoleRow
      BY <1>4, <1>5, <2>1
    <3>2. roles'[r] = [codes |-> roles[r].codes \cup t.missing[r], active |-> roles[r].active,
                       system |-> roles[r].system]
      BY <1>1, <2>1 DEF Seeded
    <3>3. roles'[r].codes = roles[r].codes \cup t.missing[r]
      BY <3>2
    <3>4. /\ roles[r].codes \cup t.missing[r] \in SUBSET Permission
          /\ roles[r].active \in BOOLEAN /\ roles[r].system \in BOOLEAN
      BY <1>4, <3>1 DEF RoleRow
    <3>5. roles'[r] \in RoleRow
      BY <3>2, <3>4, RoleRows, Zenon
    <3> QED BY <2>1, <3>1, <3>3, <3>5
  <2>2. CASE r \notin t.found
    <3>1. r \notin DOMAIN roles
      BY <1>1, <2>2
    <3>2. roles'[r] = [codes |-> t.missing[r], active |-> TRUE, system |-> r = SuperAdmin]
      BY <1>1, <2>2 DEF Seeded
    <3>3. roles'[r].codes = t.missing[r]
      BY <3>2
    <3>4. t.missing[r] \in SUBSET Permission /\ (r = SuperAdmin) \in BOOLEAN /\ TRUE \in BOOLEAN
      BY <1>4
    <3>5. roles'[r] \in RoleRow
      BY <3>2, <3>4, RoleRows, Zenon
    <3> QED BY <2>2, <3>1, <3>3, <3>5
  <2> QED BY <2>1, <2>2
<1>9. /\ users' \in Seq(UserRow) /\ HasRoot(users')
      /\ \A u \in DOMAIN users : u \in DOMAIN users' /\ users'[u] = users[u]
      /\ links \subseteq links' /\ links' \subseteq UserRoleRow
      /\ \A l \in links' : l \in links \/ l.user \notin DOMAIN users
      /\ \A l \in links' : l.user \in DOMAIN users' /\ l.role \in DOMAIN roles'
  <2>1. SuperAdmin \in DOMAIN roles' /\ DOMAIN roles' \subseteq RoleNames
    BY <1>5, <1>6, NamesAssumption
  <2> QED BY <1>1, <1>6, <2>1, RootAppears
<1>10. TypeOK'
  <2>1. begun' = begun
    BY <1>1 DEF End
  <2>2. DOMAIN roles' \subseteq RoleNames /\ \A r \in DOMAIN roles' : roles'[r] \in RoleRow
    BY <1>5, <1>6, <1>7, <1>8, NamesAssumption
  <2> QED BY <1>9, <2>1, <2>2 DEF RolesInv, TypeOK
<1>11. StaysBut(task[s].on)
  BY <1>4, <1>6, <1>7, <1>9 DEF StaysBut
<1>12. EntryOK(SeedEntry, users', roles')
  BY DEF EntryOK, SeedEntry
<1> QED BY <1>1, <1>6, <1>7, <1>8, <1>9, <1>10, <1>11, <1>12 DEF Committed, More

\* A seed goes on reading.
Extended(t, r) ==
    [q \in DOMAIN t.missing \cup {r} |->
        IF q = r THEN Default[r] \ (IF r \in t.found THEN roles[r].codes ELSE {})
        ELSE t.missing[q]]

LEMMA ReadLinksEffect ==
    ASSUME RolesInv, NEW s \in Session, NEW r \in DOMAIN Default, ReadLinks(s, r)
    PROVE  LET t == task[s].got IN
           /\ UNCHANGED <<users, roles, links, history, begun, raced>>
           /\ ~Idle(s) /\ task[s].op = "seed" /\ task'[s].op = "seed"
           /\ task'[s].on = task[s].on /\ task'[s].got.found = t.found
           /\ task'[s].got.missing = Extended(t, r)
           /\ DOMAIN task' = Session /\ \A q \in Session \ {s} : task'[q] = task[q]
           /\ RolesInv'
<1> DEFINE t == task[s].got
           m == Extended(t, r)
           at == IF DOMAIN m = DOMAIN Default THEN "commit" ELSE "links"
           got == [found |-> t.found, missing |-> m]
           new == [task[s] EXCEPT !.got = got, !.at = at]
<1>1. /\ UNCHANGED <<users, roles, links, history, begun, raced>>
      /\ ~Idle(s) /\ task[s].op = "seed" /\ task[s].at = "links"
      /\ task' = [task EXCEPT ![s] = new]
  <2>1. At(s, "seed", "links") /\ UNCHANGED tables
    BY DEF ReadLinks
  <2>2. task[s].at = "links"
    BY <2>1 DEF At
  <2>3. Continue(s, [task[s] EXCEPT !.got = got,
                       !.at = IF DOMAIN m = DOMAIN Default THEN "commit" ELSE @])
    BY DEF ReadLinks, Extended
  <2> QED BY <2>1, <2>2, <2>3 DEF At, tables, Continue
<1>2. TaskOK(task[s], users, roles, Len(history))
  BY <1>1 DEF RolesInv
<1>3. SeedOK(task[s], roles)
  BY <1>1, <1>2 DEF TaskOK
<1> HIDE DEF m, at
<1>4. got.found = t.found /\ got.missing = m
  OBVIOUS
<1> HIDE DEF got
<1>5. /\ DOMAIN new = DOMAIN task[s] /\ new.op = "seed" /\ new.on = task[s].on
      /\ new.seen = task[s].seen /\ new.got = got /\ new.at = at
  <2>1. DOMAIN task[s] = {"op", "at", "by", "seen", "on", "got"}
    BY <1>2 DEF TaskOK
  <2> QED BY <1>1, <2>1
<1> HIDE DEF new
<1>6. /\ DOMAIN m = DOMAIN t.missing \cup {r}
      /\ \A q \in DOMAIN m : m[q] \subseteq Default[q]
  BY <1>3 DEF SeedOK, Extended, m
<1>7. SeedOK(new, roles)
  BY <1>3, <1>4, <1>5, <1>6 DEF SeedOK, at
<1>8. TaskOK(new, users, roles, Len(history))
  BY <1>1, <1>2, <1>5, <1>7 DEF TaskOK
<1>9. DOMAIN task' = Session /\ task'[s] = new /\ \A q \in Session \ {s} : task'[q] = task[q]
  BY <1>1 DEF RolesInv
<1>10. TypeOK' /\ Sequence(history')
  BY <1>1 DEF RolesInv, TypeOK
<1>11. RacedOK'
  BY <1>1, <1>5, <1>9 DEF RolesInv, RacedOK, Idle
<1>12. ASSUME NEW q \in Session, task'[q] # Nil
       PROVE  TaskOK(task'[q], users', roles', Len(history'))
  BY <1>1, <1>8, <1>9, <1>12 DEF RolesInv, Idle
<1>13. RolesInv'
  BY <1>1, <1>9, <1>10, <1>11, <1>12 DEF RolesInv, Idle
<1> QED BY <1>1, <1>4, <1>5, <1>9, <1>13 DEF m

LEMMA RolesStep == RolesInv /\ [Next]_vars => RolesInv'
<1> SUFFICES ASSUME RolesInv, [Next]_vars PROVE RolesInv'
  OBVIOUS
<1>1. CASE UNCHANGED vars
  BY <1>1 DEF vars, tables, requests, RolesInv, TypeOK, RacedOK, Idle
<1>2. ASSUME NEW s \in Session, Arriving(s) PROVE RolesInv'
  BY <1>2, Arrivals, ArriveBySafe
<1>3. ASSUME NEW s \in Session, ArriveSeed(s) PROVE RolesInv'
  BY <1>3, ArriveSeedSafe
<1>4. ASSUME NEW s \in Session, Progress(s) PROVE RolesInv'
  <2>1. CASE CommitCreateUser(s)
    BY <2>1, CreateUserEffect, RefusedSafe, CommitSafe
  <2>2. CASE CommitStatus(s)
    BY <2>2, StatusEffect, CommitSafe
  <2>3. CASE CommitAssign(s)
    BY <2>3, AssignEffect, RefusedSafe, CommitSafe
  <2>4. CASE CommitRevoke(s)
    BY <2>4, RevokeEffect, CommitSafe
  <2>5. CASE CommitCreateRole(s)
    BY <2>5, CreateRoleEffect, RefusedSafe, CommitSafe
  <2>6. CASE CommitUpdateRole(s)
    BY <2>6, UpdateRoleEffect, RefusedSafe, CommitSafe
  <2>7. CASE \E r \in DOMAIN Default : ReadLinks(s, r)
    BY <2>7, ReadLinksEffect
  <2>8. CASE CommitSeed(s)
    BY <2>8, SeedEffect, RefusedSafe, CommitSafe
  <2> QED BY <1>4, <2>1, <2>2, <2>3, <2>4, <2>5, <2>6, <2>7, <2>8 DEF Progress
<1>5. ASSUME NEW s \in Session, Disconnect(s) PROVE RolesInv'
  BY <1>5, RefusedSafe DEF Disconnect
<1> QED BY <1>1, <1>2, <1>3, <1>4, <1>5 DEF Next, Arriving

-----------------------------------------------------------------------------
(***************************************************************************)
(* What the history tells.  A request that is alone with its user or role  *)
(* writes what it means to: what it has read still holds when it commits   *)
(* (Fresh).  So the last entry about a status, a role held or the codes of *)
(* a role is what the tables say.                                          *)
(***************************************************************************)

Fresh(t, us, rs, ls, rc) ==
    /\ t.op \in {"deactivate", "update_user"} =>
          <<"user", t.got.user>> \in rc \/ t.got.loaded = us[t.got.user].status
    /\ t.op = "revoke" =>
          \/ <<"user", t.got.user>> \in rc
          \/ t.got.read = {l \in ls : l.user = t.got.user /\ l.role = t.got.role}
    /\ t.op = "update_role" =>
          <<"role", t.got.role>> \in rc \/ t.got.read = rs[t.got.role].codes
    /\ t.op = "seed" =>
          \A r \in DOMAIN Default :
             \/ <<"role", r>> \in rc
             \/ /\ r \in t.got.found <=> r \in DOMAIN rs
                /\ r \in DOMAIN t.got.missing =>
                      t.got.missing[r] = Default[r] \ (IF r \in t.got.found THEN rs[r].codes
                                                      ELSE {})

FreshOK == \A s \in Session : ~Idle(s) => Fresh(task[s], users, roles, links, raced)

StatusTold ==
    \A u \in DOMAIN users : Calm("user", u) =>
        \A i \in 1..Len(history) :
            Sets(u, history[i]) /\ (\A j \in (i + 1)..Len(history) : ~Sets(u, history[j]))
            => history[i].what.status = users[u].status

TrailInv ==
    /\ RolesInv /\ FreshOK /\ StatusTold
    /\ CutOffAtNextRequest /\ RevokedMeansGone /\ ExactlyTheCodesGiven

LEMMA TrailInit == Init => TrailInv
<1> SUFFICES ASSUME Init PROVE TrailInv
  OBVIOUS
<1>1. \A s \in Session : Idle(s)
  BY DEF Init, InitRequests, Idle
<1>2. history = << >> /\ Len(history) = 0 /\ DOMAIN history = {}
  BY DEF Init
<1> QED BY <1>1, <1>2, RolesInit DEF TrailInv, FreshOK, StatusTold, CutOffAtNextRequest, Busy,
           RevokedMeansGone, ExactlyTheCodesGiven

LEMMA MoreRaced ==
    ASSUME NEW t, NEW rc, NEW rd, rc \subseteq rd, NEW us, NEW rs, NEW ls,
           Fresh(t, us, rs, ls, rc)
    PROVE  Fresh(t, us, rs, ls, rd)
BY DEF Fresh

\* Of what another request has read, a commit changes only what is raced.
LEMMA FreshStays ==
    ASSUME RolesInv, NEW s \in Session, NEW r \in Session, r # s, ~Idle(r), ~Idle(s),
           StaysBut(task[s].on), Fresh(task[r], users, roles, links, raced)
    PROVE  Fresh(task[r], users', roles', links', raced)
<1> DEFINE t == task[r]
           on == task[s].on
<1>1. t.on \cap on \subseteq raced
  BY DEF RolesInv, RacedOK
<1>2. TaskOK(t, users, roles, Len(history))
  BY DEF RolesInv
<1>3. StaysBut(on) /\ Fresh(t, users, roles, links, raced)
  OBVIOUS
<1> HIDE DEF t, on
<1>4. ASSUME t.op \in {"deactivate", "update_user"}
      PROVE  <<"user", t.got.user>> \in raced \/ t.got.loaded = users'[t.got.user].status
  <2>1. t.got.user \in DOMAIN users /\ <<"user", t.got.user>> \in t.on
    BY <1>2, <1>4 DEF TaskOK
  <2> QED BY <1>1, <1>3, <1>4, <2>1 DEF StaysBut, Fresh
<1>5. ASSUME t.op = "revoke", <<"user", t.got.user>> \notin raced
      PROVE  t.got.read = {l \in links' : l.user = t.got.user /\ l.role = t.got.role}
  <2>1. t.got.user \in DOMAIN users /\ <<"user", t.got.user>> \in t.on
    BY <1>2, <1>5 DEF TaskOK
  <2>2. <<"user", t.got.user>> \notin on
    BY <1>1, <1>5, <2>1
  <2>3. \A l \in links \cup links' : l.user = t.got.user => l \in links /\ l \in links'
    BY <1>3, <2>1, <2>2 DEF StaysBut
  <2>4. t.got.read = {l \in links : l.user = t.got.user /\ l.role = t.got.role}
    BY <1>3, <1>5 DEF Fresh
  <2> QED BY <2>3, <2>4
<1>6. ASSUME t.op = "update_role", <<"role", t.got.role>> \notin raced
      PROVE  t.got.read = roles'[t.got.role].codes
  <2>1. t.got.role \in DOMAIN roles /\ <<"role", t.got.role>> \in t.on
    BY <1>2, <1>6 DEF TaskOK
  <2> QED BY <1>1, <1>3, <1>6, <2>1 DEF StaysBut, Fresh
<1>7. ASSUME t.op = "seed", NEW q \in DOMAIN Default, <<"role", q>> \notin raced
      PROVE  /\ q \in t.got.found <=> q \in DOMAIN roles'
             /\ q \in DOMAIN t.got.missing =>
                   t.got.missing[q] = Default[q] \ (IF q \in t.got.found THEN roles'[q].codes
                                                   ELSE {})
  <2>1. <<"role", q>> \in t.on
    BY <1>2, <1>7 DEF TaskOK, SeedOK
  <2>2. <<"role", q>> \notin on
    BY <1>1, <1>7, <2>1
  <2>3. q \in DOMAIN roles' <=> q \in DOMAIN roles
    BY <1>3, <2>2 DEF StaysBut
  <2>4. q \in DOMAIN roles => roles'[q] = roles[q]
    BY <1>3, <2>2 DEF StaysBut
  <2>5. /\ q \in t.got.found <=> q \in DOMAIN roles
        /\ q \in DOMAIN t.got.missing =>
              t.got.missing[q] = Default[q] \ (IF q \in t.got.found THEN roles[q].codes ELSE {})
    BY <1>3, <1>7 DEF Fresh
  <2> QED BY <2>3, <2>4, <2>5
<1>8. Fresh(t, users', roles', links', raced)
  BY <1>4, <1>5, <1>6, <1>7 DEF Fresh
<1> QED BY <1>8 DEF t

LEMMA CommitHistory ==
    ASSUME RolesInv, NEW s \in Session, NEW h, Committed(s, h)
    PROVE  /\ Len(history) \in Nat /\ Len(history') = Len(history) + 1
           /\ DOMAIN history = 1..Len(history) /\ DOMAIN history' = 1..(Len(history) + 1)
           /\ history'[Len(history) + 1] = h
           /\ \A c \in 1..Len(history) : history'[c] = history[c]
<1>1. Sequence(history) /\ More(history', history, h)
  BY DEF RolesInv, Committed
<1>2. /\ Sequence(history') /\ Len(history') = Len(history) + 1
      /\ history'[Len(history) + 1] = h
      /\ \A c \in 1..Len(history) : history'[c] = history[c]
  BY <1>1, OneMore
<1>3. DOMAIN history' = 1..Len(history')
  BY <1>2 DEF Sequence
<1> QED BY <1>2, <1>3, HistoryLength

\* The new entry tells what became of the tables.
StatusSaid(h) ==
    \A u \in DOMAIN users' :
        \/ <<"user", u>> \in raced
        \/ Sets(u, h) /\ users'[u].status = h.what.status
        \/ ~Sets(u, h) /\ u \notin DOMAIN users
        \/ ~Sets(u, h) /\ users'[u].status = users[u].status

Holds(ls, u, r) == \E l \in ls : l.user = u /\ l.role = r

LinksSaid(h) ==
    \A u \in DOMAIN users', r \in DOMAIN roles' :
        \/ <<"user", u>> \in raced
        \/ Bears(u, r, h) /\ (Holds(links', u, r) <=> h.op # "revoke")
        \/ ~Bears(u, r, h) /\ (u \notin DOMAIN users \/ r \notin DOMAIN roles)
        \/ ~Bears(u, r, h) /\ (Holds(links', u, r) <=> Holds(links, u, r))

AddedBySeed(h, r) == IF h.op = "seed" /\ r \in DOMAIN Default THEN Default[r] ELSE {}

CodesSaid(h) ==
    \A r \in DOMAIN roles' :
        \/ <<"role", r>> \in raced
        \/ Gives(r, h) /\ roles'[r].codes = h.what.codes
        \/ ~Gives(r, h) /\ r \notin DOMAIN roles
        \/ ~Gives(r, h) /\ roles'[r].codes = roles[r].codes \cup AddedBySeed(h, r)

LEMMA StatusKept ==
    ASSUME TrailInv, NEW s \in Session, NEW h, Committed(s, h), StatusSaid(h)
    PROVE  StatusTold'
<1> DEFINE n == Len(history)
<1>1. /\ n \in Nat /\ Len(history') = n + 1 /\ history'[n + 1] = h
      /\ \A c \in 1..n : history'[c] = history[c]
  BY CommitHistory DEF TrailInv
<1>2. raced' = raced
  BY DEF Committed, End
<1> SUFFICES ASSUME NEW u \in DOMAIN users', <<"user", u>> \notin raced, NEW i \in 1..(n + 1),
                    Sets(u, history'[i]),
                    \A j \in (i + 1)..(n + 1) : ~Sets(u, history'[j])
             PROVE  history'[i].what.status = users'[u].status
  BY <1>1, <1>2 DEF StatusTold, Calm, Sets
<1>3. CASE i = n + 1
  BY <1>1, <1>3 DEF StatusSaid
<1>4. CASE i \in 1..n
  <2>1. ~Sets(u, h)
    BY <1>1, <1>4
  <2>2. Sets(u, history[i]) /\ \A j \in (i + 1)..n : ~Sets(u, history[j])
    BY <1>1, <1>4
  <2>3. u \in DOMAIN users
    BY <1>4, <2>2 DEF TrailInv, RolesInv, EntryOK, Sets
  <2>4. history[i].what.status = users[u].status
    BY <1>4, <2>2, <2>3 DEF TrailInv, StatusTold, Calm
  <2> QED BY <1>1, <1>4, <2>1, <2>3, <2>4 DEF StatusSaid
<1> QED BY <1>1, <1>3, <1>4

LEMMA LinksKept ==
    ASSUME TrailInv, NEW s \in Session, NEW h, Committed(s, h), LinksSaid(h)
    PROVE  RevokedMeansGone'
<1> DEFINE n == Len(history)
<1>1. /\ n \in Nat /\ Len(history') = n + 1 /\ history'[n + 1] = h
      /\ DOMAIN history = 1..n /\ DOMAIN history' = 1..(n + 1)
      /\ \A c \in 1..n : history'[c] = history[c]
  BY CommitHistory DEF TrailInv
<1>2. raced' = raced
  BY DEF Committed, End
<1> SUFFICES ASSUME NEW u \in DOMAIN users', <<"user", u>> \notin raced,
                    NEW r \in DOMAIN roles', NEW i \in 1..(n + 1),
                    Bears(u, r, history'[i]),
                    \A j \in (i + 1)..(n + 1) : ~Bears(u, r, history'[j])
             PROVE  Holds(links', u, r) <=> history'[i].op # "revoke"
  BY <1>1, <1>2 DEF RevokedMeansGone, Calm, Bears, Holds
<1>3. CASE i = n + 1
  BY <1>1, <1>3 DEF LinksSaid
<1>4. CASE i \in 1..n
  <2>1. ~Bears(u, r, h)
    BY <1>1, <1>4
  <2>2. Bears(u, r, history[i]) /\ \A j \in (i + 1)..n : ~Bears(u, r, history[j])
    BY <1>1, <1>4
  <2>3. u \in DOMAIN users /\ r \in DOMAIN roles
    BY <1>4, <2>2 DEF TrailInv, RolesInv, EntryOK, Bears
  <2>4. Holds(links, u, r) <=> history[i].op # "revoke"
    BY <1>1, <1>4, <2>2, <2>3 DEF TrailInv, RevokedMeansGone, Calm, Holds
  <2> QED BY <1>1, <1>4, <2>1, <2>3, <2>4 DEF LinksSaid
<1> QED BY <1>1, <1>3, <1>4

LEMMA CodesKept ==
    ASSUME TrailInv, NEW s \in Session, NEW h, Committed(s, h), CodesSaid(h)
    PROVE  ExactlyTheCodesGiven'
<1> DEFINE n == Len(history)
           SeededTo(q, i, m) == \E j \in (i + 1)..m : q[j].op = "seed"
           Later(q, i, m, r) == IF SeededTo(q, i, m) /\ r \in DOMAIN Default THEN Default[r]
                                ELSE {}
<1>1. /\ n \in Nat /\ Len(history') = n + 1 /\ history'[n + 1] = h
      /\ DOMAIN history = 1..n /\ DOMAIN history' = 1..(n + 1)
      /\ \A c \in 1..n : history'[c] = history[c]
  BY CommitHistory DEF TrailInv
<1>2. raced' = raced
  BY DEF Committed, End
<1> SUFFICES ASSUME NEW r \in DOMAIN roles', <<"role", r>> \notin raced, NEW i \in 1..(n + 1),
                    Gives(r, history'[i]),
                    \A j \in (i + 1)..(n + 1) : ~Gives(r, history'[j])
             PROVE  roles'[r].codes = history'[i].what.codes \cup Later(history', i, n + 1, r)
  BY <1>1, <1>2 DEF ExactlyTheCodesGiven, Calm, Gives
<1>3. CASE i = n + 1
  <2>1. Gives(r, h) /\ roles'[r].codes = h.what.codes
    BY <1>1, <1>3 DEF CodesSaid
  <2>2. ~SeededTo(history', i, n + 1)
    BY <1>1, <1>3
  <2> QED BY <1>1, <1>3, <2>1, <2>2
<1>4. CASE i \in 1..n
  <2>1. ~Gives(r, h)
    BY <1>1, <1>4
  <2>2. Gives(r, history[i]) /\ \A j \in (i + 1)..n : ~Gives(r, history[j])
    BY <1>1, <1>4
  <2>3. r \in DOMAIN roles
    BY <1>4, <2>2 DEF TrailInv, RolesInv, EntryOK, Gives
  <2>4. roles[r].codes = history[i].what.codes \cup Later(history, i, n, r)
    BY <1>1, <1>4, <2>2, <2>3 DEF TrailInv, ExactlyTheCodesGiven, Calm
  <2>5. roles'[r].codes = roles[r].codes \cup AddedBySeed(h, r)
    BY <2>1, <2>3 DEF CodesSaid
  <2>6. SeededTo(history', i, n + 1) <=> SeededTo(history, i, n) \/ h.op = "seed"
    BY <1>1, <1>4
  <2>7. Later(history', i, n + 1, r) = Later(history, i, n, r) \cup AddedBySeed(h, r)
    BY <2>6 DEF AddedBySeed
  <2>8. history'[i] = history[i]
    BY <1>1, <1>4
  <2> HIDE DEF Later
  <2> QED BY <2>4, <2>5, <2>7, <2>8
<1> QED BY <1>1, <1>3, <1>4

\* What a request was let in on is in the part of the history it has seen.
CutOK(t, q, rc) ==
    t.op # "seed" /\ <<"user", t.by>> \notin rc =>
        \A i \in 1..t.seen :
            Sets(t.by, q[i]) /\ (\A j \in (i + 1)..t.seen : ~Sets(t.by, q[j]))
            => q[i].what.status = "active"

LEMMA CutStays ==
    ASSUME NEW t, NEW n \in Nat, t.seen \in 0..n, NEW p, NEW q, NEW rc, NEW rd, rc \subseteq rd,
           \A i \in 1..n : q[i] = p[i], CutOK(t, p, rc)
    PROVE  CutOK(t, q, rd)
<1> SUFFICES ASSUME t.op # "seed", <<"user", t.by>> \notin rd, NEW i \in 1..t.seen,
                    Sets(t.by, q[i]), \A j \in (i + 1)..t.seen : ~Sets(t.by, q[j])
             PROVE  q[i].what.status = "active"
  BY DEF CutOK
<1>1. i \in 1..n /\ \A j \in (i + 1)..t.seen : j \in 1..n
  OBVIOUS
<1>2. Sets(t.by, p[i]) /\ \A j \in (i + 1)..t.seen : ~Sets(t.by, p[j])
  BY <1>1
<1>3. p[i].what.status = "active"
  BY <1>2 DEF CutOK
<1> QED BY <1>1, <1>3

LEMMA CutDef ==
    CutOffAtNextRequest <=> \A s \in Session : ~Idle(s) => CutOK(task[s], history, raced)
BY DEF CutOffAtNextRequest, CutOK, Busy, Calm

LEMMA TrailCommit ==
    ASSUME TrailInv, NEW s \in Session, ~Idle(s), NEW h, Committed(s, h),
           StatusSaid(h), LinksSaid(h), CodesSaid(h)
    PROVE  TrailInv'
<1>1. RolesInv' /\ StatusTold' /\ RevokedMeansGone' /\ ExactlyTheCodesGiven'
  BY CommitSafe, StatusKept, LinksKept, CodesKept DEF TrailInv
<1>2. /\ raced' = raced /\ task'[s] = Nil /\ \A r \in Session \ {s} : task'[r] = task[r]
      /\ StaysBut(task[s].on)
  BY DEF Committed, End, TrailInv, RolesInv
<1>3. ASSUME NEW r \in Session, task'[r] # Nil
      PROVE  Fresh(task'[r], users', roles', links', raced')
  <2>1. r # s /\ task'[r] = task[r] /\ ~Idle(r)
    BY <1>2, <1>3 DEF Idle
  <2>2. Fresh(task[r], users, roles, links, raced) /\ RolesInv
    BY <2>1 DEF TrailInv, FreshOK
  <2> QED BY <1>2, <2>1, <2>2, FreshStays
<1>4. ASSUME NEW r \in Session, task'[r] # Nil
      PROVE  CutOK(task'[r], history', raced')
  <2>1. task'[r] = task[r] /\ ~Idle(r)
    BY <1>2, <1>4 DEF Idle
  <2>2. CutOK(task[r], history, raced)
    BY <2>1, CutDef DEF TrailInv
  <2>3. task[r].seen \in 0..Len(history)
    BY <2>1 DEF TrailInv, RolesInv, TaskOK
  <2>4. Len(history) \in Nat /\ \A c \in 1..Len(history) : history'[c] = history[c]
    BY CommitHistory DEF TrailInv
  <2>5. CutOK(task[r], history', raced)
    BY <2>2, <2>3, <2>4, CutStays
  <2> QED BY <1>2, <2>1, <2>5
<1>5. CutOffAtNextRequest'
  BY <1>4 DEF CutOffAtNextRequest, CutOK, Busy, Calm, Idle
<1>6. FreshOK'
  BY <1>3 DEF FreshOK, Idle
<1> QED BY <1>1, <1>5, <1>6 DEF TrailInv

-----------------------------------------------------------------------------
\* What each commit says of the tables.

LEMMA CreateUserTold ==
    ASSUME TrailInv, NEW s \in Session, CommitCreateUser(s), ~Refused(s)
    PROVE  TrailInv'
<1> DEFINE h == CreateUserEntry(s)
           new == Len(users) + 1
           t == task[s].got
<1>1. /\ Committed(s, h) /\ task[s].op = "create_user"
      /\ links' = links \cup GrantedTo(s) /\ roles' = roles
      /\ DOMAIN users' = DOMAIN users \cup {new}
      /\ new \notin DOMAIN users
      /\ \A u \in DOMAIN users : users'[u] = users[u]
  BY CreateUserEffect DEF TrailInv
<1>2. ~Idle(s)
  BY DEF CommitCreateUser, At
<1>3. h.op = "create_user" /\ h.what.user = new /\ h.what.roles = {g[1] : g \in t.grants}
  BY <1>1 DEF CreateUserEntry, Entry
<1>4. \A l \in GrantedTo(s) : l.user = new /\ l.role \in h.what.roles
  BY <1>3 DEF GrantedTo
<1>4a. ASSUME NEW r \in h.what.roles PROVE \E l \in GrantedTo(s) : l.role = r
  <2>1. PICK g \in t.grants : g[1] = r
    BY <1>3
  <2> DEFINE l == [id |-> Len(history) + 1, user |-> Len(users) + 1, role |-> g[1],
                   scope |-> g[2]]
  <2>2. l \in GrantedTo(s) /\ l.role = r
    BY <2>1 DEF GrantedTo
  <2> QED BY <2>2
<1>5. \A l \in links : l.user \in DOMAIN users
  BY DEF TrailInv, RolesInv, TypeOK
<1> HIDE DEF h, new
<1>6. StatusSaid(h)
  BY <1>1, <1>3 DEF StatusSaid, Sets
<1>7. LinksSaid(h)
  <2> SUFFICES ASSUME NEW u \in DOMAIN users', NEW r \in DOMAIN roles'
               PROVE  \/ Bears(u, r, h) /\ Holds(links', u, r)
                      \/ ~Bears(u, r, h) /\ u \notin DOMAIN users
                      \/ ~Bears(u, r, h) /\ (Holds(links', u, r) <=> Holds(links, u, r))
    BY <1>3 DEF LinksSaid
  <2>1. CASE u = new
    BY <1>1, <1>3, <1>4, <1>4a, <2>1 DEF Bears, Holds
  <2>2. CASE u # new
    BY <1>1, <1>3, <1>4, <2>2 DEF Bears, Holds
  <2> QED BY <2>1, <2>2
<1>8. CodesSaid(h)
  BY <1>1, <1>3 DEF CodesSaid, Gives, AddedBySeed
<1> QED BY <1>1, <1>2, <1>6, <1>7, <1>8, TrailCommit

LEMMA EntryFields ==
    ASSUME NEW s \in Session
    PROVE  /\ StatusEntry(s).op = task[s].op /\ StatusEntry(s).what.user = task[s].got.user
           /\ StatusEntry(s).what.status = task[s].got.new
           /\ RoleEntry(s).op = task[s].op /\ RoleEntry(s).what.user = task[s].got.user
           /\ RoleEntry(s).what.role = task[s].got.role
           /\ SeedEntry.op = "seed"
BY DEF StatusEntry, RoleEntry, SeedEntry, Entry

LEMMA StatusCommitTold ==
    ASSUME TrailInv, NEW s \in Session, CommitStatus(s)
    PROVE  TrailInv'
<1> DEFINE h == StatusEntry(s)
           t == task[s].got
<1>1. /\ Committed(s, h) /\ task[s].op \in {"deactivate", "update_user"}
      /\ links' = links /\ roles' = roles /\ DOMAIN users' = DOMAIN users
      /\ t.user \in DOMAIN users
      /\ \A u \in DOMAIN users \ {t.user} : users'[u] = users[u]
      /\ users'[t.user].status = Assigned(t.loaded, t.new, users[t.user].status)
  BY StatusEffect DEF TrailInv
<1>2. ~Idle(s)
  BY DEF CommitStatus, At
<1>3. h.op = task[s].op /\ h.what.user = t.user /\ h.what.status = t.new
  BY EntryFields
<1>4. <<"user", t.user>> \in raced \/ t.loaded = users[t.user].status
  BY <1>1, <1>2 DEF TrailInv, FreshOK, Fresh
<1> HIDE DEF h
<1>5. StatusSaid(h)
  <2> SUFFICES ASSUME NEW u \in DOMAIN users'
               PROVE  \/ <<"user", u>> \in raced
                      \/ Sets(u, h) /\ users'[u].status = h.what.status
                      \/ ~Sets(u, h) /\ users'[u].status = users[u].status
    BY DEF StatusSaid
  <2>1. CASE u = t.user
    BY <1>1, <1>3, <1>4, <2>1 DEF Sets, Assigned
  <2>2. CASE u # t.user
    BY <1>1, <1>3, <2>2 DEF Sets
  <2> QED BY <2>1, <2>2
<1>6. LinksSaid(h)
  BY <1>1, <1>3 DEF LinksSaid, Bears
<1>7. CodesSaid(h)
  BY <1>1, <1>3 DEF CodesSaid, Gives, AddedBySeed
<1> QED BY <1>1, <1>2, <1>5, <1>6, <1>7, TrailCommit

LEMMA AssignTold ==
    ASSUME TrailInv, NEW s \in Session, CommitAssign(s), ~Refused(s)
    PROVE  TrailInv'
<1> DEFINE h == RoleEntry(s)
           t == task[s].got
<1>1. /\ Committed(s, h) /\ task[s].op = "assign"
      /\ links' = links \cup {NewLink(s)} /\ users' = users /\ roles' = roles
  BY AssignEffect DEF TrailInv
<1>2. ~Idle(s)
  BY DEF CommitAssign, At
<1>3. h.op = "assign" /\ h.what.user = t.user /\ h.what.role = t.role
  BY <1>1, EntryFields
<1>4. NewLink(s).user = t.user /\ NewLink(s).role = t.role
  BY DEF NewLink
<1> HIDE DEF h
<1>5. StatusSaid(h)
  BY <1>1, <1>3 DEF StatusSaid, Sets
<1>6. LinksSaid(h)
  <2> SUFFICES ASSUME NEW u \in DOMAIN users', NEW r \in DOMAIN roles'
               PROVE  \/ Bears(u, r, h) /\ Holds(links', u, r)
                      \/ ~Bears(u, r, h) /\ (Holds(links', u, r) <=> Holds(links, u, r))
    BY <1>3 DEF LinksSaid
  <2>1. CASE u = t.user /\ r = t.role
    BY <1>1, <1>3, <1>4, <2>1 DEF Bears, Holds
  <2>2. CASE ~(u = t.user /\ r = t.role)
    BY <1>1, <1>3, <1>4, <2>2 DEF Bears, Holds
  <2> QED BY <2>1, <2>2
<1>7. CodesSaid(h)
  BY <1>1, <1>3 DEF CodesSaid, Gives, AddedBySeed
<1> QED BY <1>1, <1>2, <1>5, <1>6, <1>7, TrailCommit

LEMMA RevokeTold ==
    ASSUME TrailInv, NEW s \in Session, CommitRevoke(s)
    PROVE  TrailInv'
<1> DEFINE h == RoleEntry(s)
           t == task[s].got
<1>1. /\ Committed(s, h) /\ task[s].op = "revoke"
      /\ links' = links \ t.read /\ users' = users /\ roles' = roles
  BY RevokeEffect DEF TrailInv
<1>2. ~Idle(s)
  BY DEF CommitRevoke, At
<1>3. h.op = "revoke" /\ h.what.user = t.user /\ h.what.role = t.role
  BY <1>1, EntryFields
<1>4. \/ <<"user", t.user>> \in raced
      \/ t.read = {l \in links : l.user = t.user /\ l.role = t.role}
  BY <1>1, <1>2 DEF TrailInv, FreshOK, Fresh
<1>5. \A l \in t.read : l.user = t.user
  BY <1>1, <1>2 DEF TrailInv, RolesInv, TaskOK
<1> HIDE DEF h
<1>6. StatusSaid(h)
  BY <1>1, <1>3 DEF StatusSaid, Sets
<1>7. LinksSaid(h)
  <2> SUFFICES ASSUME NEW u \in DOMAIN users', NEW r \in DOMAIN roles',
                      <<"user", u>> \notin raced
               PROVE  \/ Bears(u, r, h) /\ ~Holds(links', u, r)
                      \/ ~Bears(u, r, h) /\ (Holds(links', u, r) <=> Holds(links, u, r))
    BY <1>3 DEF LinksSaid
  <2>1. CASE u = t.user /\ r = t.role
    BY <1>1, <1>3, <1>4, <2>1 DEF Bears, Holds
  <2>2. CASE u = t.user /\ r # t.role
    BY <1>1, <1>3, <1>4, <2>2 DEF Bears, Holds
  <2>3. CASE u # t.user
    BY <1>1, <1>3, <1>5, <2>3 DEF Bears, Holds
  <2> QED BY <2>1, <2>2, <2>3
<1>8. CodesSaid(h)
  BY <1>1, <1>3 DEF CodesSaid, Gives, AddedBySeed
<1> QED BY <1>1, <1>2, <1>6, <1>7, <1>8, TrailCommit

LEMMA CreateRoleTold ==
    ASSUME TrailInv, NEW s \in Session, CommitCreateRole(s), ~Refused(s)
    PROVE  TrailInv'
<1> DEFINE h == CodesEntry(s)
           t == task[s].got
<1>1. /\ Committed(s, h) /\ task[s].op = "create_role"
      /\ links' = links /\ users' = users
      /\ DOMAIN roles' = DOMAIN roles \cup {t.role} /\ t.role \notin DOMAIN roles
      /\ roles'[t.role].codes = t.codes
      /\ \A r \in DOMAIN roles : roles'[r] = roles[r]
  BY CreateRoleEffect DEF TrailInv
<1>2. ~Idle(s)
  BY DEF CommitCreateRole, At
<1>3. h.op = "create_role" /\ h.what.role = t.role /\ h.what.codes = t.codes
  BY <1>1, CodesEntryFields
<1> HIDE DEF h
<1>4. StatusSaid(h)
  BY <1>1, <1>3 DEF StatusSaid, Sets
<1>5. LinksSaid(h)
  BY <1>1, <1>3 DEF LinksSaid, Bears
<1>6. CodesSaid(h)
  BY <1>1, <1>3 DEF CodesSaid, Gives, AddedBySeed
<1> QED BY <1>1, <1>2, <1>4, <1>5, <1>6, TrailCommit

LEMMA UpdateRoleTold ==
    ASSUME TrailInv, NEW s \in Session, CommitUpdateRole(s), ~Refused(s)
    PROVE  TrailInv'
<1> DEFINE h == CodesEntry(s)
           t == task[s].got
<1>1. /\ Committed(s, h) /\ task[s].op = "update_role"
      /\ links' = links /\ users' = users
      /\ DOMAIN roles' = DOMAIN roles /\ t.role \in DOMAIN roles
      /\ roles'[t.role].codes = IF t.codes = Nil THEN roles[t.role].codes
                                ELSE (roles[t.role].codes \ t.read) \cup t.codes
      /\ \A r \in DOMAIN roles \ {t.role} : roles'[r] = roles[r]
  BY UpdateRoleEffect DEF TrailInv
<1>2. ~Idle(s)
  BY DEF CommitUpdateRole, At
<1>3. h.op = "update_role" /\ h.what.role = t.role /\ h.what.codes = t.codes
  BY <1>1, CodesEntryFields
<1>4. <<"role", t.role>> \in raced \/ t.read = roles[t.role].codes
  BY <1>1, <1>2 DEF TrailInv, FreshOK, Fresh
<1> HIDE DEF h
<1>5. StatusSaid(h)
  BY <1>1, <1>3 DEF StatusSaid, Sets
<1>6. LinksSaid(h)
  BY <1>1, <1>3 DEF LinksSaid, Bears
<1>7. CodesSaid(h)
  <2> SUFFICES ASSUME NEW r \in DOMAIN roles', <<"role", r>> \notin raced
               PROVE  \/ Gives(r, h) /\ roles'[r].codes = h.what.codes
                      \/ ~Gives(r, h) /\ roles'[r].codes = roles[r].codes \cup AddedBySeed(h, r)
    BY DEF CodesSaid
  <2>1. CASE r = t.role /\ t.codes # Nil
    BY <1>1, <1>3, <1>4, <2>1 DEF Gives
  <2>2. CASE r = t.role /\ t.codes = Nil
    BY <1>1, <1>3, <2>2 DEF Gives, AddedBySeed
  <2>3. CASE r # t.role
    BY <1>1, <1>3, <2>3 DEF Gives, AddedBySeed
  <2> QED BY <2>1, <2>2, <2>3
<1> QED BY <1>1, <1>2, <1>5, <1>6, <1>7, TrailCommit

\* Of a role nobody else is changing, a seed knows which codes have no link.
LEMMA SeedKnows ==
    ASSUME TrailInv, NEW s \in Session, CommitSeed(s), NEW r \in DOMAIN Default,
           <<"role", r>> \notin raced
    PROVE  LET t == task[s].got IN
           /\ r \in t.found <=> r \in DOMAIN roles
           /\ t.missing[r] = Default[r] \ (IF r \in t.found THEN roles[r].codes ELSE {})
<1>1. ~Idle(s) /\ task[s].op = "seed" /\ task[s].at = "commit"
  BY DEF CommitSeed, At
<1>2. SeedOK(task[s], roles)
  BY <1>1 DEF TrailInv, RolesInv, TaskOK
<1>3. r \in DOMAIN task[s].got.missing
  BY <1>1, <1>2 DEF SeedOK
<1>4. Fresh(task[s], users, roles, links, raced)
  BY <1>1 DEF TrailInv, FreshOK
<1> QED BY <1>1, <1>3, <1>4 DEF Fresh

LEMMA SeedTold ==
    ASSUME TrailInv, NEW s \in Session, CommitSeed(s), ~Refused(s)
    PROVE  TrailInv'
<1> DEFINE h == SeedEntry
           t == task[s].got
<1>1. /\ Committed(s, h) /\ task[s].op = "seed"
      /\ \A u \in DOMAIN users : u \in DOMAIN users' /\ users'[u] = users[u]
      /\ links \subseteq links'
      /\ \A l \in links' : l \in links \/ l.user \notin DOMAIN users
      /\ DOMAIN roles' = DOMAIN roles \cup DOMAIN Default
      /\ \A r \in DOMAIN roles \ DOMAIN Default : roles'[r] = roles[r]
      /\ \A r \in DOMAIN Default :
            \/ /\ r \in t.found /\ r \in DOMAIN roles
               /\ roles'[r].codes = roles[r].codes \cup t.missing[r]
            \/ r \notin DOMAIN roles /\ r \notin t.found /\ roles'[r].codes = t.missing[r]
  BY SeedEffect DEF TrailInv
<1>2. ~Idle(s)
  BY DEF CommitSeed, At
<1>3. h.op = "seed"
  BY EntryFields
<1> HIDE DEF h
<1>4. StatusSaid(h)
  BY <1>1, <1>3 DEF StatusSaid, Sets
<1>5. LinksSaid(h)
  <2> SUFFICES ASSUME NEW u \in DOMAIN users', NEW r \in DOMAIN roles', u \in DOMAIN users
               PROVE  Holds(links', u, r) <=> Holds(links, u, r)
    BY <1>3 DEF LinksSaid, Bears
  <2> QED BY <1>1 DEF Holds
<1>6. CodesSaid(h)
  <2> SUFFICES ASSUME NEW r \in DOMAIN roles, <<"role", r>> \notin raced
               PROVE  roles'[r].codes = roles[r].codes \cup AddedBySeed(h, r)
    BY <1>3 DEF CodesSaid, Gives
  <2>1. CASE r \in DOMAIN Default
    <3>1. r \in t.found /\ t.missing[r] = Default[r] \ roles[r].codes
      BY <2>1, SeedKnows
    <3>2. roles'[r].codes = roles[r].codes \cup t.missing[r]
      BY <1>1, <2>1, <3>1
    <3> QED BY <1>3, <2>1, <3>1, <3>2 DEF AddedBySeed
  <2>2. CASE r \notin DOMAIN Default
    BY <1>1, <2>2 DEF AddedBySeed
  <2> QED BY <2>1, <2>2
<1> QED BY <1>1, <1>2, <1>4, <1>5, <1>6, TrailCommit

-----------------------------------------------------------------------------
\* The other steps leave the tables and the history alone.

LEMMA QuietTables ==
    ASSUME TrailInv, UNCHANGED tables, raced \subseteq raced', RolesInv',
           \A s \in Session : task'[s] # Nil =>
              /\ Fresh(task'[s], users, roles, links, raced')
              /\ CutOK(task'[s], history, raced')
    PROVE  TrailInv'
<1>1. UNCHANGED <<users, roles, links, history>>
  BY DEF tables
<1>2. FreshOK'
  BY <1>1 DEF FreshOK, Idle
<1>3. CutOffAtNextRequest'
  BY <1>1 DEF CutOffAtNextRequest, CutOK, Busy, Calm, Idle
<1>4. StatusTold'
  BY <1>1 DEF TrailInv, StatusTold, Calm, Sets
<1>5. RevokedMeansGone'
  BY <1>1 DEF TrailInv, RevokedMeansGone, Calm, Bears
<1>6. ExactlyTheCodesGiven'
  BY <1>1 DEF TrailInv, ExactlyTheCodesGiven, Calm, Gives
<1> QED BY <1>2, <1>3, <1>4, <1>5, <1>6 DEF TrailInv

LEMMA OldTasks ==
    ASSUME TrailInv, NEW r \in Session, ~Idle(r), NEW rd, raced \subseteq rd
    PROVE  Fresh(task[r], users, roles, links, rd) /\ CutOK(task[r], history, rd)
<1>1. Fresh(task[r], users, roles, links, raced) /\ CutOK(task[r], history, raced)
  BY CutDef DEF TrailInv, FreshOK
<1>2. task[r].seen \in 0..Len(history) /\ Len(history) \in Nat
  BY HistoryLength DEF TrailInv, RolesInv, TaskOK
<1> QED BY <1>1, <1>2, MoreRaced, CutStays

LEMMA RefusedTold ==
    ASSUME TrailInv, NEW s \in Session, Refused(s)
    PROVE  TrailInv'
<1>1. UNCHANGED tables /\ raced' = raced /\ task' = [task EXCEPT ![s] = Nil]
  BY DEF Refused, End
<1>2. RolesInv'
  BY RefusedSafe DEF TrailInv
<1>3. ASSUME NEW r \in Session, task'[r] # Nil PROVE task'[r] = task[r] /\ ~Idle(r)
  BY <1>1, <1>3 DEF TrailInv, RolesInv, Idle
<1> QED BY <1>1, <1>2, <1>3, OldTasks, QuietTables

\* A request comes in knowing what the tables say.
LEMMA ArriveTold ==
    ASSUME TrailInv, NEW s \in Session, NEW t, Arrive(s, t), UNCHANGED tables, RolesInv',
           \A rd : raced \subseteq rd =>
              Fresh(t, users, roles, links, rd) /\ CutOK(t, history, rd)
    PROVE  TrailInv'
<1>1. /\ task' = [task EXCEPT ![s] = t] /\ raced \subseteq raced'
      /\ DOMAIN task = Session
  BY DEF Arrive, TrailInv, RolesInv
<1>2. ASSUME NEW r \in Session, task'[r] # Nil
      PROVE  /\ Fresh(task'[r], users, roles, links, raced')
             /\ CutOK(task'[r], history, raced')
  <2>1. CASE r = s
    <3>1. task'[r] = t
      BY <1>1, <2>1
    <3> QED BY <1>1, <3>1
  <2>2. CASE r # s
    <3>1. task'[r] = task[r] /\ ~Idle(r)
      BY <1>1, <1>2, <2>2 DEF Idle
    <3> QED BY <1>1, <3>1, OldTasks
  <2> QED BY <2>1, <2>2
<1> QED BY <1>1, <1>2, QuietTables

\* Who is let in is active, and that is what the last entry about him says.
LEMMA ArriveByTold ==
    ASSUME TrailInv, NEW s \in Session, NEW u \in DOMAIN users, NEW op, NEW got, NEW on,
           ArriveBy(s, u, op, got, on), GotOK(op, got, on), Found(op, got), UNCHANGED tables
    PROVE  TrailInv'
<1> DEFINE t == NewTask(u, op, got, on)
<1>1. Arrive(s, t) /\ users[u].status = "active"
  BY DEF ArriveBy, NewTask
<1>2. op # "seed"
  BY DEF GotOK, Needs
<1>3. t.op = op /\ t.by = u /\ t.seen = Len(history) /\ t.got = got
  BY DEF NewTask
<1>4. RolesInv'
  BY ArriveBySafe DEF TrailInv
<1> HIDE DEF t
<1>5. ASSUME NEW rd, raced \subseteq rd
      PROVE  Fresh(t, users, roles, links, rd) /\ CutOK(t, history, rd)
  <2>1. Fresh(t, users, roles, links, rd)
    BY <1>2, <1>3 DEF Fresh, Found
  <2>2. CutOK(t, history, rd)
    <3> SUFFICES ASSUME <<"user", u>> \notin raced, NEW i \in 1..Len(history),
                        Sets(u, history[i]),
                        \A j \in (i + 1)..Len(history) : ~Sets(u, history[j])
                 PROVE  history[i].what.status = "active"
      BY <1>3, <1>5 DEF CutOK
    <3> QED BY <1>1 DEF TrailInv, StatusTold, Calm
  <2> QED BY <2>1, <2>2
<1> QED BY <1>1, <1>4, <1>5, ArriveTold

LEMMA ArriveSeedTold ==
    ASSUME TrailInv, NEW s \in Session, ArriveSeed(s)
    PROVE  TrailInv'
<1> DEFINE t == SeedTask
<1>1. Arrive(s, t) /\ UNCHANGED tables
  BY DEF ArriveSeed, SeedTask
<1>2. t.op = "seed" /\ t.got.found = DOMAIN roles /\ DOMAIN t.got.missing = {}
  BY DEF SeedTask
<1>3. RolesInv'
  BY ArriveSeedSafe DEF TrailInv
<1> HIDE DEF t
<1>4. ASSUME NEW rd, raced \subseteq rd
      PROVE  Fresh(t, users, roles, links, rd) /\ CutOK(t, history, rd)
  BY <1>2 DEF Fresh, CutOK
<1> QED BY <1>1, <1>3, <1>4, ArriveTold

\* A seed that reads the links of one more role reads what the table says.
LEMMA ReadLinksTold ==
    ASSUME TrailInv, NEW s \in Session, NEW r \in DOMAIN Default, ReadLinks(s, r)
    PROVE  TrailInv'
<1> DEFINE t == task[s]
           new == task'[s]
           m == Extended(t.got, r)
<1>1. /\ UNCHANGED <<users, roles, links, history, begun, raced>>
      /\ ~Idle(s) /\ t.op = "seed" /\ new.op = "seed"
      /\ new.got.found = t.got.found /\ new.got.missing = m
      /\ \A q \in Session \ {s} : task'[q] = task[q]
      /\ RolesInv'
  BY ReadLinksEffect DEF TrailInv
<1>2. Fresh(t, users, roles, links, raced)
  BY <1>1 DEF TrailInv, FreshOK
<1>3. /\ DOMAIN m = DOMAIN t.got.missing \cup {r}
      /\ m[r] = Default[r] \ (IF r \in t.got.found THEN roles[r].codes ELSE {})
      /\ \A q \in DOMAIN t.got.missing \ {r} : m[q] = t.got.missing[q]
  BY DEF Extended
<1> HIDE DEF m
<1>4. Fresh(new, users, roles, links, raced)
  <2> SUFFICES ASSUME NEW q \in DOMAIN Default, <<"role", q>> \notin raced
               PROVE  /\ q \in new.got.found <=> q \in DOMAIN roles
                      /\ q \in DOMAIN new.got.missing =>
                            new.got.missing[q] = Default[q] \ (IF q \in new.got.found
                                                              THEN roles[q].codes ELSE {})
    BY <1>1 DEF Fresh
  <2>1. /\ q \in t.got.found <=> q \in DOMAIN roles
        /\ q \in DOMAIN t.got.missing =>
              t.got.missing[q] = Default[q] \ (IF q \in t.got.found THEN roles[q].codes
                                              ELSE {})
    BY <1>1, <1>2 DEF Fresh
  <2> QED BY <1>1, <1>3, <2>1
<1>5. CutOK(new, history, raced)
  BY <1>1 DEF CutOK
<1>6. ASSUME NEW q \in Session, task'[q] # Nil
      PROVE  Fresh(task'[q], users, roles, links, raced) /\ CutOK(task'[q], history, raced)
  <2>1. CASE q = s
    BY <1>4, <1>5, <2>1
  <2>2. CASE q # s
    BY <1>1, <1>6, <2>2, OldTasks DEF Idle
  <2> QED BY <2>1, <2>2
<1> QED BY <1>1, <1>6, QuietTables DEF tables

LEMMA TrailStep == TrailInv /\ [Next]_vars => TrailInv'
<1> SUFFICES ASSUME TrailInv, [Next]_vars PROVE TrailInv'
  OBVIOUS
<1>1. CASE UNCHANGED vars
  <2>1. UNCHANGED tables /\ raced' = raced /\ task' = task
    BY <1>1 DEF vars, requests
  <2>2. RolesInv'
    BY <1>1, RolesStep DEF TrailInv
  <2> QED BY <2>1, <2>2, OldTasks, QuietTables DEF Idle
<1>2. ASSUME NEW s \in Session, Arriving(s) PROVE TrailInv'
  BY <1>2, Arrivals, ArriveByTold DEF TrailInv
<1>3. ASSUME NEW s \in Session, ArriveSeed(s) PROVE TrailInv'
  BY <1>3, ArriveSeedTold
<1>4. ASSUME NEW s \in Session, Progress(s) PROVE TrailInv'
  <2>1. CASE CommitCreateUser(s)
    BY <2>1, CreateUserTold, RefusedTold
  <2>2. CASE CommitStatus(s)
    BY <2>2, StatusCommitTold
  <2>3. CASE CommitAssign(s)
    BY <2>3, AssignTold, RefusedTold
  <2>4. CASE CommitRevoke(s)
    BY <2>4, RevokeTold
  <2>5. CASE CommitCreateRole(s)
    BY <2>5, CreateRoleTold, RefusedTold
  <2>6. CASE CommitUpdateRole(s)
    BY <2>6, UpdateRoleTold, RefusedTold
  <2>7. CASE \E r \in DOMAIN Default : ReadLinks(s, r)
    BY <2>7, ReadLinksTold
  <2>8. CASE CommitSeed(s)
    BY <2>8, SeedTold, RefusedTold
  <2> QED BY <1>4, <2>1, <2>2, <2>3, <2>4, <2>5, <2>6, <2>7, <2>8 DEF Progress
<1>5. ASSUME NEW s \in Session, Disconnect(s) PROVE TrailInv'
  BY <1>5, RefusedTold DEF Disconnect
<1> QED BY <1>1, <1>2, <1>3, <1>4, <1>5 DEF Next, Arriving

LEMMA TrailAlways == Spec => []TrailInv
<1>1. Init => TrailInv
  BY TrailInit
<1>2. TrailInv /\ [Next]_vars => TrailInv'
  BY TrailStep
<1> QED BY <1>1, <1>2, PTL DEF Spec

-----------------------------------------------------------------------------

\* Every link is of a user and a role there are, and a request is under way only
\* of a user who was active, as far as the history told, when it came
\* (get_current_user, deps.py:58): whoever was deactivated or suspended before it is
\* not served, however the other requests were interleaved.
THEOREM CutOffStands == Spec => []AccessInv
<1>1. TrailInv => AccessInv
  BY DEF TrailInv, RolesInv, AccessInv
<1> QED BY <1>1, TrailAlways, PTL

\* revoke_role (users.py:190) takes every link of the user and role, of any scope:
\* after it none is left until the role is assigned again, and no other commit
\* (another user's roles, a new user, a seed) brings one back.
THEOREM RevocationsStand == Spec => []RevokedMeansGone
<1>1. TrailInv => RevokedMeansGone
  BY DEF TrailInv
<1> QED BY <1>1, TrailAlways, PTL

\* update_role and create_role leave a role with exactly the codes they were given
\* (roles.py:113), and of what follows only a seed adds to them, the default codes of
\* the role.
THEOREM RolesKeepTheirCodes == Spec => []ExactlyTheCodesGiven
<1>1. TrailInv => ExactlyTheCodesGiven
  BY DEF TrailInv
<1> QED BY <1>1, TrailAlways, PTL

\* What a step that runs a seed has done.
SeedDone ==
    history' # history /\ Last(history').op = "seed" =>
         /\ \A r \in DOMAIN Default : Calm("role", r) =>
               r \in DOMAIN roles' /\ Default[r] \subseteq roles'[r].codes
         /\ \E u \in DOMAIN users' : users'[u].username = Root

LEMMA LastEntry ==
    ASSUME RolesInv, NEW s \in Session, NEW h, Committed(s, h)
    PROVE  Last(history') = h
<1>1. Sequence(history) /\ More(history', history, h)
  BY DEF RolesInv, Committed
<1>2. /\ Sequence(history') /\ Len(history') = Len(history) + 1
      /\ history'[Len(history) + 1] = h
  BY <1>1, OneMore
<1> QED BY <1>2 DEF Last

LEMMA SeedFinishes ==
    ASSUME TrailInv, NEW s \in Session, CommitSeed(s)
    PROVE  SeedDone
<1> DEFINE t == task[s].got
<1>1. CASE Refused(s)
  BY <1>1 DEF Refused, tables, SeedDone
<1>2. CASE ~Refused(s)
  <2>1. /\ HasRoot(users') /\ DOMAIN roles' = DOMAIN roles \cup DOMAIN Default
        /\ \A r \in DOMAIN Default :
              \/ /\ r \in t.found /\ r \in DOMAIN roles
                 /\ roles'[r].codes = roles[r].codes \cup t.missing[r]
              \/ r \notin DOMAIN roles /\ r \notin t.found /\ roles'[r].codes = t.missing[r]
    BY <1>2, SeedEffect DEF TrailInv
  <2>2. ASSUME NEW r \in DOMAIN Default, <<"role", r>> \notin raced
        PROVE  r \in DOMAIN roles' /\ Default[r] \subseteq roles'[r].codes
    <3>1. t.missing[r] = Default[r] \ (IF r \in t.found THEN roles[r].codes ELSE {})
      BY <2>2, SeedKnows
    <3> QED BY <2>1, <3>1
  <2> QED BY <2>1, <2>2 DEF SeedDone, HasRoot, Calm
<1> QED BY <1>1, <1>2

LEMMA SeedStep == TrailInv /\ [Next]_vars => [SeedDone]_vars
<1> SUFFICES ASSUME TrailInv, [Next]_vars PROVE SeedDone \/ UNCHANGED vars
  OBVIOUS
<1>0. RolesInv
  BY DEF TrailInv
<1>1. ASSUME NEW s \in Session, NEW h, Committed(s, h), h.op # "seed" PROVE SeedDone
  BY <1>0, <1>1, LastEntry DEF SeedDone
<1>2. CASE UNCHANGED tables
  BY <1>2 DEF tables, SeedDone
<1>3. ASSUME NEW s \in Session, Progress(s), ~(UNCHANGED tables) PROVE SeedDone
  <2>0. ~Refused(s)
    BY <1>3 DEF Refused
  <2>1. CASE CommitCreateUser(s)
    <3>1. Committed(s, CreateUserEntry(s)) /\ task[s].op = "create_user"
      BY <1>0, <2>0, <2>1, CreateUserEffect
    <3>2. CreateUserEntry(s).op = task[s].op
      BY DEF CreateUserEntry, Entry
    <3> QED BY <1>1, <3>1, <3>2
  <2>2. CASE CommitStatus(s)
    <3>1. Committed(s, StatusEntry(s)) /\ task[s].op \in {"deactivate", "update_user"}
      BY <1>0, <2>2, StatusEffect
    <3> QED BY <1>1, <3>1, EntryFields
  <2>3. CASE CommitAssign(s)
    BY <1>0, <1>1, <2>0, <2>3, AssignEffect, EntryFields
  <2>4. CASE CommitRevoke(s)
    BY <1>0, <1>1, <2>4, RevokeEffect, EntryFields
  <2>5. CASE CommitCreateRole(s)
    <3>1. Committed(s, CodesEntry(s)) /\ task[s].op = "create_role"
      BY <1>0, <2>0, <2>5, CreateRoleEffect
    <3> QED BY <1>1, <3>1, CodesEntryFields
  <2>6. CASE CommitUpdateRole(s)
    <3>1. Committed(s, CodesEntry(s)) /\ task[s].op = "update_role"
      BY <1>0, <2>0, <2>6, UpdateRoleEffect
    <3> QED BY <1>1, <3>1, CodesEntryFields
  <2>7. CASE \E r \in DOMAIN Default : ReadLinks(s, r)
    BY <1>3, <2>7 DEF ReadLinks
  <2>8. CASE CommitSeed(s)
    BY <2>8, SeedFinishes
  <2> QED BY <1>3, <2>1, <2>2, <2>3, <2>4, <2>5, <2>6, <2>7, <2>8 DEF Progress
<1>4. ASSUME NEW s \in Session, Disconnect(s) PROVE UNCHANGED tables
  BY <1>4 DEF Disconnect, Refused
<1>5. ASSUME NEW s \in Session, Arriving(s) PROVE UNCHANGED tables
  BY <1>0, <1>5, Arrivals
<1>6. ASSUME NEW s \in Session, ArriveSeed(s) PROVE UNCHANGED tables
  BY <1>6 DEF ArriveSeed
<1> QED BY <1>2, <1>3, <1>4, <1>5, <1>6 DEF Next, Arriving

\* The seed script is complete when it commits (seed_data.py:5): every default role
\* nobody was changing at once has its default permissions and the administrator
\* exists, whatever tables it started from and whatever was committed while it read.
THEOREM SeedsAreComplete == Spec => SeedComplete
<1>1. TrailInv /\ [Next]_vars => [SeedDone]_vars
  BY SeedStep
<1>2. Spec => [][SeedDone]_vars
  BY <1>1, TrailAlways, PTL DEF Spec
<1>3. [][SeedDone]_vars <=> SeedComplete
  BY DEF SeedDone, SeedComplete
<1> QED BY <1>2, <1>3
=============================================================================
