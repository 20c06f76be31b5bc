------------------------ MODULE RegistrationProofs --------------------------
(***************************************************************************)
(* Proofs about Registration, for every set of sessions and identities and *)
(* every table its assumptions let a behaviour start from.                 *)
(***************************************************************************)
EXTENDS Registration, TLAPS

\* What the task of each handler holds.  The tables are parameters, so that the
\* predicates speak of either end of a step.
EditOK(t, bs) ==
    /\ \/ t.op = "update" /\ t.on = {} /\ t.new.status = t.loaded.status
       \/ t.op = "suspend" /\ t.on = {<<"beneficiary", t.id>>} /\ t.new.status = "suspended"
       \/ t.op = "reactivate" /\ t.on = {<<"beneficiary", t.id>>} /\ t.new.status = "active"
    /\ t.id \in DOMAIN bs /\ t.loaded \in BeneficiaryRow /\ t.new \in BeneficiaryRow

DecisionOK(t, as) ==
    /\ t.op \in DOMAIN Target /\ t.id \in DOMAIN as
    /\ t.on = {<<"application", t.id>>} \cup
              (IF t.op = "approve" THEN {<<"beneficiary", as[t.id].beneficiary>>} ELSE {})
    /\ t.op = "approve" /\ t.at = "decide" => t.loaded \in BeneficiaryStatus

\* A card is about to be issued only for an application with an approval on record.
IssueOK(t, as) ==
    /\ t.op = "issue" /\ t.id \in DOMAIN as
    /\ t = [op |-> t.op, at |-> t.at, on |-> {<<"application", t.id>>}, id |-> t.id]
    /\ "approved" \in DecidedIn(as, t.id)

CardStatusOK(t, cs) ==
    /\ t.op = "card_status" /\ t.id \in DOMAIN cs /\ t.on = {<<"card", t.id>>}
    /\ t.loaded \in CardStatus /\ t.new \in CardStatus

ReplaceOK(t, cs) ==
    /\ t.op = "replace" /\ t.id \in DOMAIN cs
    /\ t = [op |-> t.op, at |-> t.at, on |-> {<<"card", t.id>>}, id |-> t.id]

RegisterOK(t) ==
    /\ t.op = "register" /\ t.cnic \in Cnic \cup {Nil}
    /\ t = [op |-> t.op, at |-> t.at, on |-> {}, cnic |-> t.cnic]

ApplyOK(t, bs) ==
    /\ t.op = "apply" /\ t.beneficiary \in DOMAIN bs
    /\ t = [op |-> t.op, at |-> t.at, on |-> {}, beneficiary |-> t.beneficiary]

DocumentOK(t, as, ds) ==
    \/ t.op = "upload" /\ t.id \in DOMAIN as /\ t.file \in Nat \ {0} /\ t.on = {}
    \/ /\ t.op = "verify" /\ t.id \in DOMAIN ds /\ t.on = {<<"document", t.id>>}
       /\ t.loaded \in DocumentStatus /\ t.new \in DocumentStatus

TaskOK(t, bs, as, cs, ds) ==
    \/ RegisterOK(t)
    \/ EditOK(t, bs)
    \/ ApplyOK(t, bs)
    \/ DecisionOK(t, as)
    \/ IssueOK(t, as)
    \/ CardStatusOK(t, cs)
    \/ ReplaceOK(t, cs)
    \/ DocumentOK(t, as, ds)

TasksOK ==
    /\ DOMAIN task = Session
    /\ \A s \in Session :
          ~Idle(s) => TaskOK(task[s], beneficiaries, applications, cards, documents)

CardsOnRecord == CardsApproved(applications, cards)

\* A card in order: the last decision on its application is the approval.
CardsInOrder ==
    \A c \in DOMAIN cards : <<"application", cards[c].app>> \notin raced =>
        IssuedOnApproval(applications, cards[c].app)

RegistryInv == StatusInv /\ CardsOnRecord /\ TasksOK

\* Rows stay, with what refers to other rows, and so do decisions on record.
Grew ==
    /\ DOMAIN beneficiaries \subseteq DOMAIN beneficiaries'
    /\ \A a \in DOMAIN applications :
          /\ a \in DOMAIN applications'
          /\ applications'[a].beneficiary = applications[a].beneficiary
          /\ DecidedIn(applications, a) \subseteq DecidedIn(applications', a)
    /\ \A c \in DOMAIN cards : c \in DOMAIN cards' /\ cards'[c].app = cards[c].app
    /\ DOMAIN documents \subseteq DOMAIN documents'

-----------------------------------------------------------------------------
\* Two requests are about one object only when it counts as raced.
RacedOK ==
    \A r, s \in Session :
        r # s /\ ~Idle(r) /\ ~Idle(s) => task[r].on \cap task[s].on \subseteq raced

\* What a request has read of a status still holds when it commits, unless the
\* object is raced.
Fresh(t, bs, as, cs) ==
    /\ t.op \in {"suspend", "reactivate"} =>
          <<"beneficiary", t.id>> \in raced \/ bs[t.id].status = t.loaded.status
    /\ t.op = "approve" /\ t.at = "decide" =>
          \/ <<"beneficiary", as[t.id].beneficiary>> \in raced
          \/ bs[as[t.id].beneficiary].status = t.loaded
    /\ t.op \in DOMAIN Target =>
          <<"application", t.id>> \in raced \/ Target[t.op] \in Allowed[as[t.id].status]
    /\ t.op = "issue" => <<"application", t.id>> \in raced \/ as[t.id].status = "approved"
    /\ t.op = "replace" => <<"card", t.id>> \in raced \/ cs[t.id].status # "replaced"

FreshOK ==
    \A s \in Session : ~Idle(s) => Fresh(task[s], beneficiaries, applications, cards)

\* The entries of the audit trail that speak of a status name rows there are.
AuditNames(bs, as, e) ==
    /\ e[1] = "beneficiary" => e[3] \in DOMAIN bs
    /\ e[1] = "application" => e[3] \in DOMAIN as

AuditOK == \A i \in DOMAIN audit : AuditNames(beneficiaries, applications, audit[i])

AuditedInv ==
    /\ RegistryInv /\ RacedOK /\ FreshOK /\ AuditOK
    /\ CardsInOrder /\ OneLiveCard /\ StatusAsAudited

-----------------------------------------------------------------------------

LEMMA SeqWider ==
    ASSUME NEW S, NEW T, S \subseteq T, NEW q \in Seq(S)
    PROVE  q \in Seq(T)
OBVIOUS

LEMMA LastAppended ==
    ASSUME NEW S, NEW q \in Seq(S), NEW x \in S
    PROVE  /\ Last(Append(q, x)) = x /\ Append(q, x) # << >>
           /\ ToSet(q) \subseteq ToSet(Append(q, x))
BY DEF Last, ToSet

\* The decisions of the endpoints are statuses, none of them the one a card gives,
\* and no endpoint decides on an application that has its card.
LEMMA Decisions ==
    ASSUME NEW op \in DOMAIN Target
    PROVE  /\ Target[op] \in ApplicationStatus /\ Target[op] # "card_issued"
           /\ Target[op] \notin Allowed["card_issued"]
           /\ Target[op] = "approved" <=> op = "approve"
BY DEF Target, ApplicationStatus, Allowed

LEMMA Statuses == {"draft", "approved", "card_issued"} \subseteq ApplicationStatus
BY DEF ApplicationStatus, Allowed

\* A task stays right while the tables grow.
LEMMA TaskStays ==
    ASSUME Grew, NEW t, TaskOK(t, beneficiaries, applications, cards, documents)
    PROVE  TaskOK(t, beneficiaries', applications', cards', documents')
<1>1. EditOK(t, beneficiaries) => EditOK(t, beneficiaries')
  BY DEF Grew, EditOK
<1>2. DecisionOK(t, applications) => DecisionOK(t, applications')
  BY DEF Grew, DecisionOK
<1>3. IssueOK(t, applications) => IssueOK(t, applications')
  BY DEF Grew, IssueOK
<1>4. CardStatusOK(t, cards) => CardStatusOK(t, cards')
  BY DEF Grew, CardStatusOK
<1>5. ReplaceOK(t, cards) => ReplaceOK(t, cards')
  BY DEF Grew, ReplaceOK
<1>6. DocumentOK(t, applications, documents) => DocumentOK(t, applications', documents')
  BY DEF Grew, DocumentOK
<1>7. ApplyOK(t, beneficiaries) => ApplyOK(t, beneficiaries')
  BY DEF Grew, ApplyOK
<1> QED BY <1>1, <1>2, <1>3, <1>4, <1>5, <1>6, <1>7 DEF TaskOK

\* The shape of a task follows from its operation.
LEMMA TaskShapes ==
    ASSUME RegistryInv, NEW s \in Session, ~Idle(s)
    PROVE  LET t == task[s] IN
           /\ t.op = "register" => RegisterOK(t)
           /\ t.op \in {"update", "suspend", "reactivate"} => EditOK(t, beneficiaries)
           /\ t.op = "apply" => ApplyOK(t, beneficiaries)
           /\ t.op \in DOMAIN Target => DecisionOK(t, applications)
           /\ t.op = "issue" => IssueOK(t, applications)
           /\ t.op = "card_status" => CardStatusOK(t, cards)
           /\ t.op = "replace" => ReplaceOK(t, cards)
           /\ t.op \in {"upload", "verify"} => DocumentOK(t, applications, documents)
BY DEF RegistryInv, TasksOK, TaskOK, RegisterOK, EditOK, ApplyOK, DecisionOK, IssueOK,
       CardStatusOK, ReplaceOK, DocumentOK, Target

\* A request that arrives with a right task, or goes on with one.
LEMMA ArriveSafe ==
    ASSUME RegistryInv, NEW s \in Session, NEW t, Arrive(s, t) \/ Continue(s, t),
           TaskOK(t, beneficiaries, applications, cards, documents),
           UNCHANGED tables, files' \in Nat
    PROVE  RegistryInv'
<1>1. UNCHANGED <<beneficiaries, applications, cards, documents, audit>>
  BY DEF tables
<1>2. begun' \in 0..MaxRequests
  BY MaxRequestsIsNat DEF RegistryInv, StatusInv, TypeOK, Arrive, Continue
<1>3. StatusInv' /\ CardsOnRecord'
  BY <1>1, <1>2 DEF RegistryInv, StatusInv, TypeOK, RecordsExplainStatus, CardsOnRecord
<1>4. TasksOK'
  BY <1>1 DEF RegistryInv, TasksOK, Arrive, Continue, Idle
<1> QED BY <1>3, <1>4 DEF RegistryInv

\* The end of a request that leaves the tables right.
LEMMA EndSafe ==
    ASSUME RegistryInv, NEW s \in Session, End(s), Grew, StatusInv', CardsOnRecord'
    PROVE  RegistryInv'
<1>1. DOMAIN task' = Session
  BY DEF RegistryInv, TasksOK, End
<1>2. ASSUME NEW r \in Session, task'[r] # Nil
      PROVE  TaskOK(task'[r], beneficiaries', applications', cards', documents')
  <2>1. task'[r] = task[r] /\ ~Idle(r)
    BY <1>2 DEF RegistryInv, TasksOK, End, Idle
  <2>2. TaskOK(task[r], beneficiaries, applications, cards, documents)
    BY <2>1 DEF RegistryInv, TasksOK
  <2> QED BY <2>1, <2>2, TaskStays
<1>3. TasksOK'
  BY <1>1, <1>2 DEF TasksOK, Idle
<1> QED BY <1>3 DEF RegistryInv

LEMMA RegistryInit == Init => RegistryInv
<1> SUFFICES ASSUME Init PROVE RegistryInv
  OBVIOUS
<1>1. StatusInv /\ CardsOnRecord
  BY WorldsAssumption, MaxRequestsIsNat
     DEF Init, InitRequests, StatusInv, TypeOK, RecordsExplainStatus, CardsOnRecord
<1>2. TasksOK
  BY DEF Init, InitRequests, TasksOK, Idle
<1> QED BY <1>1, <1>2 DEF RegistryInv

\* New tasks, one per handler.
LEMMA ArriveBeneficiarySafe ==
    ASSUME RegistryInv, NEW s \in Session,
           \/ \E c \in Cnic \cup {Nil} : ArriveRegister(s, c)
           \/ \E b \in DOMAIN beneficiaries :
                 \/ \E c \in Cnic : ArriveUpdate(s, b, c)
                 \/ ArriveSuspend(s, b) \/ ArriveReactivate(s, b) \/ ArriveApply(s, b)
    PROVE  RegistryInv'
<1>1. files \in Nat
  BY DEF RegistryInv, StatusInv, TypeOK
<1>2. ASSUME NEW b \in DOMAIN beneficiaries
      PROVE  beneficiaries[b] \in BeneficiaryRow
  BY DEF RegistryInv, StatusInv, TypeOK
<1>3. ASSUME NEW c \in Cnic \cup {Nil}, ArriveRegister(s, c) PROVE RegistryInv'
  BY <1>1, <1>3, ArriveSafe DEF ArriveRegister, TaskOK, RegisterOK
<1>4. ASSUME NEW b \in DOMAIN beneficiaries, NEW c \in Cnic, ArriveUpdate(s, b, c)
      PROVE  RegistryInv'
  <2> DEFINE new == [beneficiaries[b] EXCEPT !.cnic = c]
  <2>1. new \in BeneficiaryRow /\ new.status = beneficiaries[b].status
    BY <1>2 DEF BeneficiaryRow
  <2> QED BY <1>1, <1>2, <1>4, <2>1, ArriveSafe DEF ArriveUpdate, ArriveEdit, TaskOK, EditOK
<1>5. ASSUME NEW b \in DOMAIN beneficiaries, ArriveSuspend(s, b) PROVE RegistryInv'
  <2> DEFINE new == [beneficiaries[b] EXCEPT !.status = "suspended"]
  <2>1. new \in BeneficiaryRow /\ new.status = "suspended"
    BY <1>2 DEF BeneficiaryRow, BeneficiaryStatus
  <2> QED BY <1>1, <1>2, <1>5, <2>1, ArriveSafe DEF ArriveSuspend, ArriveEdit, TaskOK, EditOK
<1>6. ASSUME NEW b \in DOMAIN beneficiaries, ArriveReactivate(s, b) PROVE RegistryInv'
  <2> DEFINE new == [beneficiaries[b] EXCEPT !.status = "active"]
  <2>1. new \in BeneficiaryRow /\ new.status = "active"
    BY <1>2 DEF BeneficiaryRow, BeneficiaryStatus
  <2> QED BY <1>1, <1>2, <1>6, <2>1, ArriveSafe DEF ArriveReactivate, ArriveEdit, TaskOK, EditOK
<1>7. ASSUME NEW b \in DOMAIN beneficiaries, ArriveApply(s, b) PROVE RegistryInv'
  BY <1>1, <1>7, ArriveSafe DEF ArriveApply, TaskOK, ApplyOK
<1> QED BY <1>3, <1>4, <1>5, <1>6, <1>7

\* An approved application has the approval on record: what the check of issue_card
\* rests on.
LEMMA ApprovedIsOnRecord ==
    ASSUME RegistryInv, NEW a \in DOMAIN applications, applications[a].status = "approved"
    PROVE  "approved" \in DecidedIn(applications, a)
<1> DEFINE q == applications[a].records
<1>1. applications[a] \in ApplicationRow(beneficiaries)
  BY DEF RegistryInv, StatusInv, TypeOK
<1>2. q \in Seq(ApplicationStatus)
  BY <1>1 DEF ApplicationRow
<1>3. q # << >> /\ Last(q) = "approved"
  BY DEF RegistryInv, StatusInv, RecordsExplainStatus, Explained
<1>4. Len(q) \in DOMAIN q /\ q[Len(q)] = "approved"
  BY <1>2, <1>3 DEF Last
<1> QED BY <1>4 DEF DecidedIn, ToSet

LEMMA ArriveApplicationSafe ==
    ASSUME RegistryInv, NEW s \in Session, NEW a \in DOMAIN applications,
           \/ \E op \in DOMAIN Target, reason \in BOOLEAN : ArriveDecision(s, a, op, reason)
           \/ ArriveIssue(s, a) \/ ArriveUpload(s, a)
    PROVE  RegistryInv'
<1>1. files \in Nat
  BY DEF RegistryInv, StatusInv, TypeOK
<1>2. ASSUME NEW op \in DOMAIN Target, NEW reason \in BOOLEAN, ArriveDecision(s, a, op, reason)
      PROVE  RegistryInv'
  <2> DEFINE new == [op |-> op, id |-> a, on |-> Touched(a, op),
                     at |-> IF op = "approve" THEN "beneficiary" ELSE "decide"]
  <2>1. DecisionOK(new, applications)
    BY DEF DecisionOK, Touched
  <2>2. Arrive(s, new) /\ UNCHANGED <<tables, files>>
    BY <1>2 DEF ArriveDecision
  <2> HIDE DEF new
  <2> QED BY <1>1, <2>1, <2>2, ArriveSafe DEF TaskOK
<1>3. CASE ArriveIssue(s, a)
  <2>1. "approved" \in DecidedIn(applications, a)
    BY <1>3, ApprovedIsOnRecord DEF ArriveIssue
  <2> QED BY <1>1, <1>3, <2>1, ArriveSafe DEF ArriveIssue, TaskOK, IssueOK
<1>4. CASE ArriveUpload(s, a)
  <2>1. files + 1 \in Nat \ {0}
    BY <1>1
  <2> QED BY <1>4, <2>1, ArriveSafe DEF ArriveUpload, TaskOK, DocumentOK
<1> QED BY <1>2, <1>3, <1>4

LEMMA ArriveCardSafe ==
    ASSUME RegistryInv, NEW s \in Session,
           \/ \E c \in DOMAIN cards :
                 ArriveReplace(s, c) \/ \E new \in CardStatus : ArriveCardStatus(s, c, new)
           \/ \E d \in DOMAIN documents, new \in DocumentStatus : ArriveVerify(s, d, new)
    PROVE  RegistryInv'
<1>1. files \in Nat
  BY DEF RegistryInv, StatusInv, TypeOK
<1>2. ASSUME NEW c \in DOMAIN cards, ArriveReplace(s, c) PROVE RegistryInv'
  BY <1>1, <1>2, ArriveSafe DEF ArriveReplace, TaskOK, ReplaceOK
<1>3. ASSUME NEW c \in DOMAIN cards, NEW new \in CardStatus, ArriveCardStatus(s, c, new)
      PROVE  RegistryInv'
  <2>1. cards[c] \in CardRow(applications, cards)
    BY DEF RegistryInv, StatusInv, TypeOK
  <2>2. cards[c].status \in CardStatus
    BY <2>1 DEF CardRow
  <2> QED BY <1>1, <1>3, <2>2, ArriveSafe DEF ArriveCardStatus, TaskOK, CardStatusOK
<1>4. ASSUME NEW d \in DOMAIN documents, NEW new \in DocumentStatus, ArriveVerify(s, d, new)
      PROVE  RegistryInv'
  <2>1. documents[d] \in DocumentRow(applications)
    BY DEF RegistryInv, StatusInv, TypeOK
  <2>2. documents[d].status \in DocumentStatus
    BY <2>1 DEF DocumentRow
  <2> QED BY <1>1, <1>4, <2>2, ArriveSafe DEF ArriveVerify, TaskOK, DocumentOK
<1> QED BY <1>2, <1>3, <1>4

\* A row that waited for its "PENDING" code, and an approval that goes on.
LEMMA ContinueSafe ==
    ASSUME RegistryInv, NEW s \in Session, InsertCoded(s) \/ ReadBeneficiary(s)
    PROVE  RegistryInv'
<1> DEFINE t == task[s]
<1>1. files \in Nat
  BY DEF RegistryInv, StatusInv, TypeOK
<1>2. TaskOK(t, beneficiaries, applications, cards, documents)
  BY DEF RegistryInv, TasksOK, InsertCoded, InsertPending, ReadBeneficiary, At
<1>3. CASE InsertCoded(s)
  <2> DEFINE new == [t EXCEPT !.at = "commit"]
  <2>1. t.op \in {"register", "apply", "issue", "replace"} /\ Continue(s, new)
    BY <1>3 DEF InsertCoded, InsertPending
  <2>2. \/ RegisterOK(t) \/ ApplyOK(t, beneficiaries)
        \/ IssueOK(t, applications) \/ ReplaceOK(t, cards)
    BY <1>2, <2>1 DEF TaskOK, EditOK, DecisionOK, CardStatusOK, DocumentOK, Target
  <2>3. TaskOK(new, beneficiaries, applications, cards, documents)
    <3>1. RegisterOK(t) => RegisterOK(new)
      BY DEF RegisterOK
    <3>2. ApplyOK(t, beneficiaries) => ApplyOK(new, beneficiaries)
      BY DEF ApplyOK
    <3>3. IssueOK(t, applications) => IssueOK(new, applications)
      BY DEF IssueOK
    <3>4. ReplaceOK(t, cards) => ReplaceOK(new, cards)
      BY DEF ReplaceOK
    <3> QED BY <2>2, <3>1, <3>2, <3>3, <3>4 DEF TaskOK
  <2> HIDE DEF new
  <2> QED BY <1>1, <1>3, <2>1, <2>3, ArriveSafe DEF InsertCoded
<1>4. CASE ReadBeneficiary(s)
  <2> DEFINE b == applications[t.id].beneficiary
             new == [op |-> t.op, id |-> t.id, on |-> t.on, at |-> "decide",
                     loaded |-> beneficiaries[b].status]
  <2>1. DecisionOK(t, applications)
    BY <1>4, TaskShapes DEF ReadBeneficiary, At, Target
  <2>2. beneficiaries[b].status \in BeneficiaryStatus
    <3>1. applications[t.id] \in ApplicationRow(beneficiaries)
      BY <2>1 DEF RegistryInv, StatusInv, TypeOK, DecisionOK
    <3>2. b \in DOMAIN beneficiaries
      BY <3>1 DEF ApplicationRow
    <3>3. beneficiaries[b] \in BeneficiaryRow
      BY <3>2 DEF RegistryInv, StatusInv, TypeOK
    <3> QED BY <3>3 DEF BeneficiaryRow
  <2>3. DecisionOK(new, applications)
    BY <2>1, <2>2 DEF DecisionOK
  <2>4. Continue(s, new) /\ UNCHANGED <<tables, files>>
    BY <1>4 DEF ReadBeneficiary
  <2> HIDE DEF new
  <2> QED BY <1>1, <2>3, <2>4, ArriveSafe DEF TaskOK
<1> QED BY <1>3, <1>4

\* The rows keep their types when the tables they refer to grow.
LEMMA RowsWiden ==
    ASSUME NEW bs, NEW bs2, DOMAIN bs \subseteq DOMAIN bs2,
           NEW as, NEW as2, DOMAIN as \subseteq DOMAIN as2,
           NEW cs, NEW cs2, DOMAIN cs \subseteq DOMAIN cs2
    PROVE  /\ ApplicationRow(bs) \subseteq ApplicationRow(bs2)
           /\ CardRow(as, cs) \subseteq CardRow(as2, cs2)
           /\ DocumentRow(as) \subseteq DocumentRow(as2)
BY DEF ApplicationRow, CardRow, DocumentRow

\* An audit row of the right shape.
LEMMA Logs ==
    ASSUME RegistryInv, NEW entity \in Entity, NEW action \in Action, NEW id \in Nat,
           Log(entity, action, id)
    PROVE  audit' \in Seq(AuditRow)
<1> DEFINE row == <<entity, action, id>>
<1>1. row \in AuditRow
  BY DEF AuditRow
<1>2. audit \in Seq(AuditRow) /\ audit' = Append(audit, row)
  BY DEF RegistryInv, StatusInv, TypeOK, Log
<1> HIDE DEF row
<1> QED BY <1>1, <1>2

LEMMA CommitBeneficiarySafe ==
    ASSUME RegistryInv, NEW s \in Session, CommitRegister(s) \/ CommitEdit(s)
    PROVE  /\ RegistryInv'
           /\ DOMAIN beneficiaries \subseteq DOMAIN beneficiaries'
<1> DEFINE t == task[s]
<1>1. /\ beneficiaries \in Seq(BeneficiaryRow) /\ applications \in Seq(ApplicationRow(beneficiaries))
      /\ UNCHANGED <<applications, cards, documents, files>> /\ End(s) /\ begun' = begun
  BY DEF RegistryInv, StatusInv, TypeOK, CommitRegister, CommitEdit, End
<1>2. /\ beneficiaries' \in Seq(BeneficiaryRow)
      /\ DOMAIN beneficiaries \subseteq DOMAIN beneficiaries'
      /\ audit' \in Seq(AuditRow)
  <2>1. CASE CommitRegister(s)
    <3>1. t.cnic \in Cnic \cup {Nil}
      BY <2>1, TaskShapes DEF CommitRegister, At, RegisterOK
    <3>2. [cnic |-> t.cnic, status |-> "pending"] \in BeneficiaryRow
      BY <3>1 DEF BeneficiaryRow, BeneficiaryStatus
    <3>3. beneficiaries' = Append(beneficiaries, [cnic |-> t.cnic, status |-> "pending"])
      BY <2>1 DEF CommitRegister
    <3>4. Len(beneficiaries) + 1 \in Nat
      BY <1>1
    <3>5. audit' \in Seq(AuditRow)
      BY <2>1, <3>4, Logs DEF CommitRegister, Entity, Action
    <3> QED BY <1>1, <3>2, <3>3, <3>5
  <2>2. CASE CommitEdit(s)
    <3>1. EditOK(t, beneficiaries)
      BY <2>2, TaskShapes DEF CommitEdit, At
    <3> DEFINE old == beneficiaries[t.id]
               new == [cnic   |-> Assigned(t.loaded.cnic, t.new.cnic, old.cnic),
                       status |-> Assigned(t.loaded.status, t.new.status, old.status)]
    <3>2. old \in BeneficiaryRow
      BY <1>1, <3>1 DEF EditOK
    <3>3. new \in BeneficiaryRow
      BY <3>1, <3>2 DEF EditOK, BeneficiaryRow, Assigned
    <3>4. beneficiaries' = [beneficiaries EXCEPT ![t.id] = new]
      BY <2>2 DEF CommitEdit
    <3>5. PICK op \in {"update", "suspend", "reactivate"} : Log("beneficiary", op, t.id)
      BY <2>2 DEF CommitEdit
    <3>6. audit' \in Seq(AuditRow)
      <4>1. t.id \in Nat
        BY <1>1, <3>1 DEF EditOK
      <4> QED BY <3>5, <4>1, Logs DEF Entity, Action
    <3> HIDE DEF new
    <3> QED BY <1>1, <3>1, <3>3, <3>4, <3>6 DEF EditOK
  <2> QED BY <2>1, <2>2
<1>3. StatusInv'
  <2>1. ApplicationRow(beneficiaries) \subseteq ApplicationRow(beneficiaries')
    BY <1>2 DEF ApplicationRow
  <2>2. applications' \in Seq(ApplicationRow(beneficiaries'))
    BY <1>1, <2>1, SeqWider
  <2> QED BY <1>1, <1>2, <2>2 DEF RegistryInv, StatusInv, TypeOK, RecordsExplainStatus
<1>4. CardsOnRecord' /\ Grew
  BY <1>1, <1>2 DEF RegistryInv, CardsOnRecord, Grew
<1> QED BY <1>1, <1>2, <1>3, <1>4, EndSafe

\* A new row in the table of applications, or a status with its record.
LEMMA CommitApplySafe ==
    ASSUME RegistryInv, NEW s \in Session, CommitApply(s)
    PROVE  /\ RegistryInv' /\ Grew
           /\ applications' = Append(applications, [beneficiary |-> task[s].beneficiary,
                                                    status |-> "draft", records |-> << >>])
<1> DEFINE t == task[s]
           row == [beneficiary |-> t.beneficiary, status |-> "draft", records |-> << >>]
<1>1. /\ applications \in Seq(ApplicationRow(beneficiaries))
      /\ UNCHANGED <<beneficiaries, cards, documents, files>> /\ End(s) /\ begun' = begun
      /\ applications' = Append(applications, row)
  BY DEF RegistryInv, StatusInv, TypeOK, CommitApply, End
<1>2. t.beneficiary \in DOMAIN beneficiaries
  BY TaskShapes DEF CommitApply, At, ApplyOK
<1>3. row \in ApplicationRow(beneficiaries)
  BY <1>2, Statuses DEF ApplicationRow
<1>4. row.status = "draft" /\ row.records = << >>
  OBVIOUS
<1> HIDE DEF row
<1>5. /\ applications' \in Seq(ApplicationRow(beneficiaries))
      /\ DOMAIN applications' = DOMAIN applications \cup {Len(applications) + 1}
      /\ applications'[Len(applications) + 1] = row
      /\ \A a \in DOMAIN applications : a # Len(applications) + 1 /\ applications'[a] = applications[a]
  BY <1>1, <1>3
<1>6. audit' \in Seq(AuditRow)
  <2>1. Len(applications) + 1 \in Nat
    BY <1>1
  <2> QED BY <2>1, Logs DEF CommitApply, Entity, Action
<1>7. Explained(applications', cards')
  BY <1>1, <1>4, <1>5 DEF RegistryInv, StatusInv, RecordsExplainStatus, Explained, DecidedIn
<1>8. Grew
  BY <1>1, <1>5 DEF Grew, DecidedIn
<1>9. /\ cards \in Seq(CardRow(applications, cards)) /\ cards \in Seq(CardRow(applications', cards))
      /\ documents \in Seq(DocumentRow(applications'))
  <2>1. DOMAIN applications \subseteq DOMAIN applications'
    BY <1>5
  <2>2. /\ CardRow(applications, cards) \subseteq CardRow(applications', cards)
        /\ DocumentRow(applications) \subseteq DocumentRow(applications')
    BY <2>1, RowsWiden
  <2> QED BY <2>2, SeqWider DEF RegistryInv, StatusInv, TypeOK
<1>10. StatusInv'
  BY <1>1, <1>5, <1>6, <1>7, <1>9 DEF RegistryInv, StatusInv, TypeOK, RecordsExplainStatus
<1>11. CardsOnRecord'
  <2>1. ASSUME NEW c \in DOMAIN cards PROVE cards[c].app \in DOMAIN applications
    <3>1. cards[c] \in CardRow(applications, cards)
      BY <1>9
    <3> QED BY <3>1 DEF CardRow
  <2> QED BY <1>1, <1>5, <2>1 DEF RegistryInv, CardsOnRecord, CardsApproved, DecidedIn
<1> QED BY <1>1, <1>8, <1>10, <1>11, EndSafe DEF row

\* A decision is the last record of its application, the status it gives; the
\* others stay, and an approval may change the status of the beneficiary.
LEMMA CommitDecisionSafe ==
    ASSUME RegistryInv, NEW s \in Session, CommitDecision(s)
    PROVE  /\ RegistryInv' /\ Grew /\ DecisionOK(task[s], applications)
           /\ DOMAIN applications' = DOMAIN applications
           /\ DOMAIN beneficiaries' = DOMAIN beneficiaries
           /\ applications'[task[s].id].status = Target[task[s].op]
           /\ \A a \in DOMAIN applications \ {task[s].id} : applications'[a] = applications[a]
<1> DEFINE t == task[s]
           b == applications[t.id].beneficiary
           old == applications[t.id]
           new == [old EXCEPT !.status = Target[t.op], !.records = Append(@, Target[t.op])]
<1>1. /\ UNCHANGED <<cards, documents, files>> /\ End(s) /\ begun' = begun
      /\ applications \in Seq(ApplicationRow(beneficiaries))
      /\ beneficiaries \in Seq(BeneficiaryRow)
  BY DEF RegistryInv, StatusInv, TypeOK, CommitDecision, End
<1>2. DecisionOK(t, applications) /\ t.at = "decide"
  BY TaskShapes DEF CommitDecision, At
<1>3. old \in ApplicationRow(beneficiaries) /\ t.id \in DOMAIN applications
  BY <1>1, <1>2 DEF DecisionOK
<1>4. old.beneficiary \in DOMAIN beneficiaries /\ old.records \in Seq(ApplicationStatus)
  BY <1>3 DEF ApplicationRow
<1>5. Target[t.op] \in ApplicationStatus
  BY <1>2, Decisions DEF DecisionOK
<1>6. /\ new \in ApplicationRow(beneficiaries) /\ new.status = Target[t.op]
      /\ new.records = Append(old.records, Target[t.op]) /\ new.beneficiary = old.beneficiary
  <2> DEFINE q == Append(old.records, Target[t.op])
  <2>1. q \in Seq(ApplicationStatus)
    BY <1>4, <1>5
  <2>2. new = [old EXCEPT !.status = Target[t.op], !.records = q]
    BY <1>3 DEF ApplicationRow
  <2> HIDE DEF q, new
  <2>3. /\ new \in ApplicationRow(beneficiaries) /\ new.status = Target[t.op]
        /\ new.records = q /\ new.beneficiary = old.beneficiary
    BY <1>3, <1>5, <2>1, <2>2 DEF ApplicationRow
  <2> QED BY <2>3 DEF q
<1>7. applications' = [applications EXCEPT ![t.id] = new]
  <2>1. applications' = [applications EXCEPT
           ![t.id].status = Target[t.op], ![t.id].records = Append(@, Target[t.op])]
    BY DEF CommitDecision, At
  <2> QED BY <1>1, <1>3, <2>1 DEF ApplicationRow
<1>8. Last(new.records) = new.status /\ new.records # << >>
      /\ \A d \in ToSet(old.records) : d \in ToSet(new.records)
  BY <1>4, <1>5, <1>6, LastAppended
<1> HIDE DEF new
<1>9. /\ applications' \in Seq(ApplicationRow(beneficiaries))
      /\ DOMAIN applications' = DOMAIN applications /\ applications'[t.id] = new
      /\ \A a \in DOMAIN applications \ {t.id} : applications'[a] = applications[a]
  BY <1>1, <1>3, <1>6, <1>7
<1>10. beneficiaries' \in Seq(BeneficiaryRow) /\ DOMAIN beneficiaries' = DOMAIN beneficiaries
  <2>1. CASE t.op = "approve"
    <3>1. beneficiaries' = [beneficiaries EXCEPT ![b].status = Assigned(t.loaded, "active", @)]
      BY <2>1 DEF CommitDecision, At
    <3> DEFINE row == [beneficiaries[b] EXCEPT !.status =
                          Assigned(t.loaded, "active", beneficiaries[b].status)]
    <3>2. beneficiaries' = [beneficiaries EXCEPT ![b] = row]
      BY <1>1, <1>4, <3>1
    <3>3. beneficiaries[b] \in BeneficiaryRow
      BY <1>1, <1>4
    <3>4. row \in BeneficiaryRow
      BY <3>3 DEF BeneficiaryRow, BeneficiaryStatus, Assigned
    <3> HIDE DEF row
    <3> QED BY <1>1, <1>4, <3>2, <3>4
  <2>2. CASE t.op # "approve"
    BY <1>1, <2>2 DEF CommitDecision, At
  <2> QED BY <2>1, <2>2
<1>11. audit' \in Seq(AuditRow)
  <2>1. t.op \in Action /\ t.id \in Nat
    BY <1>1, <1>2 DEF DecisionOK, Action
  <2>2. Log("application", t.op, t.id)
    BY DEF CommitDecision, At
  <2> QED BY <2>1, <2>2, Logs DEF Entity
<1>12. Explained(applications', cards')
  <2>1. applications'[t.id].records # << >>
        /\ applications'[t.id].status = Last(applications'[t.id].records)
    BY <1>8, <1>9
  <2>2. Explained(applications, cards) /\ cards' = cards
    BY <1>1 DEF RegistryInv, StatusInv, RecordsExplainStatus
  <2> QED BY <1>9, <2>1, <2>2 DEF Explained, DecidedIn
<1>13. \A a \in DOMAIN applications : DecidedIn(applications, a) \subseteq DecidedIn(applications', a)
  BY <1>8, <1>9 DEF DecidedIn
<1>14. Grew
  BY <1>1, <1>6, <1>9, <1>10, <1>13 DEF Grew
<1>15. /\ ApplicationRow(beneficiaries') = ApplicationRow(beneficiaries)
       /\ CardRow(applications', cards) = CardRow(applications, cards)
       /\ DocumentRow(applications') = DocumentRow(applications)
  BY <1>9, <1>10 DEF ApplicationRow, CardRow, DocumentRow
<1>16. StatusInv'
  BY <1>1, <1>9, <1>10, <1>11, <1>12, <1>15 DEF RegistryInv, StatusInv, TypeOK, RecordsExplainStatus
<1>17. CardsOnRecord'
  <2>1. cards \in Seq(CardRow(applications, cards))
    BY DEF RegistryInv, StatusInv, TypeOK
  <2>2. ASSUME NEW c \in DOMAIN cards PROVE cards[c].app \in DOMAIN applications
    <3>1. cards[c] \in CardRow(applications, cards)
      BY <2>1
    <3> QED BY <3>1 DEF CardRow
  <2> QED BY <1>1, <1>13, <2>2 DEF RegistryInv, CardsOnRecord, CardsApproved
<1> QED BY <1>1, <1>2, <1>6, <1>9, <1>10, <1>14, <1>16, <1>17, EndSafe

\* An issued card comes with its application in the status that says so.
LEMMA CommitIssueSafe ==
    ASSUME RegistryInv, NEW s \in Session, CommitIssue(s)
    PROVE  /\ RegistryInv' /\ Grew /\ IssueOK(task[s], applications)
           /\ DOMAIN cards' = DOMAIN cards \cup {Len(cards) + 1} /\ Len(cards) + 1 \notin DOMAIN cards
           /\ \A c \in DOMAIN cards : cards'[c] = cards[c]
           /\ cards'[Len(cards) + 1].app = task[s].id
           /\ cards'[Len(cards) + 1].status = "active"
           /\ DOMAIN applications' = DOMAIN applications
           /\ applications'[task[s].id].status = "card_issued"
           /\ \A a \in DOMAIN applications \ {task[s].id} : applications'[a] = applications[a]
<1> DEFINE t == task[s]
           card == [app |-> t.id, status |-> "active", replaced_from |-> Nil]
           old == applications[t.id]
           new == [old EXCEPT !.status = "card_issued"]
<1>1. /\ UNCHANGED <<beneficiaries, documents, files>> /\ End(s) /\ begun' = begun
      /\ applications \in Seq(ApplicationRow(beneficiaries))
      /\ cards \in Seq(CardRow(applications, cards))
      /\ cards' = Append(cards, card)
  BY DEF RegistryInv, StatusInv, TypeOK, CommitIssue, End
<1>2. IssueOK(t, applications)
  BY TaskShapes DEF CommitIssue, At
<1>3. t.id \in DOMAIN applications /\ old \in ApplicationRow(beneficiaries)
  BY <1>1, <1>2 DEF IssueOK
<1>4. applications' = [applications EXCEPT ![t.id] = new]
  BY <1>1, <1>3 DEF CommitIssue
<1>5. /\ new \in ApplicationRow(beneficiaries) /\ new.status = "card_issued"
      /\ new.records = old.records /\ new.beneficiary = old.beneficiary
  BY <1>3, Statuses DEF ApplicationRow
<1> HIDE DEF new
<1>6. /\ applications' \in Seq(ApplicationRow(beneficiaries))
      /\ DOMAIN applications' = DOMAIN applications /\ applications'[t.id] = new
      /\ \A a \in DOMAIN applications \ {t.id} : applications'[a] = applications[a]
  BY <1>1, <1>3, <1>4, <1>5
<1>7. card.app = t.id /\ card.status = "active"
  OBVIOUS
<1>8. card \in CardRow(applications, cards)
  BY <1>3 DEF CardRow, CardStatus
<1> HIDE DEF card
<1>9. /\ DOMAIN cards' = DOMAIN cards \cup {Len(cards) + 1} /\ Len(cards) + 1 \notin DOMAIN cards
      /\ \A c \in DOMAIN cards : cards'[c] = cards[c]
      /\ cards'[Len(cards) + 1] = card
  BY <1>1, <1>8
<1>10. cards' \in Seq(CardRow(applications', cards'))
  <2>1. CardRow(applications, cards) \subseteq CardRow(applications', cards')
    BY <1>6, <1>9, RowsWiden
  <2>2. cards' \in Seq(CardRow(applications, cards))
    BY <1>1, <1>8
  <2> QED BY <2>1, <2>2, SeqWider
<1>11. \A a \in DOMAIN applications : DecidedIn(applications', a) = DecidedIn(applications, a)
  BY <1>5, <1>6 DEF DecidedIn
<1>12. Explained(applications', cards')
  <2>1. \A a \in DOMAIN applications : Explained(applications, cards) =>
           \/ a = t.id
           \/ applications'[a].status = (IF applications'[a].records = << >>
                                         THEN "draft" ELSE Last(applications'[a].records))
           \/ /\ applications'[a].status = "card_issued"
              /\ "approved" \in DecidedIn(applications', a)
              /\ \E c \in DOMAIN cards' : cards'[c].app = a
    BY <1>6, <1>9, <1>11 DEF Explained
  <2>2. /\ applications'[t.id].status = "card_issued" /\ "approved" \in DecidedIn(applications', t.id)
        /\ \E c \in DOMAIN cards' : cards'[c].app = t.id
    BY <1>2, <1>3, <1>5, <1>6, <1>7, <1>9, <1>11 DEF IssueOK
  <2> QED BY <1>6, <2>1, <2>2 DEF RegistryInv, StatusInv, RecordsExplainStatus, Explained
<1>13. CardsOnRecord'
  <2>1. ASSUME NEW c \in DOMAIN cards PROVE cards[c].app \in DOMAIN applications
    <3>1. cards[c] \in CardRow(applications, cards)
      BY <1>1
    <3> QED BY <3>1 DEF CardRow
  <2> QED BY <1>2, <1>7, <1>9, <1>11, <2>1
          DEF RegistryInv, CardsOnRecord, CardsApproved, IssueOK
<1>14. Grew
  BY <1>1, <1>5, <1>6, <1>9, <1>11 DEF Grew
<1>15. audit' \in Seq(AuditRow)
  <2>1. Len(cards) + 1 \in Nat
    BY <1>1
  <2> QED BY <2>1, Logs DEF CommitIssue, Entity, Action
<1>16. DocumentRow(applications') = DocumentRow(applications)
  BY <1>6 DEF DocumentRow
<1>17. StatusInv'
  BY <1>1, <1>6, <1>10, <1>12, <1>15, <1>16 DEF RegistryInv, StatusInv, TypeOK, RecordsExplainStatus
<1> QED BY <1>1, <1>2, <1>5, <1>6, <1>7, <1>9, <1>13, <1>14, <1>17, EndSafe DEF card

\* A card that gets another status, or is replaced by a new one of its application.
LEMMA CommitCardSafe ==
    ASSUME RegistryInv, NEW s \in Session, CommitCardStatus(s) \/ CommitReplace(s)
    PROVE  RegistryInv' /\ Grew
<1> DEFINE t == task[s]
           old == cards[t.id]
           row(st) == [old EXCEPT !.status = st]
           card == [app |-> old.app, status |-> "active", replaced_from |-> t.id]
<1>1. /\ UNCHANGED <<beneficiaries, applications, documents, files>> /\ End(s) /\ begun' = begun
      /\ cards \in Seq(CardRow(applications, cards))
  BY DEF RegistryInv, StatusInv, TypeOK, CommitCardStatus, CommitReplace, End
<1>2. /\ CommitCardStatus(s) => CardStatusOK(t, cards)
      /\ CommitReplace(s) => ReplaceOK(t, cards)
  BY TaskShapes DEF CommitCardStatus, CommitReplace, At
<1>3. t.id \in DOMAIN cards /\ old \in CardRow(applications, cards)
  BY <1>1, <1>2 DEF CardStatusOK, ReplaceOK
<1>4. ASSUME NEW st \in CardStatus
      PROVE  row(st) \in CardRow(applications, cards) /\ row(st).app = old.app
  BY <1>3 DEF CardRow
<1>5. card \in CardRow(applications, cards) /\ card.app = old.app
  BY <1>3 DEF CardRow, CardStatus
<1> HIDE DEF row, card
<1>6. PICK st \in CardStatus : \/ cards' = [cards EXCEPT ![t.id] = row(st)]
                               \/ cards' = Append([cards EXCEPT ![t.id] = row(st)], card)
  <2>1. CASE CommitCardStatus(s)
    <3>1. Assigned(t.loaded, t.new, old.status) \in CardStatus
      BY <1>2, <1>3, <2>1 DEF CardStatusOK, CardRow, Assigned
    <3>2. cards' = [cards EXCEPT ![t.id] = row(Assigned(t.loaded, t.new, old.status))]
      BY <1>1, <1>3, <2>1 DEF CommitCardStatus, row
    <3> QED BY <3>1, <3>2
  <2>2. CASE CommitReplace(s)
    <3>1. cards' = Append([cards EXCEPT ![t.id] = row("replaced")], card)
      BY <1>1, <1>3, <2>2 DEF CommitReplace, row, card
    <3> QED BY <3>1 DEF CardStatus
  <2> QED BY <2>1, <2>2
<1>7. /\ cards' \in Seq(CardRow(applications, cards))
      /\ \A c \in DOMAIN cards : c \in DOMAIN cards' /\ cards'[c].app = cards[c].app
      /\ \A c \in DOMAIN cards' \ DOMAIN cards : cards'[c].app = old.app
  <2> DEFINE q == [cards EXCEPT ![t.id] = row(st)]
  <2>1. /\ q \in Seq(CardRow(applications, cards)) /\ DOMAIN q = DOMAIN cards
        /\ Len(q) = Len(cards) /\ \A c \in DOMAIN cards : q[c].app = cards[c].app
    BY <1>1, <1>3, <1>4
  <2> HIDE DEF q
  <2>2. cards' = q \/ cards' = Append(q, card)
    BY <1>6 DEF q
  <2>3. CASE cards' = q
    BY <2>1, <2>3
  <2>4. CASE cards' = Append(q, card)
    <3>1. /\ cards' \in Seq(CardRow(applications, cards)) /\ Len(cards') = Len(q) + 1
          /\ \A c \in 1..Len(q) : cards'[c] = q[c]
          /\ cards'[Len(q) + 1] = card
      BY <1>5, <2>1, <2>4
    <3>2. DOMAIN q = 1..Len(q) /\ DOMAIN cards' = 1..Len(q) + 1
      BY <2>1, <3>1
    <3> QED BY <1>5, <2>1, <3>1, <3>2
  <2> QED BY <2>2, <2>3, <2>4
<1>8. cards' \in Seq(CardRow(applications', cards'))
  <2>1. CardRow(applications, cards) \subseteq CardRow(applications', cards')
    BY <1>1, <1>7, RowsWiden
  <2> QED BY <1>7, <2>1, SeqWider
<1>9. audit' \in Seq(AuditRow)
  <2>1. t.id \in Nat /\ Len(cards) + 1 \in Nat
    BY <1>1, <1>3
  <2> QED BY <2>1, Logs DEF CommitCardStatus, CommitReplace, Entity, Action
<1>10. StatusInv'
  <2>1. Explained(applications', cards')
    BY <1>1, <1>7 DEF RegistryInv, StatusInv, RecordsExplainStatus, Explained
  <2> QED BY <1>1, <1>8, <1>9, <2>1 DEF RegistryInv, StatusInv, TypeOK, RecordsExplainStatus
<1>11. CardsOnRecord'
  BY <1>1, <1>3, <1>7 DEF RegistryInv, CardsOnRecord, CardsApproved
<1>12. Grew
  BY <1>1, <1>7 DEF Grew
<1> QED BY <1>1, <1>10, <1>11, <1>12, EndSafe

LEMMA CommitDocumentSafe ==
    ASSUME RegistryInv, NEW s \in Session, CommitUpload(s) \/ CommitVerify(s)
    PROVE  RegistryInv' /\ Grew
<1> DEFINE t == task[s]
<1>1. /\ UNCHANGED <<beneficiaries, applications, cards, files>> /\ End(s) /\ begun' = begun
      /\ documents \in Seq(DocumentRow(applications))
  BY DEF RegistryInv, StatusInv, TypeOK, CommitUpload, CommitVerify, End
<1>2. DocumentOK(t, applications, documents) /\ t.op \in {"upload", "verify"}
  BY TaskShapes DEF CommitUpload, CommitVerify, At
<1>3. /\ documents' \in Seq(DocumentRow(applications))
      /\ DOMAIN documents \subseteq DOMAIN documents' /\ audit' \in Seq(AuditRow)
  <2>1. CASE CommitUpload(s)
    <3> DEFINE row == [application |-> t.id, file |-> t.file, status |-> "pending"]
    <3>1. t.id \in DOMAIN applications /\ t.file \in Nat \ {0}
      BY <1>2, <2>1 DEF DocumentOK, CommitUpload, At
    <3>2. row \in DocumentRow(applications)
      BY <3>1 DEF DocumentRow, DocumentStatus
    <3>3. documents' = Append(documents, row)
      BY <2>1 DEF CommitUpload
    <3>4. Len(documents) + 1 \in Nat
      BY <1>1
    <3>5. audit' \in Seq(AuditRow)
      BY <2>1, <3>4, Logs DEF CommitUpload, Entity, Action
    <3> HIDE DEF row
    <3> QED BY <1>1, <3>2, <3>3, <3>5
  <2>2. CASE CommitVerify(s)
    <3> DEFINE old == documents[t.id]
               new == [old EXCEPT !.status = Assigned(t.loaded, t.new, old.status)]
    <3>1. t.id \in DOMAIN documents /\ t.loaded \in DocumentStatus /\ t.new \in DocumentStatus
      BY <1>2, <2>2 DEF DocumentOK, CommitVerify, At
    <3>2. old \in DocumentRow(applications) /\ t.id \in Nat
      BY <1>1, <3>1
    <3>3. new \in DocumentRow(applications)
      BY <3>1, <3>2 DEF DocumentRow, Assigned
    <3>4. documents' = [documents EXCEPT ![t.id] = new]
      BY <1>1, <2>2, <3>1 DEF CommitVerify
    <3>5. audit' \in Seq(AuditRow)
      BY <2>2, <3>2, Logs DEF CommitVerify, Entity, Action
    <3> HIDE DEF new
    <3> QED BY <1>1, <3>1, <3>3, <3>4, <3>5
  <2> QED BY <2>1, <2>2
<1>4. StatusInv'
  BY <1>1, <1>3 DEF RegistryInv, StatusInv, TypeOK, RecordsExplainStatus
<1>5. CardsOnRecord' /\ Grew
  BY <1>1, <1>3 DEF RegistryInv, CardsOnRecord, Grew
<1> QED BY <1>1, <1>4, <1>5, EndSafe

LEMMA DisconnectSafe ==
    ASSUME RegistryInv, NEW s \in Session, Disconnect(s)
    PROVE  RegistryInv' /\ Grew
<1>1. /\ UNCHANGED <<beneficiaries, applications, cards, documents, audit, files>>
      /\ End(s) /\ begun' = begun
  BY DEF Disconnect, End, tables
<1>2. StatusInv' /\ CardsOnRecord' /\ Grew
  BY <1>1 DEF RegistryInv, StatusInv, TypeOK, RecordsExplainStatus, CardsOnRecord, Grew
<1> QED BY <1>1, <1>2, EndSafe

LEMMA RegistryStep ==
    ASSUME RegistryInv, [Next]_vars
    PROVE  RegistryInv'
<1>1. CASE UNCHANGED vars
  BY <1>1 DEF RegistryInv, StatusInv, TypeOK, RecordsExplainStatus, CardsOnRecord, TasksOK,
              Idle, vars, tables, requests
<1>2. CASE Next
  <2> SUFFICES ASSUME NEW s \in Session,
        \/ \E c \in Cnic \cup {Nil} : ArriveRegister(s, c)
        \/ \E b \in DOMAIN beneficiaries :
              \/ \E c \in Cnic : ArriveUpdate(s, b, c)
              \/ ArriveSuspend(s, b) \/ ArriveReactivate(s, b) \/ ArriveApply(s, b)
        \/ \E a \in DOMAIN applications :
              \/ \E op \in DOMAIN Target, reason \in BOOLEAN : ArriveDecision(s, a, op, reason)
              \/ ArriveIssue(s, a) \/ ArriveUpload(s, a)
        \/ \E c \in DOMAIN cards :
              ArriveReplace(s, c) \/ \E new \in CardStatus : ArriveCardStatus(s, c, new)
        \/ \E d \in DOMAIN documents, new \in DocumentStatus : ArriveVerify(s, d, new)
        \/ Progress(s) \/ Disconnect(s)
      PROVE RegistryInv'
    BY <1>2 DEF Next
  <2>1. ASSUME Progress(s) PROVE RegistryInv'
    BY <2>1, ContinueSafe, CommitBeneficiarySafe, CommitApplySafe, CommitDecisionSafe,
       CommitIssueSafe, CommitCardSafe, CommitDocumentSafe DEF Progress
  <2> QED BY <2>1, ArriveBeneficiarySafe, ArriveApplicationSafe, ArriveCardSafe, DisconnectSafe
<1> QED BY <1>1, <1>2

\* Every row refers to rows there are, and every status is the decision last on
\* record, whatever decisions race (Registration!StatusInv).
THEOREM StatusesOnRecord == Spec => []StatusInv
<1>1. RegistryInv => StatusInv
  BY DEF RegistryInv
<1> QED BY <1>1, RegistryInit, RegistryStep, PTL DEF Spec

-----------------------------------------------------------------------------

LEMMA AuditedInit == Init => AuditedInv
<1> SUFFICES ASSUME Init PROVE AuditedInv
  OBVIOUS
<1>1. RegistryInv
  BY RegistryInit
<1>2. RacedOK /\ FreshOK
  BY DEF Init, InitRequests, RacedOK, FreshOK, Idle
<1>3. AuditOK /\ StatusAsAudited
  BY DEF Init, AuditOK, StatusAsAudited
<1>4. OneLiveCard /\ CardsInOrder
  BY WorldsAssumption DEF Init, OneLiveCard, CardsInOrder
<1> QED BY <1>1, <1>2, <1>3, <1>4 DEF AuditedInv

\* A request that arrives fresh, or goes on with fresh readings about the same objects.
LEMMA ArriveAudited ==
    ASSUME AuditedInv, RegistryInv', NEW s \in Session, NEW t,
           Arrive(s, t) \/ (~Idle(s) /\ Continue(s, t) /\ t.on = task[s].on),
           Fresh(t, beneficiaries, applications, cards), UNCHANGED tables
    PROVE  AuditedInv'
<1>1. UNCHANGED <<beneficiaries, applications, cards, documents, audit>>
  BY DEF tables
<1>2. DOMAIN task = Session /\ raced \subseteq raced' /\ task' = [task EXCEPT ![s] = t]
  BY DEF AuditedInv, RegistryInv, TasksOK, Arrive, Continue
<1>3. RacedOK'
  <2> SUFFICES ASSUME NEW p \in Session, NEW q \in Session, p # q, task'[p] # Nil, task'[q] # Nil
               PROVE  task'[p].on \cap task'[q].on \subseteq raced'
    BY DEF RacedOK, Idle
  <2>1. CASE p # s /\ q # s
    BY <1>2, <2>1 DEF AuditedInv, RacedOK, Idle
  <2>2. CASE Arrive(s, t) /\ (p = s \/ q = s)
    BY <1>2, <2>2 DEF Arrive, Busy, Idle
  <2>3. CASE ~Arrive(s, t) /\ (p = s \/ q = s)
    BY <1>2, <2>3 DEF AuditedInv, RacedOK, Idle
  <2> QED BY <2>1, <2>2, <2>3
<1>4. FreshOK'
  <2> SUFFICES ASSUME NEW p \in Session, task'[p] # Nil
               PROVE  Fresh(task[p], beneficiaries, applications, cards)'
    BY DEF FreshOK, Idle
  <2>1. Fresh(task'[p], beneficiaries, applications, cards)
    BY <1>2 DEF AuditedInv, FreshOK, Idle
  <2> QED BY <1>1, <1>2, <2>1 DEF Fresh
<1>5. AuditOK' /\ StatusAsAudited'
  <2>1. AuditOK'
    BY <1>1 DEF AuditedInv, AuditOK
  <2>2. ASSUME NEW b \in DOMAIN beneficiaries, NEW i \in DOMAIN audit,
               <<"beneficiary", b>> \notin raced',
               StatusSaid(applications, audit[i], b) # {},
               \A j \in i + 1..Len(audit) : StatusSaid(applications, audit[j], b) = {}
        PROVE  StatusSaid(applications, audit[i], b) = {beneficiaries[b].status}
    BY <1>2, <2>2 DEF AuditedInv, StatusAsAudited
  <2>3. StatusAsAudited'
    <3> SUFFICES ASSUME NEW b \in DOMAIN beneficiaries', NEW i \in DOMAIN audit',
                        <<"beneficiary", b>> \notin raced',
                        StatusSaid(applications', audit'[i], b) # {},
                        \A j \in i + 1..Len(audit') :
                            StatusSaid(applications', audit'[j], b) = {}
                 PROVE  StatusSaid(applications', audit'[i], b) = {beneficiaries'[b].status}
      BY DEF StatusAsAudited
    <3> QED BY <1>1, <2>2
  <2> QED BY <2>1, <2>3
<1>6. OneLiveCard'
  <2>1. ASSUME NEW a, Undisturbed(a)' PROVE Undisturbed(a)
    BY <1>1, <1>2, <2>1 DEF Undisturbed, Logged
  <2> QED BY <1>1, <2>1 DEF AuditedInv, OneLiveCard
<1>7. CardsInOrder'
  BY <1>1, <1>2 DEF AuditedInv, CardsInOrder
<1> QED BY <1>3, <1>4, <1>5, <1>6, <1>7 DEF AuditedInv

\* A step of s changes statuses only of the objects its task is about.
OnlyItsOwn(s) ==
    /\ \A b \in DOMAIN beneficiaries : beneficiaries'[b].status # beneficiaries[b].status =>
          <<"beneficiary", b>> \in task[s].on
    /\ \A a \in DOMAIN applications : applications'[a].status # applications[a].status =>
          <<"application", a>> \in task[s].on
    /\ \A c \in DOMAIN cards : cards'[c].status # cards[c].status =>
          <<"card", c>> \in task[s].on

LEMMA EndFresh ==
    ASSUME AuditedInv, NEW s \in Session, ~Idle(s), End(s), Grew, OnlyItsOwn(s)
    PROVE  RacedOK' /\ FreshOK'
<1>1. /\ DOMAIN task = Session /\ raced' = raced /\ RegistryInv
      /\ applications \in Seq(ApplicationRow(beneficiaries))
  BY DEF AuditedInv, RegistryInv, TasksOK, End, StatusInv, TypeOK
<1>2. ASSUME NEW p \in Session, task'[p] # Nil
      PROVE  p # s /\ task'[p] = task[p] /\ ~Idle(p)
  BY <1>1, <1>2 DEF End, Idle
<1>3. RacedOK'
  BY <1>1, <1>2 DEF AuditedInv, RacedOK, Idle
<1>4. FreshOK'
  <2> SUFFICES ASSUME NEW p \in Session, task'[p] # Nil
               PROVE  Fresh(task[p], beneficiaries, applications, cards)'
    BY <1>2 DEF FreshOK, Idle
  <2> DEFINE t == task[p]
  <2>1. /\ p # s /\ ~Idle(p) /\ t' = t /\ Fresh(t, beneficiaries, applications, cards)
        /\ t.on \cap task[s].on \subseteq raced
    BY <1>2 DEF AuditedInv, FreshOK, RacedOK
  <2>2. t.op \in {"suspend", "reactivate"} =>
           <<"beneficiary", t.id>> \in raced \/ beneficiaries'[t.id].status = t.loaded.status
    BY <1>1, <2>1, TaskShapes DEF EditOK, Fresh, OnlyItsOwn
  <2>3. t.op \in DOMAIN Target =>
           \/ <<"application", t.id>> \in raced
           \/ Target[t.op] \in Allowed[applications'[t.id].status]
    BY <1>1, <2>1, TaskShapes DEF DecisionOK, Fresh, OnlyItsOwn
  <2>4. t.op = "approve" /\ t.at = "decide" =>
           \/ <<"beneficiary", applications'[t.id].beneficiary>> \in raced
           \/ beneficiaries'[applications'[t.id].beneficiary].status = t.loaded
    <3> SUFFICES ASSUME t.op = "approve", t.at = "decide"
                 PROVE  \/ <<"beneficiary", applications'[t.id].beneficiary>> \in raced
                        \/ beneficiaries'[applications'[t.id].beneficiary].status = t.loaded
      OBVIOUS
    <3>1. DecisionOK(t, applications)
      BY <1>1, <2>1, TaskShapes DEF Target
    <3>2. applications[t.id] \in ApplicationRow(beneficiaries)
      BY <1>1, <3>1 DEF DecisionOK
    <3>3. applications[t.id].beneficiary \in DOMAIN beneficiaries
      BY <3>2 DEF ApplicationRow
    <3> QED BY <2>1, <3>1, <3>3 DEF DecisionOK, Fresh, OnlyItsOwn, Grew
  <2>5. t.op = "issue" =>
           <<"application", t.id>> \in raced \/ applications'[t.id].status = "approved"
    BY <1>1, <2>1, TaskShapes DEF IssueOK, Fresh, OnlyItsOwn
  <2>6. t.op = "replace" => <<"card", t.id>> \in raced \/ cards'[t.id].status # "replaced"
    BY <1>1, <2>1, TaskShapes DEF ReplaceOK, Fresh, OnlyItsOwn
  <2> QED BY <1>1, <2>1, <2>2, <2>3, <2>4, <2>5, <2>6 DEF Fresh
<1> QED BY <1>3, <1>4

\* A step that adds an entry to the trail, with the status it says, if it says any.
LEMMA TrailGrows ==
    ASSUME AuditedInv, Grew, UNCHANGED raced, NEW e, audit' = Append(audit, e),
           AuditNames(beneficiaries', applications', e),
           \A b \in DOMAIN beneficiaries' : <<"beneficiary", b>> \notin raced =>
              \/ /\ StatusSaid(applications', e, b) = {}
                 /\ b \in DOMAIN beneficiaries => beneficiaries'[b].status = beneficiaries[b].status
              \/ StatusSaid(applications', e, b) = {beneficiaries'[b].status}
    PROVE  AuditOK' /\ StatusAsAudited'
<1>1. /\ audit \in Seq(AuditRow) /\ applications \in Seq(ApplicationRow(beneficiaries))
  BY DEF AuditedInv, RegistryInv, StatusInv, TypeOK
<1>2. /\ Len(audit') = Len(audit) + 1 /\ DOMAIN audit = 1..Len(audit)
      /\ DOMAIN audit' = 1..Len(audit) + 1
      /\ audit'[Len(audit) + 1] = e /\ \A i \in DOMAIN audit : audit'[i] = audit[i]
  <2>1. PICK S : audit \in Seq(S) /\ e \in S
    <3>1. audit \in Seq(AuditRow \cup {e})
      BY <1>1
    <3> QED BY <3>1
  <2> QED BY <2>1
<1>3. \A i \in DOMAIN audit : AuditNames(beneficiaries', applications', audit[i])
  BY DEF AuditedInv, AuditOK, AuditNames, Grew
<1>4. AuditOK'
  BY <1>2, <1>3 DEF AuditOK
<1>5. ASSUME NEW i \in DOMAIN audit, NEW b
      PROVE  /\ StatusSaid(applications', audit[i], b) = StatusSaid(applications, audit[i], b)
             /\ b \notin DOMAIN beneficiaries => StatusSaid(applications, audit[i], b) = {}
  <2>1. AuditNames(beneficiaries, applications, audit[i])
    BY DEF AuditedInv, AuditOK
  <2>2. audit[i][1] = "application" =>
           /\ applications'[audit[i][3]].beneficiary = applications[audit[i][3]].beneficiary
           /\ applications[audit[i][3]].beneficiary \in DOMAIN beneficiaries
    <3> SUFFICES ASSUME audit[i][1] = "application"
                 PROVE  /\ applications'[audit[i][3]].beneficiary =
                              applications[audit[i][3]].beneficiary
                        /\ applications[audit[i][3]].beneficiary \in DOMAIN beneficiaries
      OBVIOUS
    <3>1. audit[i][3] \in DOMAIN applications
      BY <2>1 DEF AuditNames
    <3>2. applications[audit[i][3]] \in ApplicationRow(beneficiaries)
      BY <1>1, <3>1
    <3> QED BY <3>1, <3>2 DEF Grew, ApplicationRow
  <2> QED BY <2>1, <2>2 DEF StatusSaid, AuditNames
<1>6. StatusAsAudited'
  <2> SUFFICES ASSUME NEW b \in DOMAIN beneficiaries', NEW i \in DOMAIN audit',
                      <<"beneficiary", b>> \notin raced,
                      StatusSaid(applications', audit'[i], b) # {},
                      \A j \in i + 1..Len(audit') : StatusSaid(applications', audit'[j], b) = {}
               PROVE  StatusSaid(applications', audit'[i], b) = {beneficiaries'[b].status}
    BY DEF StatusAsAudited
  <2>1. CASE i = Len(audit) + 1
    BY <1>2, <2>1
  <2>2. CASE i # Len(audit) + 1
    <3>1. i \in DOMAIN audit /\ Len(audit) + 1 \in i + 1..Len(audit') /\ audit'[i] = audit[i]
      BY <1>1, <1>2, <2>2
    <3>2. StatusSaid(applications', e, b) = {}
      BY <1>2, <3>1
    <3>3. StatusSaid(applications, audit[i], b) # {} /\ b \in DOMAIN beneficiaries
      BY <1>5, <3>1
    <3>4. beneficiaries'[b].status = beneficiaries[b].status
      BY <3>2, <3>3
    <3>5. \A j \in i + 1..Len(audit) : StatusSaid(applications, audit[j], b) = {}
      <4> SUFFICES ASSUME NEW j \in i + 1..Len(audit)
                   PROVE  StatusSaid(applications, audit[j], b) = {}
        OBVIOUS
      <4>1. j \in DOMAIN audit /\ j \in i + 1..Len(audit') /\ audit'[j] = audit[j]
        BY <1>1, <1>2, <3>1
      <4> QED BY <1>5, <4>1
    <3>6. StatusSaid(applications, audit[i], b) = {beneficiaries[b].status}
      BY <3>1, <3>3, <3>5 DEF AuditedInv, StatusAsAudited
    <3> QED BY <1>5, <3>1, <3>4, <3>6
  <2> QED BY <2>1, <2>2
<1> QED BY <1>4, <1>6

\* Nothing that disturbs the cards of an application is forgotten.
LEMMA UndisturbedBefore ==
    ASSUME AuditedInv, Grew, UNCHANGED raced, NEW e, audit' = Append(audit, e),
           NEW a, Undisturbed(a)'
    PROVE  Undisturbed(a)
<1>1. audit \in Seq(AuditRow \cup {e})
  BY DEF AuditedInv, RegistryInv, StatusInv, TypeOK
<1>2. \A i \in DOMAIN audit : i \in DOMAIN audit' /\ audit'[i] = audit[i]
  BY <1>1
<1> QED BY <1>2 DEF Undisturbed, Logged, Grew

\* Applications that keep their cards and whether they have one.
LEMMA LiveStays ==
    ASSUME AuditedInv, NEW a \in DOMAIN applications, Undisturbed(a),
           applications'[a].status = "card_issued" <=> applications[a].status = "card_issued",
           Live(cards', a) = Live(cards, a)
    PROVE  LiveAsStatus(applications', cards', a)
<1>1. LiveAsStatus(applications, cards, a)
  BY DEF AuditedInv, OneLiveCard
<1>2. \A c : Live(cards', a) = {c} => c \in DOMAIN cards'
  BY DEF Live
<1> QED BY <1>1, <1>2 DEF LiveAsStatus

\* The cards stay in order when each is one of an application that had a card already
\* and keeps its status and records.
LEMMA OrderStays ==
    ASSUME AuditedInv, UNCHANGED raced,
           \A c \in DOMAIN cards' : \E d \in DOMAIN cards : cards'[c].app = cards[d].app,
           \A d \in DOMAIN cards : <<"application", cards[d].app>> \notin raced =>
              /\ applications'[cards[d].app].status = applications[cards[d].app].status
              /\ applications'[cards[d].app].records = applications[cards[d].app].records
    PROVE  CardsInOrder'
<1> SUFFICES ASSUME NEW c \in DOMAIN cards', <<"application", cards'[c].app>> \notin raced
             PROVE  IssuedOnApproval(applications', cards'[c].app)
  BY DEF CardsInOrder
<1>1. PICK d \in DOMAIN cards : cards'[c].app = cards[d].app
  OBVIOUS
<1>2. IssuedOnApproval(applications, cards[d].app)
  BY <1>1 DEF AuditedInv, CardsInOrder
<1> QED BY <1>1, <1>2 DEF IssuedOnApproval

\* A card is one of an application there is.
LEMMA CardHasApp ==
    ASSUME RegistryInv, NEW c \in DOMAIN cards
    PROVE  cards[c].app \in DOMAIN applications
<1>1. cards[c] \in CardRow(applications, cards)
  BY DEF RegistryInv, StatusInv, TypeOK
<1> QED BY <1>1 DEF CardRow

LEMMA ReadsAudited ==
    ASSUME AuditedInv, RegistryInv', NEW s \in Session, InsertCoded(s) \/ ReadBeneficiary(s)
    PROVE  AuditedInv'
<1> DEFINE t == task[s]
<1>1. ~Idle(s) /\ RegistryInv /\ Fresh(t, beneficiaries, applications, cards)
  BY DEF AuditedInv, FreshOK, InsertCoded, InsertPending, ReadBeneficiary, At
<1>2. CASE InsertCoded(s)
  <2> DEFINE new == [t EXCEPT !.at = "commit"]
  <2>1. /\ t.op \in {"register", "apply", "issue", "replace"} /\ Continue(s, new)
        /\ UNCHANGED tables
    BY <1>2 DEF InsertCoded, InsertPending
  <2>2. \/ RegisterOK(t) \/ ApplyOK(t, beneficiaries)
        \/ IssueOK(t, applications) \/ ReplaceOK(t, cards)
    BY <1>1, <2>1, TaskShapes
  <2>3. new.op = t.op /\ new.on = t.on /\ (t.op \in {"issue", "replace"} => new.id = t.id)
    BY <2>2 DEF RegisterOK, ApplyOK, IssueOK, ReplaceOK
  <2> HIDE DEF new
  <2>4. Fresh(new, beneficiaries, applications, cards)
    BY <1>1, <2>1, <2>3 DEF Fresh, Target
  <2> QED BY <1>1, <2>1, <2>3, <2>4, ArriveAudited
<1>3. CASE ReadBeneficiary(s)
  <2> DEFINE new == [op |-> t.op, id |-> t.id, on |-> t.on, at |-> "decide",
                     loaded |-> beneficiaries[applications[t.id].beneficiary].status]
  <2>1. Continue(s, new) /\ new.on = t.on /\ UNCHANGED tables /\ t.op = "approve"
    BY <1>3 DEF ReadBeneficiary, At
  <2>2. Fresh(new, beneficiaries, applications, cards)
    BY <1>1, <2>1 DEF Fresh
  <2> QED BY <1>1, <2>1, <2>2, ArriveAudited
<1> QED BY <1>2, <1>3

LEMMA CommitBeneficiaryAudited ==
    ASSUME AuditedInv, NEW s \in Session, CommitRegister(s) \/ CommitEdit(s)
    PROVE  AuditedInv'
<1> DEFINE t == task[s]
<1>1. RegistryInv /\ RegistryInv' /\ DOMAIN beneficiaries \subseteq DOMAIN beneficiaries'
  BY CommitBeneficiarySafe DEF AuditedInv
<1>2. /\ ~Idle(s) /\ UNCHANGED <<applications, cards, documents, raced>> /\ End(s)
      /\ beneficiaries \in Seq(BeneficiaryRow)
  BY <1>1 DEF CommitRegister, CommitEdit, At, End, RegistryInv, StatusInv, TypeOK
<1>3. Grew
  BY <1>1, <1>2 DEF Grew
<1>4. /\ OnlyItsOwn(s)
      /\ \E e : /\ audit' = Append(audit, e) /\ AuditNames(beneficiaries', applications', e)
                /\ \A b \in DOMAIN beneficiaries' : <<"beneficiary", b>> \notin raced =>
                      \/ /\ StatusSaid(applications', e, b) = {}
                         /\ b \in DOMAIN beneficiaries =>
                               beneficiaries'[b].status = beneficiaries[b].status
                      \/ StatusSaid(applications', e, b) = {beneficiaries'[b].status}
  <2>1. CASE CommitRegister(s)
    <3> DEFINE row == [cnic |-> t.cnic, status |-> "pending"]
               n == Len(beneficiaries) + 1
               e == <<"beneficiary", "create", n>>
    <3>1. beneficiaries' = Append(beneficiaries, row) /\ audit' = Append(audit, e)
      BY <2>1 DEF CommitRegister, Log
    <3>2. beneficiaries \in Seq(BeneficiaryRow \cup {row})
      BY <1>2
    <3> HIDE DEF row
    <3>3. n \in DOMAIN beneficiaries' /\
          \A b \in DOMAIN beneficiaries : beneficiaries'[b] = beneficiaries[b]
      BY <3>1, <3>2
    <3>4. AuditNames(beneficiaries', applications', e)
      BY <3>3 DEF AuditNames
    <3>5. \A b : StatusSaid(applications', e, b) = {}
      BY DEF StatusSaid
    <3>6. OnlyItsOwn(s)
      BY <1>2, <3>3 DEF OnlyItsOwn
    <3> HIDE DEF e
    <3> QED BY <3>1, <3>3, <3>4, <3>5, <3>6
  <2>2. CASE CommitEdit(s)
    <3> DEFINE e == <<"beneficiary", t.op, t.id>>
               old == beneficiaries[t.id]
               st == Assigned(t.loaded.status, t.new.status, old.status)
    <3>1. EditOK(t, beneficiaries) /\ Fresh(t, beneficiaries, applications, cards)
      BY <1>1, <1>2, <2>2, TaskShapes DEF CommitEdit, At, AuditedInv, FreshOK
    <3>2. /\ DOMAIN beneficiaries' = DOMAIN beneficiaries /\ beneficiaries'[t.id].status = st
          /\ \A b \in DOMAIN beneficiaries \ {t.id} : beneficiaries'[b] = beneficiaries[b]
      BY <1>2, <2>2, <3>1 DEF CommitEdit, EditOK
    <3>3. audit' = Append(audit, e)
      BY <2>2 DEF CommitEdit, Log, At
    <3>4. AuditNames(beneficiaries', applications', e)
      BY <3>1, <3>2 DEF EditOK, AuditNames
    <3>5. /\ t.op = "update" => st = old.status
          /\ t.op \in {"suspend", "reactivate"} =>
                st = t.new.status \/ <<"beneficiary", t.id>> \in raced
      BY <3>1 DEF EditOK, Fresh, Assigned
    <3>6. OnlyItsOwn(s)
      BY <1>2, <3>1, <3>2, <3>5 DEF OnlyItsOwn, EditOK
    <3>7. ASSUME NEW b \in DOMAIN beneficiaries, <<"beneficiary", b>> \notin raced
          PROVE  \/ /\ StatusSaid(applications', e, b) = {}
                    /\ beneficiaries'[b].status = beneficiaries[b].status
                 \/ StatusSaid(applications', e, b) = {beneficiaries'[b].status}
      <4>1. CASE b = t.id
        <5>1. CASE t.op = "update"
          <6>1. StatusSaid(applications', e, b) = {}
            BY <5>1 DEF StatusSaid
          <6> QED BY <3>2, <3>5, <4>1, <5>1, <6>1
        <5>2. CASE t.op = "suspend"
          <6>1. StatusSaid(applications', e, b) = {"suspended"}
            BY <4>1, <5>2 DEF StatusSaid
          <6> QED BY <3>1, <3>2, <3>5, <3>7, <4>1, <5>2, <6>1 DEF EditOK
        <5>3. CASE t.op = "reactivate"
          <6>1. StatusSaid(applications', e, b) = {"active"}
            BY <4>1, <5>3 DEF StatusSaid
          <6> QED BY <3>1, <3>2, <3>5, <3>7, <4>1, <5>3, <6>1 DEF EditOK
        <5> QED BY <3>1, <5>1, <5>2, <5>3 DEF EditOK
      <4>2. CASE b # t.id
        <5>1. StatusSaid(applications', e, b) = {}
          BY <4>2 DEF StatusSaid
        <5> QED BY <3>2, <4>2, <5>1
      <4> QED BY <4>1, <4>2
    <3> HIDE DEF e
    <3> QED BY <3>2, <3>3, <3>4, <3>6, <3>7
  <2> QED BY <2>1, <2>2
<1>5. AuditOK' /\ StatusAsAudited'
  BY <1>2, <1>3, <1>4, TrailGrows
<1>6. OneLiveCard'
  <2> SUFFICES ASSUME NEW a \in DOMAIN applications, Undisturbed(a)'
               PROVE  LiveAsStatus(applications', cards', a)
    BY <1>2 DEF OneLiveCard
  <2>1. Undisturbed(a)
    BY <1>2, <1>3, <1>4, UndisturbedBefore
  <2> QED BY <1>2, <2>1, LiveStays
<1>7. RacedOK' /\ FreshOK'
  BY <1>2, <1>3, <1>4, EndFresh
<1>8. CardsInOrder'
  BY <1>2, OrderStays
<1> QED BY <1>1, <1>5, <1>6, <1>7, <1>8 DEF AuditedInv

LEMMA CommitApplyAudited ==
    ASSUME AuditedInv, NEW s \in Session, CommitApply(s)
    PROVE  AuditedInv'
<1> DEFINE row == [beneficiary |-> task[s].beneficiary, status |-> "draft", records |-> << >>]
           n == Len(applications) + 1
           e == <<"application", "create", n>>
<1>1. RegistryInv /\ RegistryInv' /\ Grew /\ applications' = Append(applications, row)
  BY CommitApplySafe DEF AuditedInv
<1>2. /\ ~Idle(s) /\ UNCHANGED <<beneficiaries, cards, documents, raced>> /\ End(s)
      /\ audit' = Append(audit, e)
      /\ applications \in Seq(ApplicationRow(beneficiaries) \cup {row})
      /\ cards \in Seq(CardRow(applications, cards))
  BY <1>1 DEF CommitApply, At, End, Log, RegistryInv, StatusInv, TypeOK
<1>3. row.status = "draft"
  OBVIOUS
<1> HIDE DEF row
<1>4. /\ DOMAIN applications' = DOMAIN applications \cup {n} /\ n \notin DOMAIN applications
      /\ applications'[n] = row
      /\ \A a \in DOMAIN applications : applications'[a] = applications[a]
  BY <1>1, <1>2
<1>5. OnlyItsOwn(s)
  BY <1>2, <1>4 DEF OnlyItsOwn
<1>6. AuditNames(beneficiaries', applications', e)
  BY <1>4 DEF AuditNames
<1>7. \A b : StatusSaid(applications', e, b) = {}
  BY DEF StatusSaid
<1> HIDE DEF e
<1>8. AuditOK' /\ StatusAsAudited'
  BY <1>1, <1>2, <1>6, <1>7, TrailGrows
<1>9. OneLiveCard'
  <2> SUFFICES ASSUME NEW a \in DOMAIN applications', Undisturbed(a)'
               PROVE  LiveAsStatus(applications', cards', a)
    BY DEF OneLiveCard
  <2>1. CASE a = n
    <3>1. \A c \in DOMAIN cards : cards[c].app # n
      <4> SUFFICES ASSUME NEW c \in DOMAIN cards PROVE cards[c].app # n
        OBVIOUS
      <4>1. cards[c] \in CardRow(applications, cards)
        BY <1>2
      <4> QED BY <1>4, <4>1 DEF CardRow
    <3>2. Live(cards', n) = {}
      BY <1>2, <3>1 DEF Live
    <3> QED BY <1>3, <1>4, <2>1, <3>2 DEF LiveAsStatus
  <2>2. CASE a # n
    <3>1. a \in DOMAIN applications /\ Undisturbed(a)
      BY <1>1, <1>2, <1>4, <2>2, UndisturbedBefore
    <3> QED BY <1>2, <1>4, <3>1, LiveStays
  <2> QED BY <2>1, <2>2
<1>10. RacedOK' /\ FreshOK'
  BY <1>1, <1>2, <1>5, EndFresh
<1>11. CardsInOrder'
  BY <1>1, <1>2, <1>4, OrderStays, CardHasApp
<1> QED BY <1>1, <1>8, <1>9, <1>10, <1>11 DEF AuditedInv

LEMMA CommitDecisionAudited ==
    ASSUME AuditedInv, NEW s \in Session, CommitDecision(s)
    PROVE  AuditedInv'
<1> DEFINE t == task[s]
           b == applications[t.id].beneficiary
           e == <<"application", t.op, t.id>>
<1>1. /\ RegistryInv /\ RegistryInv' /\ Grew /\ DecisionOK(t, applications)
      /\ DOMAIN applications' = DOMAIN applications
      /\ DOMAIN beneficiaries' = DOMAIN beneficiaries
      /\ applications'[t.id].status = Target[t.op]
      /\ \A a \in DOMAIN applications \ {t.id} : applications'[a] = applications[a]
  BY CommitDecisionSafe DEF AuditedInv
<1>2. /\ ~Idle(s) /\ UNCHANGED <<cards, documents, raced>> /\ End(s)
      /\ audit' = Append(audit, e) /\ t.at = "decide"
      /\ beneficiaries \in Seq(BeneficiaryRow)
      /\ applications \in Seq(ApplicationRow(beneficiaries))
  BY <1>1 DEF CommitDecision, At, End, Log, RegistryInv, StatusInv, TypeOK
<1>3. Fresh(t, beneficiaries, applications, cards)
  BY <1>2 DEF AuditedInv, FreshOK
<1>4. b \in DOMAIN beneficiaries /\ applications'[t.id].beneficiary = b /\ t.id \in DOMAIN applications
  <2>1. applications[t.id] \in ApplicationRow(beneficiaries) /\ t.id \in DOMAIN applications
    BY <1>1, <1>2 DEF DecisionOK
  <2> QED BY <1>1, <2>1 DEF ApplicationRow, Grew
<1>5. /\ t.op # "approve" => beneficiaries' = beneficiaries
      /\ t.op = "approve" => /\ beneficiaries'[b].status =
                                   Assigned(t.loaded, "active", beneficiaries[b].status)
                             /\ \A d \in DOMAIN beneficiaries \ {b} :
                                   beneficiaries'[d] = beneficiaries[d]
  <2>1. CASE t.op # "approve"
    BY <2>1 DEF CommitDecision, At
  <2>2. CASE t.op = "approve"
    <3>1. beneficiaries' = [beneficiaries EXCEPT ![b].status = Assigned(t.loaded, "active", @)]
      BY <2>2 DEF CommitDecision, At
    <3>2. beneficiaries[b] \in BeneficiaryRow
      BY <1>2, <1>4
    <3> QED BY <1>2, <1>4, <2>2, <3>1, <3>2 DEF BeneficiaryRow
  <2> QED BY <2>1, <2>2
<1>6. OnlyItsOwn(s)
  BY <1>1, <1>2, <1>5 DEF OnlyItsOwn, DecisionOK
<1>7. AuditNames(beneficiaries', applications', e)
  BY <1>1, <1>4 DEF AuditNames
<1>8. ASSUME NEW d \in DOMAIN beneficiaries, <<"beneficiary", d>> \notin raced
      PROVE  \/ /\ StatusSaid(applications', e, d) = {}
                /\ beneficiaries'[d].status = beneficiaries[d].status
             \/ StatusSaid(applications', e, d) = {beneficiaries'[d].status}
  <2>1. CASE t.op = "approve" /\ d = b
    <3>1. StatusSaid(applications', e, d) = {"active"}
      BY <1>4, <2>1 DEF StatusSaid
    <3>2. beneficiaries[b].status = t.loaded
      BY <1>2, <1>3, <1>8, <2>1 DEF Fresh
    <3> QED BY <1>5, <2>1, <3>1, <3>2 DEF Assigned
  <2>2. CASE ~(t.op = "approve" /\ d = b)
    <3>1. StatusSaid(applications', e, d) = {}
      BY <1>4, <2>2 DEF StatusSaid
    <3> QED BY <1>5, <2>2, <3>1
  <2> QED BY <2>1, <2>2
<1> HIDE DEF e
<1>9. AuditOK' /\ StatusAsAudited'
  BY <1>1, <1>2, <1>7, <1>8, TrailGrows
<1>10. OneLiveCard'
  <2> SUFFICES ASSUME NEW a \in DOMAIN applications, Undisturbed(a)'
               PROVE  LiveAsStatus(applications', cards', a)
    BY <1>1 DEF OneLiveCard
  <2>1. Undisturbed(a)
    BY <1>1, <1>2, UndisturbedBefore
  <2>2. CASE a = t.id
    <3>1. Target[t.op] \in Allowed[applications[a].status]
      BY <1>1, <1>3, <2>1, <2>2 DEF Fresh, DecisionOK, Undisturbed
    <3>2. applications[a].status # "card_issued" /\ applications'[a].status # "card_issued"
      BY <1>1, <2>2, <3>1, Decisions DEF DecisionOK
    <3> QED BY <1>2, <2>1, <3>2, LiveStays
  <2>3. CASE a # t.id
    BY <1>1, <1>2, <2>1, <2>3, LiveStays
  <2> QED BY <2>2, <2>3
<1>11. RacedOK' /\ FreshOK'
  BY <1>1, <1>2, <1>6, EndFresh
<1>12. CardsInOrder'
  <2>1. ASSUME NEW c \in DOMAIN cards, <<"application", cards[c].app>> \notin raced
        PROVE  cards[c].app # t.id
    <3> SUFFICES ASSUME cards[c].app = t.id PROVE FALSE
      OBVIOUS
    <3>1. applications[t.id].status = "card_issued"
      BY <2>1 DEF AuditedInv, CardsInOrder, IssuedOnApproval
    <3>2. Target[t.op] \in Allowed["card_issued"]
      BY <1>1, <1>3, <2>1, <3>1 DEF Fresh, DecisionOK
    <3> QED BY <1>1, <3>2, Decisions DEF DecisionOK
  <2> QED BY <1>1, <1>2, <2>1, OrderStays, CardHasApp
<1> QED BY <1>1, <1>9, <1>10, <1>11, <1>12 DEF AuditedInv

\* Entries about cards and documents say nothing of a beneficiary.
LEMMA OtherEntries ==
    ASSUME AuditedInv, Grew, UNCHANGED <<raced, beneficiaries>>,
           NEW entity \in {"card", "document"}, NEW action, NEW id,
           audit' = Append(audit, <<entity, action, id>>)
    PROVE  AuditOK' /\ StatusAsAudited'
<1> DEFINE e == <<entity, action, id>>
<1>1. AuditNames(beneficiaries', applications', e) /\ \A b : StatusSaid(applications', e, b) = {}
  BY DEF AuditNames, StatusSaid
<1> HIDE DEF e
<1> QED BY <1>1, TrailGrows DEF e

\* The issue of a card leaves the VerificationRecords alone.
LEMMA IssueKeepsRecords ==
    ASSUME AuditedInv, NEW s \in Session, CommitIssue(s)
    PROVE  applications'[task[s].id].records = applications[task[s].id].records
<1> DEFINE t == task[s]
<1>1. IssueOK(t, applications) /\ applications \in Seq(ApplicationRow(beneficiaries))
  BY TaskShapes DEF CommitIssue, At, AuditedInv, RegistryInv, StatusInv, TypeOK
<1>2. t.id \in DOMAIN applications /\ applications[t.id] \in ApplicationRow(beneficiaries)
  BY <1>1 DEF IssueOK
<1>3. applications' = [applications EXCEPT ![t.id].status = "card_issued"]
  BY DEF CommitIssue
<1> QED BY <1>1, <1>2, <1>3 DEF ApplicationRow

LEMMA CommitIssueAudited ==
    ASSUME AuditedInv, NEW s \in Session, CommitIssue(s)
    PROVE  AuditedInv'
<1> DEFINE t == task[s]
           n == Len(cards) + 1
<1>1. /\ RegistryInv /\ RegistryInv' /\ Grew /\ IssueOK(t, applications)
      /\ DOMAIN cards' = DOMAIN cards \cup {n} /\ n \notin DOMAIN cards
      /\ \A c \in DOMAIN cards : cards'[c] = cards[c]
      /\ cards'[n].app = t.id /\ cards'[n].status = "active"
      /\ DOMAIN applications' = DOMAIN applications
      /\ applications'[t.id].status = "card_issued"
      /\ \A a \in DOMAIN applications \ {t.id} : applications'[a] = applications[a]
  BY CommitIssueSafe DEF AuditedInv
<1>2. /\ ~Idle(s) /\ UNCHANGED <<beneficiaries, documents, raced>> /\ End(s)
      /\ audit' = Append(audit, <<"card", "issue", n>>)
      /\ Fresh(t, beneficiaries, applications, cards)
  BY DEF CommitIssue, At, End, Log, AuditedInv, FreshOK
<1>3. OnlyItsOwn(s)
  BY <1>1, <1>2 DEF OnlyItsOwn, IssueOK
<1>4. AuditOK' /\ StatusAsAudited'
  BY <1>1, <1>2, OtherEntries
<1>5. OneLiveCard'
  <2> SUFFICES ASSUME NEW a \in DOMAIN applications, Undisturbed(a)'
               PROVE  LiveAsStatus(applications', cards', a)
    BY <1>1 DEF OneLiveCard
  <2>1. Undisturbed(a)
    BY <1>1, <1>2, UndisturbedBefore
  <2>2. CASE a = t.id
    <3>1. applications[a].status = "approved"
      BY <1>1, <1>2, <2>1, <2>2 DEF Fresh, IssueOK, Undisturbed
    <3>2. Live(cards, a) = {}
      BY <2>1, <3>1 DEF AuditedInv, OneLiveCard, LiveAsStatus
    <3>3. Live(cards', a) = {n}
      BY <1>1, <2>2, <3>2 DEF Live
    <3> QED BY <1>1, <2>2, <3>3 DEF LiveAsStatus
  <2>3. CASE a # t.id
    <3>1. Live(cards', a) = Live(cards, a)
      BY <1>1, <2>3 DEF Live
    <3> QED BY <1>1, <2>1, <2>3, <3>1, LiveStays
  <2> QED BY <2>2, <2>3
<1>6. RacedOK' /\ FreshOK'
  BY <1>1, <1>2, <1>3, EndFresh
<1>7. CardsInOrder'
  <2> SUFFICES ASSUME NEW c \in DOMAIN cards', <<"application", cards'[c].app>> \notin raced
               PROVE  IssuedOnApproval(applications', cards'[c].app)
    BY <1>2 DEF CardsInOrder
  <2>1. CASE cards'[c].app = t.id
    <3>1. applications[t.id].status = "approved" /\ t.id \in DOMAIN applications
      BY <1>1, <1>2, <2>1 DEF Fresh, IssueOK
    <3>2. applications[t.id].records # << >> /\ Last(applications[t.id].records) = "approved"
      BY <1>1, <3>1 DEF RegistryInv, StatusInv, RecordsExplainStatus, Explained
    <3> QED BY <1>1, <2>1, <3>1, <3>2, IssueKeepsRecords DEF IssuedOnApproval
  <2>2. CASE cards'[c].app # t.id
    <3>1. c \in DOMAIN cards /\ cards'[c] = cards[c]
      BY <1>1, <2>2
    <3>2. IssuedOnApproval(applications, cards[c].app)
      BY <1>2, <3>1 DEF AuditedInv, CardsInOrder
    <3>3. applications'[cards[c].app] = applications[cards[c].app]
      BY <1>1, <2>2, <3>1, CardHasApp
    <3> QED BY <3>1, <3>2, <3>3 DEF IssuedOnApproval
  <2> QED BY <2>1, <2>2
<1> QED BY <1>1, <1>4, <1>5, <1>6, <1>7 DEF AuditedInv

LEMMA CommitCardStatusAudited ==
    ASSUME AuditedInv, NEW s \in Session, CommitCardStatus(s)
    PROVE  AuditedInv'
<1> DEFINE t == task[s]
           e == <<"card", "status_change", t.id>>
<1>1. RegistryInv /\ RegistryInv' /\ Grew
  BY CommitCardSafe DEF AuditedInv
<1>2. /\ ~Idle(s) /\ UNCHANGED <<beneficiaries, applications, documents, raced>> /\ End(s)
      /\ audit' = Append(audit, e)
      /\ cards \in Seq(CardRow(applications, cards)) /\ audit \in Seq(AuditRow \cup {e})
      /\ CardStatusOK(t, cards)
  BY <1>1, TaskShapes DEF CommitCardStatus, At, End, Log, RegistryInv, StatusInv, TypeOK
<1>3. /\ DOMAIN cards' = DOMAIN cards
      /\ \A c \in DOMAIN cards \ {t.id} : cards'[c] = cards[c]
      /\ \A c \in DOMAIN cards : cards'[c].app = cards[c].app
  BY <1>1, <1>2 DEF CommitCardStatus, CardStatusOK, Grew
<1>4. OnlyItsOwn(s)
  BY <1>2, <1>3 DEF OnlyItsOwn, CardStatusOK
<1>5. AuditOK' /\ StatusAsAudited'
  BY <1>1, <1>2, OtherEntries
<1>6. OneLiveCard'
  <2> SUFFICES ASSUME NEW a \in DOMAIN applications, Undisturbed(a)'
               PROVE  LiveAsStatus(applications', cards', a)
    BY <1>2 DEF OneLiveCard
  <2>1. Undisturbed(a)
    BY <1>1, <1>2, UndisturbedBefore
  <2>2. Len(audit) + 1 \in DOMAIN audit' /\ audit'[Len(audit) + 1] = e
    BY <1>2
  <2>3. cards[t.id].app # a
    <3>1. \A c \in DOMAIN cards' : cards'[c].app = a =>
             ~\E i \in DOMAIN audit' : audit'[i] = <<"card", "status_change", c>>
      BY DEF Undisturbed, Logged
    <3> QED BY <1>2, <1>3, <2>2, <3>1 DEF CardStatusOK
  <2>4. Live(cards', a) = Live(cards, a)
    BY <1>3, <2>3 DEF Live
  <2> QED BY <1>2, <2>1, <2>4, LiveStays
<1>7. RacedOK' /\ FreshOK'
  BY <1>1, <1>2, <1>4, EndFresh
<1>8. CardsInOrder'
  BY <1>2, <1>3, OrderStays
<1> QED BY <1>1, <1>5, <1>6, <1>7, <1>8 DEF AuditedInv

\* The replaced card gives its place to the new one.
LEMMA CommitReplaceAudited ==
    ASSUME AuditedInv, NEW s \in Session, CommitReplace(s)
    PROVE  AuditedInv'
<1> DEFINE t == task[s]
           n == Len(cards) + 1
           old == cards[t.id]
           row == [old EXCEPT !.status = "replaced"]
           card == [app |-> old.app, status |-> "active", replaced_from |-> t.id]
<1>1. RegistryInv /\ RegistryInv' /\ Grew
  BY CommitCardSafe DEF AuditedInv
<1>2. /\ ~Idle(s) /\ UNCHANGED <<beneficiaries, applications, documents, raced>> /\ End(s)
      /\ audit' = Append(audit, <<"card", "replace", n>>)
      /\ cards \in Seq(CardRow(applications, cards))
      /\ ReplaceOK(t, cards) /\ Fresh(t, beneficiaries, applications, cards)
  BY <1>1, TaskShapes DEF CommitReplace, At, End, Log, RegistryInv, StatusInv, TypeOK,
                          AuditedInv, FreshOK
<1>3. old \in CardRow(applications, cards) /\ t.id \in DOMAIN cards
  BY <1>2 DEF ReplaceOK
<1>4. /\ row.status = "replaced" /\ row.app = old.app
      /\ card.status = "active" /\ card.app = old.app
  BY <1>3 DEF CardRow
<1>5. cards' = Append([cards EXCEPT ![t.id] = row], card)
  BY <1>2, <1>3 DEF CommitReplace
<1> HIDE DEF row, card
<1>6. /\ DOMAIN cards' = DOMAIN cards \cup {n} /\ n \notin DOMAIN cards
      /\ cards'[t.id] = row /\ cards'[n] = card
      /\ \A c \in DOMAIN cards \ {t.id} : cards'[c] = cards[c]
  <2> DEFINE q == [cards EXCEPT ![t.id] = row]
  <2>1. /\ q \in Seq(CardRow(applications, cards) \cup {row, card}) /\ Len(q) = Len(cards)
        /\ DOMAIN q = DOMAIN cards /\ DOMAIN cards = 1..Len(cards) /\ q[t.id] = row
        /\ \A c \in DOMAIN cards \ {t.id} : q[c] = cards[c]
    BY <1>2, <1>3
  <2> HIDE DEF q
  <2>2. cards' = Append(q, card)
    BY <1>5 DEF q
  <2>3. /\ DOMAIN cards' = DOMAIN cards \cup {n} /\ n \notin DOMAIN cards
        /\ \A c \in DOMAIN cards : cards'[c] = q[c]
        /\ cards'[n] = card
    BY <2>1, <2>2
  <2> QED BY <1>3, <2>1, <2>3
<1>7. OnlyItsOwn(s)
  BY <1>2, <1>3, <1>6 DEF OnlyItsOwn, ReplaceOK
<1>8. AuditOK' /\ StatusAsAudited'
  BY <1>1, <1>2, OtherEntries
<1>9. OneLiveCard'
  <2> SUFFICES ASSUME NEW a \in DOMAIN applications, Undisturbed(a)'
               PROVE  LiveAsStatus(applications', cards', a)
    BY <1>2 DEF OneLiveCard
  <2>1. Undisturbed(a)
    BY <1>1, <1>2, UndisturbedBefore
  <2>2. CASE a = old.app
    <3>1. t.id \in Live(cards, a)
      BY <1>2, <1>3, <2>1, <2>2 DEF Live, Fresh, ReplaceOK, Undisturbed
    <3>2. applications[a].status = "card_issued" /\ Live(cards, a) = {t.id}
      BY <2>1, <3>1 DEF AuditedInv, OneLiveCard, LiveAsStatus
    <3>3. Live(cards', a) = {n}
      BY <1>3, <1>4, <1>6, <2>2, <3>2 DEF Live
    <3> QED BY <1>2, <1>6, <3>2, <3>3 DEF LiveAsStatus
  <2>3. CASE a # old.app
    <3>1. Live(cards', a) = Live(cards, a)
      BY <1>3, <1>4, <1>6, <2>3 DEF Live
    <3> QED BY <1>2, <2>1, <3>1, LiveStays
  <2> QED BY <2>2, <2>3
<1>10. RacedOK' /\ FreshOK'
  BY <1>1, <1>2, <1>7, EndFresh
<1>11. CardsInOrder'
  <2>1. \A c \in DOMAIN cards' : \E d \in DOMAIN cards : cards'[c].app = cards[d].app
    BY <1>3, <1>4, <1>6
  <2> QED BY <1>2, <2>1, OrderStays
<1> QED BY <1>1, <1>8, <1>9, <1>10, <1>11 DEF AuditedInv

LEMMA CommitDocumentAudited ==
    ASSUME AuditedInv, NEW s \in Session, CommitUpload(s) \/ CommitVerify(s)
    PROVE  AuditedInv'
<1>1. RegistryInv /\ RegistryInv' /\ Grew
  BY CommitDocumentSafe DEF AuditedInv
<1>2. /\ ~Idle(s) /\ UNCHANGED <<beneficiaries, applications, cards, raced>> /\ End(s)
      /\ OnlyItsOwn(s)
  BY DEF CommitUpload, CommitVerify, At, End, OnlyItsOwn
<1>3. PICK action, id : audit' = Append(audit, <<"document", action, id>>)
  BY DEF CommitUpload, CommitVerify, Log
<1>4. AuditOK' /\ StatusAsAudited'
  BY <1>1, <1>2, <1>3, OtherEntries
<1>5. OneLiveCard'
  <2> SUFFICES ASSUME NEW a \in DOMAIN applications, Undisturbed(a)'
               PROVE  LiveAsStatus(applications', cards', a)
    BY <1>2 DEF OneLiveCard
  <2>1. Undisturbed(a)
    BY <1>1, <1>2, <1>3, UndisturbedBefore
  <2> QED BY <1>2, <2>1, LiveStays
<1>6. RacedOK' /\ FreshOK'
  BY <1>1, <1>2, EndFresh
<1>7. CardsInOrder'
  BY <1>2, OrderStays
<1> QED BY <1>1, <1>4, <1>5, <1>6, <1>7 DEF AuditedInv

LEMMA DisconnectAudited ==
    ASSUME AuditedInv, NEW s \in Session, Disconnect(s)
    PROVE  AuditedInv'
<1>1. RegistryInv /\ RegistryInv' /\ Grew
  BY DisconnectSafe DEF AuditedInv
<1>2. /\ UNCHANGED <<beneficiaries, applications, cards, documents, audit, raced>>
      /\ ~Idle(s) /\ End(s) /\ OnlyItsOwn(s)
  BY DEF Disconnect, End, tables, OnlyItsOwn
<1>3. RacedOK' /\ FreshOK'
  BY <1>1, <1>2, EndFresh
<1>4. AuditOK' /\ OneLiveCard' /\ CardsInOrder'
  BY <1>2, OrderStays DEF AuditedInv, AuditOK, OneLiveCard, Undisturbed, Logged
<1>5. StatusAsAudited'
  <2> SUFFICES ASSUME NEW b \in DOMAIN beneficiaries', NEW i \in DOMAIN audit',
                      <<"beneficiary", b>> \notin raced',
                      StatusSaid(applications', audit'[i], b) # {},
                      \A j \in i + 1..Len(audit') : StatusSaid(applications', audit'[j], b) = {}
               PROVE  StatusSaid(applications', audit'[i], b) = {beneficiaries'[b].status}
    BY DEF StatusAsAudited
  <2> QED BY <1>2 DEF AuditedInv, StatusAsAudited
<1> QED BY <1>1, <1>3, <1>4, <1>5 DEF AuditedInv

LEMMA ArriveFresh ==
    ASSUME AuditedInv, RegistryInv', NEW s \in Session,
           \/ \E c \in Cnic \cup {Nil} : ArriveRegister(s, c)
           \/ \E b \in DOMAIN beneficiaries :
                 \/ \E c \in Cnic : ArriveUpdate(s, b, c)
                 \/ ArriveSuspend(s, b) \/ ArriveReactivate(s, b) \/ ArriveApply(s, b)
           \/ \E a \in DOMAIN applications :
                 \/ \E op \in DOMAIN Target, reason \in BOOLEAN : ArriveDecision(s, a, op, reason)
                 \/ ArriveIssue(s, a) \/ ArriveUpload(s, a)
           \/ \E c \in DOMAIN cards :
                 ArriveReplace(s, c) \/ \E new \in CardStatus : ArriveCardStatus(s, c, new)
           \/ \E d \in DOMAIN documents, new \in DocumentStatus : ArriveVerify(s, d, new)
    PROVE  AuditedInv'
<1>1. ASSUME NEW c \in Cnic \cup {Nil}, ArriveRegister(s, c) PROVE AuditedInv'
  BY <1>1, ArriveAudited DEF ArriveRegister, Fresh, Target
<1>2. ASSUME NEW b \in DOMAIN beneficiaries, NEW op \in {"update", "suspend", "reactivate"},
             NEW new, ArriveEdit(s, b, op, new)
      PROVE  AuditedInv'
  BY <1>2, ArriveAudited DEF ArriveEdit, Fresh, Target
<1>3. ASSUME NEW b \in DOMAIN beneficiaries, ArriveApply(s, b) PROVE AuditedInv'
  BY <1>3, ArriveAudited DEF ArriveApply, Fresh, Target
<1>4. ASSUME NEW a \in DOMAIN applications, NEW op \in DOMAIN Target, NEW reason \in BOOLEAN,
             ArriveDecision(s, a, op, reason)
      PROVE  AuditedInv'
  <2> DEFINE new == [op |-> op, id |-> a, on |-> Touched(a, op),
                     at |-> IF op = "approve" THEN "beneficiary" ELSE "decide"]
  <2>1. Arrive(s, new) /\ UNCHANGED tables /\ Target[op] \in Allowed[applications[a].status]
    BY <1>4 DEF ArriveDecision, ValidTransition
  <2>2. op \notin {"suspend", "reactivate", "issue", "replace"}
    BY DEF Target
  <2>3. Fresh(new, beneficiaries, applications, cards)
    BY <2>1, <2>2 DEF Fresh
  <2> HIDE DEF new
  <2> QED BY <2>1, <2>3, ArriveAudited
<1>5. ASSUME NEW a \in DOMAIN applications, ArriveIssue(s, a) PROVE AuditedInv'
  BY <1>5, ArriveAudited DEF ArriveIssue, Fresh, Target
<1>6. ASSUME NEW a \in DOMAIN applications, ArriveUpload(s, a) PROVE AuditedInv'
  BY <1>6, ArriveAudited DEF ArriveUpload, Fresh, Target
<1>7. ASSUME NEW c \in DOMAIN cards, ArriveReplace(s, c) PROVE AuditedInv'
  BY <1>7, ArriveAudited DEF ArriveReplace, Fresh, Target
<1>8. ASSUME NEW c \in DOMAIN cards, NEW new \in CardStatus, ArriveCardStatus(s, c, new)
      PROVE  AuditedInv'
  BY <1>8, ArriveAudited DEF ArriveCardStatus, Fresh, Target
<1>9. ASSUME NEW d \in DOMAIN documents, NEW new \in DocumentStatus, ArriveVerify(s, d, new)
      PROVE  AuditedInv'
  BY <1>9, ArriveAudited DEF ArriveVerify, Fresh, Target
<1> QED BY <1>1, <1>2, <1>3, <1>4, <1>5, <1>6, <1>7, <1>8, <1>9
        DEF ArriveUpdate, ArriveSuspend, ArriveReactivate

LEMMA AuditedStep ==
    ASSUME AuditedInv, [Next]_vars
    PROVE  AuditedInv'
<1>1. RegistryInv'
  BY RegistryStep DEF AuditedInv
<1>2. CASE UNCHANGED vars
  <2>1. /\ UNCHANGED <<beneficiaries, applications, cards, documents, audit, raced, task>>
    BY <1>2 DEF vars, tables, requests
  <2>2. RacedOK' /\ AuditOK' /\ OneLiveCard' /\ CardsInOrder'
    BY <2>1, OrderStays DEF AuditedInv, RacedOK, AuditOK, OneLiveCard, Undisturbed, Logged, Idle
  <2>3. FreshOK'
    BY <2>1 DEF AuditedInv, FreshOK, Fresh, Idle
  <2>4. StatusAsAudited'
    <3> SUFFICES ASSUME NEW b \in DOMAIN beneficiaries', NEW i \in DOMAIN audit',
                        <<"beneficiary", b>> \notin raced',
                        StatusSaid(applications', audit'[i], b) # {},
                        \A j \in i + 1..Len(audit') :
                            StatusSaid(applications', audit'[j], b) = {}
                 PROVE  StatusSaid(applications', audit'[i], b) = {beneficiaries'[b].status}
      BY DEF StatusAsAudited
    <3> QED BY <2>1 DEF AuditedInv, StatusAsAudited
  <2> QED BY <1>1, <2>2, <2>3, <2>4 DEF AuditedInv
<1>3. ASSUME NEW s \in Session, Progress(s) PROVE AuditedInv'
  BY <1>1, <1>3, ReadsAudited, CommitBeneficiaryAudited, CommitApplyAudited,
     CommitDecisionAudited, CommitIssueAudited, CommitCardStatusAudited, CommitReplaceAudited,
     CommitDocumentAudited DEF Progress
<1>4. CASE Next
  BY <1>1, <1>3, <1>4, ArriveFresh, DisconnectAudited DEF Next
<1> QED BY <1>2, <1>4

\* No card, issued or replaced, is without an approval on record, and none is one of
\* an application decided on after the approval, unless requests about it met
\* (cards.py:4).
THEOREM CardsFollowApproval == Spec => []CardNeedsApproval
<1>1. AuditedInv => CardNeedsApproval
  BY DEF AuditedInv, RegistryInv, CardsOnRecord, CardsInOrder, CardNeedsApproval
<1> QED BY <1>1, AuditedInit, AuditedStep, PTL DEF Spec

\* Through any chain of replacements an application has one card that is not
\* replaced when its status says it has one, and none before, unless it or one of its
\* cards was contended or a card's status was set by hand (cards.py:4-5).
THEOREM CardInForce == Spec => []OneLiveCard
<1>1. AuditedInv => OneLiveCard
  BY DEF AuditedInv
<1> QED BY <1>1, AuditedInit, AuditedStep, PTL DEF Spec

\* The audit trail tells whether a beneficiary is in good standing, unless two
\* requests set its status at once (audit_service.py:2).
THEOREM TrailTellsStatus == Spec => []StatusAsAudited
<1>1. AuditedInv => StatusAsAudited
  BY DEF AuditedInv
<1> QED BY <1>1, AuditedInit, AuditedStep, PTL DEF Spec
=============================================================================
