---------------------------- MODULE Registration ----------------------------
(***************************************************************************)
(* How a person comes to a welfare card: beneficiaries, applications and   *)
(* the decisions on them, documents, and cards.                            *)
(*                                                                         *)
(* Every handler loads rows, checks a status and commits.  An approval     *)
(* also activates the beneficiary, the issue of a card also moves the      *)
(* application, so handlers of different files change the same rows.       *)
(* Names, programs, dates and file contents are left out; a beneficiary's  *)
(* identity is a value of Cnic.                                            *)
(***************************************************************************)
EXTENDS Requests, Integers, SequencesExt

CONSTANTS
    Cnic,    \* identity numbers
    Worlds   \* initial tables, each a state the program reaches

\* ALLOWED_TRANSITIONS: from_status -> set of statuses it may move to.
Allowed ==
    [draft             |-> {"submitted"},
     submitted         |-> {"under_review"},
     under_review      |-> {"verification", "rejected", "request_more_info"},
     verification      |-> {"approved", "rejected", "request_more_info"},
     request_more_info |-> {"under_review"},
     approved          |-> {"card_issued", "suspended", "deactivated"},
     card_issued       |-> {"suspended", "expired", "deactivated"},
     suspended         |-> {"approved", "card_issued", "deactivated"},
     rejected          |-> {},
     expired           |-> {},
     deactivated       |-> {}]

ApplicationStatus == DOMAIN Allowed

\* The status each endpoint moves an application to.
Target ==
    [submit                |-> "submitted",
     start_review          |-> "under_review",
     send_for_verification |-> "verification",
     approve               |-> "approved",
     reject                |-> "rejected",
     request_more_info     |-> "request_more_info",
     resubmit              |-> "under_review"]

\* Whether the payload of each endpoint can carry a reason.
MayCarryReason == {"approve", "reject", "request_more_info"}

ReasonRequiredFor == {"rejected", "request_more_info", "suspended"}

BeneficiaryStatus == {"pending", "active", "suspended", "deactivated"}

CardStatus ==
    {"active", "blocked", "suspended", "expired", "lost", "replaced", "deactivated"}

DocumentStatus == {"pending", "verified", "rejected"}

\* The rows, with what the properties need of the VerificationRecords of an
\* application.  A card row does not name its application; app is a history field.
BeneficiaryRow == [cnic : Cnic \cup {Nil}, status : BeneficiaryStatus]

ApplicationRow(bs) ==
    [beneficiary : DOMAIN bs, status : ApplicationStatus, records : Seq(ApplicationStatus)]

CardRow(as, cs) ==
    [app : DOMAIN as, status : CardStatus, replaced_from : DOMAIN cs \cup {Nil}]

DocumentRow(as) == [application : DOMAIN as, file : Nat \ {0}, status : DocumentStatus]

Entity == {"beneficiary", "application", "card", "document"}

Action ==
    {"create", "update", "suspend", "reactivate", "issue", "status_change", "replace",
     "upload", "verify"} \cup DOMAIN Target

AuditRow == Entity \X Action \X Nat

\* The decisions on record for an application.
DecidedIn(as, a) == ToSet(as[a].records)

\* A status is the decision of the last record, or that of a card which followed
\* an approval on record.
Explained(as, cs) ==
    \A a \in DOMAIN as : LET r == as[a].records IN
        \/ as[a].status = (IF r = << >> THEN "draft" ELSE Last(r))
        \/ /\ as[a].status = "card_issued" /\ "approved" \in DecidedIn(as, a)
           /\ \E c \in DOMAIN cs : cs[c].app = a

CardsApproved(as, cs) == \A c \in DOMAIN cs : "approved" \in DecidedIn(as, cs[c].app)

\* An application whose last decision is the approval its card was issued on.
IssuedOnApproval(as, a) ==
    as[a].status = "card_issued" /\ as[a].records # << >> /\ Last(as[a].records) = "approved"

\* The cards of an application that are not replaced: one when its status says so.
Live(cs, a) == {c \in DOMAIN cs : cs[c].app = a /\ cs[c].status # "replaced"}

LiveAsStatus(as, cs, a) ==
    IF as[a].status = "card_issued" THEN \E c \in DOMAIN cs : Live(cs, a) = {c}
                                    ELSE Live(cs, a) = {}

\* What every table a behaviour starts from satisfies, the empty ones among them.
ASSUME WorldsAssumption == \A w \in Worlds :
    /\ w.beneficiaries \in Seq(BeneficiaryRow)
    /\ w.applications \in Seq(ApplicationRow(w.beneficiaries))
    /\ w.cards \in Seq(CardRow(w.applications, w.cards))
    /\ Explained(w.applications, w.cards)
    /\ CardsApproved(w.applications, w.cards)
    /\ \A c \in DOMAIN w.cards : IssuedOnApproval(w.applications, w.cards[c].app)
    /\ \A a \in DOMAIN w.applications : LiveAsStatus(w.applications, w.cards, a)

VARIABLES
    beneficiaries, applications, cards, documents,
    files,   \* number of files written to the storage directory
    audit    \* committed AuditLog rows: the two parts of the action, and the entity

tables == <<beneficiaries, applications, cards, documents, audit>>
vars == <<tables, files, requests>>

Log(entity, action, id) == audit' = Append(audit, <<entity, action, id>>)

Init ==
    /\ \E w \in Worlds : /\ beneficiaries = w.beneficiaries
                         /\ applications = w.applications
                         /\ cards = w.cards
    /\ documents = << >> /\ files = 0 /\ audit = << >>
    /\ InitRequests

-----------------------------------------------------------------------------
\* Beneficiaries (beneficiaries.py)

Known(c) == \E b \in DOMAIN beneficiaries : beneficiaries[b].cnic = c

\* create_beneficiary: a CNIC, when one is given, must be new to the SELECT.
ArriveRegister(s, c) ==
    /\ c = Nil \/ ~Known(c)
    /\ Arrive(s, [op |-> "register", at |-> "insert", on |-> {}, cnic |-> c])
    /\ UNCHANGED <<tables, files>>

CommitRegister(s) ==
    /\ At(s, "register", "commit")
    /\ beneficiaries' = Append(beneficiaries, [cnic |-> task[s].cnic, status |-> "pending"])
    /\ Log("beneficiary", "create", Len(beneficiaries) + 1)
    /\ End(s)
    /\ UNCHANGED <<applications, cards, documents, files>>

\* The endpoints that edit a beneficiary: the row is loaded and, to reactivate,
\* must be suspended.
ArriveEdit(s, b, op, new) ==
    /\ op = "reactivate" => beneficiaries[b].status = "suspended"
    /\ Arrive(s, [op |-> op, at |-> "commit", id |-> b,
                  on |-> IF op = "update" THEN {} ELSE {<<"beneficiary", b>>},
                  loaded |-> beneficiaries[b], new |-> new])
    /\ UNCHANGED <<tables, files>>

\* update_beneficiary sets the CNIC, checked against no one, and never the status.
ArriveUpdate(s, b, c) == ArriveEdit(s, b, "update", [beneficiaries[b] EXCEPT !.cnic = c])

ArriveSuspend(s, b) ==
    ArriveEdit(s, b, "suspend", [beneficiaries[b] EXCEPT !.status = "suspended"])

ArriveReactivate(s, b) ==
    ArriveEdit(s, b, "reactivate", [beneficiaries[b] EXCEPT !.status = "active"])

\* An edit that writes every attribute it has loaded.
CommitEditWhole(s) ==
    \E op \in {"update", "suspend", "reactivate"} :
        /\ At(s, op, "commit")
        /\ beneficiaries' = [beneficiaries EXCEPT ![task[s].id] = task[s].new]
        /\ Log("beneficiary", op, task[s].id)
        /\ End(s)
        /\ UNCHANGED <<applications, cards, documents, files>>

CommitEdit(s) ==
    \E op \in {"update", "suspend", "reactivate"} :
        /\ At(s, op, "commit")
        /\ LET t == task[s] IN
           /\ beneficiaries' = [beneficiaries EXCEPT ![t.id] =
                 [cnic   |-> Assigned(t.loaded.cnic, t.new.cnic, @.cnic),
                  status |-> Assigned(t.loaded.status, t.new.status, @.status)]]
           /\ Log("beneficiary", op, t.id)
        /\ End(s)
        /\ UNCHANGED <<applications, cards, documents, files>>

-----------------------------------------------------------------------------
\* Applications (applications.py)

\* create_application loads the beneficiary.
ArriveApply(s, b) ==
    /\ Arrive(s, [op |-> "apply", at |-> "insert", on |-> {}, beneficiary |-> b])
    /\ UNCHANGED <<tables, files>>

CommitApply(s) ==
    /\ At(s, "apply", "commit")
    /\ applications' = Append(applications, [beneficiary |-> task[s].beneficiary,
                                             status |-> "draft", records |-> << >>])
    /\ Log("application", "create", Len(applications) + 1)
    /\ End(s)
    /\ UNCHANGED <<beneficiaries, cards, documents, files>>

ValidTransition(current, target, reason) ==
    /\ target \in Allowed[current]
    /\ target \in ReasonRequiredFor => reason

\* What a decision is about: an approval is about the beneficiary too.
Touched(a, op) ==
    {<<"application", a>>} \cup
    (IF op = "approve" THEN {<<"beneficiary", applications[a].beneficiary>>} ELSE {})

\* An endpoint loads the application, and _transition validates the loaded status.
ArriveDecision(s, a, op, reason) ==
    /\ reason => op \in MayCarryReason
    /\ ValidTransition(applications[a].status, Target[op], reason)
    /\ Arrive(s, [op |-> op, id |-> a, on |-> Touched(a, op),
                  at |-> IF op = "approve" THEN "beneficiary" ELSE "decide"])
    /\ UNCHANGED <<tables, files>>

\* An approval then loads the beneficiary.
ReadBeneficiary(s) ==
    /\ At(s, "approve", "beneficiary")
    /\ LET t == task[s] IN
       Continue(s, [op |-> t.op, id |-> t.id, on |-> t.on, at |-> "decide",
                    loaded |-> beneficiaries[applications[t.id].beneficiary].status])
    /\ UNCHANGED <<tables, files>>

\* A decision that leaves no VerificationRecord.
CommitDecisionUnrecorded(s) ==
    \E op \in DOMAIN Target :
        /\ At(s, op, "decide")
        /\ applications' = [applications EXCEPT ![task[s].id].status = Target[op]]
        /\ UNCHANGED beneficiaries
        /\ Log("application", op, task[s].id)
        /\ End(s)
        /\ UNCHANGED <<cards, documents, files>>

\* One commit for the application, its VerificationRecord and the beneficiary.
\* The target always differs from the loaded status, so it is always written.
CommitDecision(s) ==
    \E op \in DOMAIN Target :
        /\ At(s, op, "decide")
        /\ LET t == task[s]
               b == applications[t.id].beneficiary
           IN /\ applications' = [applications EXCEPT
                    ![t.id].status = Target[op],
                    ![t.id].records = Append(@, Target[op])]
              /\ beneficiaries' =
                    IF op = "approve"
                    THEN [beneficiaries EXCEPT ![b].status = Assigned(t.loaded, "active", @)]
                    ELSE beneficiaries
              /\ Log("application", op, t.id)
        /\ End(s)
        /\ UNCHANGED <<cards, documents, files>>

-----------------------------------------------------------------------------
\* Cards (cards.py)

\* A card for an application of any status.
ArriveIssueAnyStatus(s, a) ==
    /\ Arrive(s, [op |-> "issue", at |-> "insert", on |-> {<<"application", a>>}, id |-> a])
    /\ UNCHANGED <<tables, files>>

ArriveIssue(s, a) ==
    /\ applications[a].status = "approved"
    /\ Arrive(s, [op |-> "issue", at |-> "insert", on |-> {<<"application", a>>}, id |-> a])
    /\ UNCHANGED <<tables, files>>

\* A card that leaves its application approved.
CommitIssueOnly(s) ==
    /\ At(s, "issue", "commit")
    /\ cards' = Append(cards, [app |-> task[s].id, status |-> "active", replaced_from |-> Nil])
    /\ Log("card", "issue", Len(cards) + 1)
    /\ End(s)
    /\ UNCHANGED <<beneficiaries, applications, documents, files>>

\* The card is born active and the application moves, with no VerificationRecord.
CommitIssue(s) ==
    /\ At(s, "issue", "commit")
    /\ cards' = Append(cards, [app |-> task[s].id, status |-> "active", replaced_from |-> Nil])
    /\ applications' = [applications EXCEPT ![task[s].id].status = "card_issued"]
    /\ Log("card", "issue", Len(cards) + 1)
    /\ End(s)
    /\ UNCHANGED <<beneficiaries, documents, files>>

\* update_card_status refuses only the status REPLACED, whatever the card's own is.
ArriveCardStatus(s, c, new) ==
    /\ new # "replaced"
    /\ Arrive(s, [op |-> "card_status", at |-> "commit", on |-> {<<"card", c>>},
                  id |-> c, loaded |-> cards[c].status, new |-> new])
    /\ UNCHANGED <<tables, files>>

CommitCardStatus(s) ==
    /\ At(s, "card_status", "commit")
    /\ LET t == task[s] IN
       /\ cards' = [cards EXCEPT ![t.id].status = Assigned(t.loaded, t.new, @)]
       /\ Log("card", "status_change", t.id)
    /\ End(s)
    /\ UNCHANGED <<beneficiaries, applications, documents, files>>

\* A replacement of whatever card was named.
ArriveReplaceAny(s, c) ==
    /\ Arrive(s, [op |-> "replace", at |-> "insert", on |-> {<<"card", c>>}, id |-> c])
    /\ UNCHANGED <<tables, files>>

ArriveReplace(s, c) ==
    /\ cards[c].status # "replaced"
    /\ Arrive(s, [op |-> "replace", at |-> "insert", on |-> {<<"card", c>>}, id |-> c])
    /\ UNCHANGED <<tables, files>>

CommitReplace(s) ==
    /\ At(s, "replace", "commit")
    /\ LET c == task[s].id IN
       cards' = Append([cards EXCEPT ![c].status = "replaced"],
                       [app |-> cards[c].app, status |-> "active", replaced_from |-> c])
    /\ Log("card", "replace", Len(cards) + 1)
    /\ End(s)
    /\ UNCHANGED <<beneficiaries, applications, documents, files>>

-----------------------------------------------------------------------------
\* Documents (documents.py)

\* upload_document writes the file, whose type it accepts, before the row.
ArriveUpload(s, a) ==
    /\ Arrive(s, [op |-> "upload", at |-> "commit", on |-> {}, id |-> a, file |-> files + 1])
    /\ files' = files + 1
    /\ UNCHANGED tables

CommitUpload(s) ==
    /\ At(s, "upload", "commit")
    /\ documents' = Append(documents, [application |-> task[s].id, file |-> task[s].file,
                                       status |-> "pending"])
    /\ Log("document", "upload", Len(documents) + 1)
    /\ End(s)
    /\ UNCHANGED <<beneficiaries, applications, cards, files>>

\* verify_document sets any status at any time.
ArriveVerify(s, d, new) ==
    /\ Arrive(s, [op |-> "verify", at |-> "commit", on |-> {<<"document", d>>},
                  id |-> d, loaded |-> documents[d].status, new |-> new])
    /\ UNCHANGED <<tables, files>>

CommitVerify(s) ==
    /\ At(s, "verify", "commit")
    /\ LET t == task[s] IN
       /\ documents' = [documents EXCEPT ![t.id].status = Assigned(t.loaded, t.new, @)]
       /\ Log("document", "verify", t.id)
    /\ End(s)
    /\ UNCHANGED <<beneficiaries, applications, cards, files>>

-----------------------------------------------------------------------------

\* Three tables have a unique code that is "PENDING" for a while.
InsertCoded(s) ==
    /\ \E ops \in {{"register"}, {"apply"}, {"issue", "replace"}} : InsertPending(s, ops)
    /\ UNCHANGED <<tables, files>>

\* A client disconnects or a worker dies; a file that was written stays.
Disconnect(s) == ~Idle(s) /\ End(s) /\ UNCHANGED <<tables, files>>

Progress(s) ==
    \/ InsertCoded(s) \/ ReadBeneficiary(s)
    \/ CommitRegister(s) \/ CommitEdit(s) \/ CommitApply(s) \/ CommitDecision(s)
    \/ CommitIssue(s) \/ CommitCardStatus(s) \/ CommitReplace(s)
    \/ CommitUpload(s) \/ CommitVerify(s)

Next == \E s \in Session :
    \/ \E c \in Cnic \cup {Nil} : ArriveRegister(s, c)
    \/ \E b \in DOMAIN beneficiaries :
          \/ \E c \in Cnic : ArriveUpdate(s, b, c)
          \/ ArriveSuspend(s, b) \/ ArriveReactivate(s, b) \/ ArriveApply(s, b)
    \/ \E a \in DOMAIN applications :
          \/ \E op \in DOMAIN Target, reason \in BOOLEAN : ArriveDecision(s, a, op, reason)
          \/ ArriveIssue(s, a) \/ ArriveUpload(s, a)
    \/ \E c \in DOMAIN cards :
          ArriveReplace(s, c) \/ \E new \in CardStatus : ArriveCardStatus(s, c, new)
    \/ \E d \in DOMAIN documents, new \in DocumentStatus : ArriveVerify(s, d, new)
    \/ Progress(s)
    \/ Disconnect(s)

Spec == Init /\ [][Next]_vars

-----------------------------------------------------------------------------

TypeOK ==
    /\ beneficiaries \in Seq(BeneficiaryRow)
    /\ applications \in Seq(ApplicationRow(beneficiaries))
    /\ cards \in Seq(CardRow(applications, cards))
    /\ documents \in Seq(DocumentRow(applications))
    /\ files \in Nat
    /\ audit \in Seq(AuditRow)
    /\ begun \in 0..MaxRequests

Decided(a) == DecidedIn(applications, a)

\* Every decision comes with its VerificationRecord (applications.py:118-151), so
\* whatever decisions race, the status of an application is the decision of the last
\* record.  The issue of a card moves the application too and leaves no record
\* (cards.py:69), although README.md:83-86 counts card_issued among the transitions
\* that each write one: that status is explained by the card, after an approval.
RecordsExplainStatus == Explained(applications, cards)

\* Rows that refer to rows there are, and statuses that are on record
\* (application_service.py:90).
StatusInv == TypeOK /\ RecordsExplainStatus

\* cards.py:4 "A card can only be issued for an APPROVED application": through any
\* chain of replacements a card has an approval on record, and no decision after it
\* as long as no two requests were about the application at once.  A rejection
\* validated before the approval it races commits can commit between the check of
\* cards.py:49 and the card, which is then one of a rejected application.
CardNeedsApproval ==
    /\ CardsApproved(applications, cards)
    /\ \A c \in DOMAIN cards : <<"application", cards[c].app>> \notin raced =>
          IssuedOnApproval(applications, cards[c].app)

Logged(entity, action, id) == \E i \in DOMAIN audit : audit[i] = <<entity, action, id>>

Undisturbed(a) ==
    /\ <<"application", a>> \notin raced
    /\ \A c \in DOMAIN cards : cards[c].app = a =>
          <<"card", c>> \notin raced /\ ~Logged("card", "status_change", c)

\* cards.py:4-5 "issuing it moves the application to CARD_ISSUED. Replacing a lost
\* card blocks the old card and issues a brand new row": through any chain of
\* replacements an application has one card that is not replaced once it is in
\* CARD_ISSUED and none before, unless two requests were about the application or
\* one of its cards at once, or a card had its status set by hand.
OneLiveCard ==
    \A a \in DOMAIN applications : Undisturbed(a) => LiveAsStatus(applications, cards, a)

\* What an entry of the audit trail says of the status of beneficiary b, if anything.
StatusSaid(as, e, b) ==
    CASE e = <<"beneficiary", "suspend", b>>    -> {"suspended"}
      [] e = <<"beneficiary", "reactivate", b>> -> {"active"}
      [] /\ e[1] = "application" /\ e[2] = "approve"
         /\ as[e[3]].beneficiary = b            -> {"active"}
      [] OTHER                                  -> {}

\* audit_service.py:2 "the audit row and the change it describes": the last
\* suspension, reactivation or approval on the audit trail is in force, unless two
\* of them were in flight at once.
StatusAsAudited ==
    \A b \in DOMAIN beneficiaries, i \in DOMAIN audit :
        /\ <<"beneficiary", b>> \notin raced
        /\ StatusSaid(applications, audit[i], b) # {}
        /\ \A j \in i + 1..Len(audit) : StatusSaid(applications, audit[j], b) = {}
        => StatusSaid(applications, audit[i], b) = {beneficiaries[b].status}

\* models/beneficiary.py:66 "ACTIVE = approved and in good standing".
ActiveMeansApproved ==
    \A b \in DOMAIN beneficiaries : beneficiaries[b].status = "active" =>
        \E a \in DOMAIN applications :
            applications[a].beneficiary = b /\ "approved" \in Decided(a)
=============================================================================
