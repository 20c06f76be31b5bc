--------------------------- MODULE MCRegistration ---------------------------
(***************************************************************************)
(* Instances of Registration.  The worlds: nobody yet; an application just *)
(* entered, about to be decided, approved for a suspended beneficiary, and *)
(* answered with a card.                                                   *)
(***************************************************************************)
EXTENDS Registration

Person(st) == <<[cnic |-> "c1", status |-> st]>>

Applied(st, records) == <<[beneficiary |-> 1, status |-> st, records |-> records]>>

Verified == <<"submitted", "under_review", "verification">>

Approved == Append(Verified, "approved")

WorldOf(bs, as, cs) == [beneficiaries |-> bs, applications |-> as, cards |-> cs]

Nobody == WorldOf(<< >>, << >>, << >>)

Entered == WorldOf(Person("pending"), Applied("draft", << >>), << >>)

UnderReview ==
    WorldOf(Person("pending"), Applied("under_review", <<"submitted", "under_review">>), << >>)

InVerification ==
    WorldOf(Person("pending"), Applied("verification", Verified), << >>)

SuspendedOnceApproved ==
    WorldOf(Person("suspended"), Applied("approved", Approved), << >>)

WithCard ==
    WorldOf(Person("active"), Applied("card_issued", Approved),
            <<[app |-> 1, status |-> "active", replaced_from |-> Nil]>>)

MCWorlds ==
    {Nobody, Entered, UnderReview, InVerification, SuspendedOnceApproved, WithCard}

JustPending == {Entered}

Interchangeable == Permutations(Session)
=============================================================================
