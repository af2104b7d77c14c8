---------------------------- MODULE ReviewPromise ----------------------------
(***************************************************************************)
(* What the review queue promises the people who use it, with no mention   *)
(* of sessions, requests or transactions: a run is submitted once by one   *)
(* researcher, decided once by one reviewer, and then stands.              *)
(***************************************************************************)
CONSTANTS Runs, Researchers, Reviewers

VARIABLE review  \* run -> its row in run_reviews

Verdicts == {"approved", "rejected"}
-----------------------------------------------------------------------------
SubmittedBy(row, a) ==
  row.status = "pending" /\ row.researcher = a

Decides(before, after) ==
  /\ before.status = "pending"
  /\ after.status \in Verdicts
  /\ after.researcher = before.researcher
  /\ after.reviewer \in Reviewers

Init == \A r \in Runs : review[r].status = "none"

Next == \A r \in Runs :
          \/ review'[r] = review[r]
          \/ /\ review[r].status = "none"
             /\ \E a \in Researchers : SubmittedBy(review'[r], a)
          \/ Decides(review[r], review'[r])

Spec == Init /\ [][Next]_review
=============================================================================
