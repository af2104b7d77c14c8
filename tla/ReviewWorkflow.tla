---------------------------- MODULE ReviewWorkflow ----------------------------
(***************************************************************************)
(* Sessions and the review queue of a coordinator (server/src/             *)
(* review-routes.ts and the review queries of database.ts; the .NET        *)
(* ReviewService and its repositories do the same).  A request takes three *)
(* steps: the session is looked up and the body checked, the run or the    *)
(* review is read, and then, after an await, written in one transaction.   *)
(* Other requests, deletes, revocations, expiry and restarts come between. *)
(***************************************************************************)
EXTENDS Naturals, FiniteSets

CONSTANTS Researchers, Reviewers,  \* the selectable accounts
          Tokens,    \* session tokens, each given out at most once
          Capacity,  \* how many sessions the map holds (256)
          Runs,      \* stored runs, here each of an experiment of its own
          Requests,  \* requests, each made at most once
          MaxRestarts  \* bound: how often the coordinator is restarted

ASSUME ReviewConstants == /\ Researchers \cap Reviewers = {}
                          /\ Researchers # {} /\ Reviewers # {}
                          /\ Tokens # {} /\ Runs # {}
                          /\ IsFiniteSet(Tokens)
                          /\ Capacity \in Nat \ {0}
                          /\ MaxRestarts \in Nat

VARIABLES session,  \* token -> "unused", "valid", "expired" or "gone"
          holder,   \* token -> the account it was given out for
          stored,   \* runs that have not been deleted
          review,   \* run -> its row in run_reviews
          at,       \* request -> where its handler stands
          asked,    \* request -> what it asks for, and of whom
          reply,    \* request -> status and the rows it carried
          restarts  \* how often the coordinator was restarted (bounded)

accounts == <<session, holder>>
store    == <<stored, review>>
vars     == <<accounts, store, at, asked, reply, restarts>>
-----------------------------------------------------------------------------
Actors == Researchers \cup Reviewers

Verdicts == {"approved", "rejected"}

NoReview == [status |-> "none"]

(* The feedback of a decision is named by the request that sent it.        *)
Review == [status : {"pending"}, researcher : Researchers]
          \cup [status : Verdicts, researcher : Researchers,
                reviewer : Reviewers, feedback : Requests]

Question == [kind : {"submit", "get", "list"}, token : Tokens, run : Runs]
            \cup [kind : {"decide"}, token : Tokens, run : Runs,
                  verdict : Verdicts \cup {"invalid"}]

NoQuestion == [kind |-> "none"]

Statuses == {0, 200, 201, 400, 401, 403, 404, 409, 503}

Reply == [status : Statuses, rows : SUBSET (Runs \X Review), actor : Actors \cup {""}]

NoReply == [status |-> 0, rows |-> {}, actor |-> ""]

(* Rows of the sessions map: an expired one stays until it is looked up or *)
(* another session is created.                                             *)
Held == {t \in Tokens : session[t] \in {"valid", "expired"}}

Valid(t) == session[t] = "valid"
-----------------------------------------------------------------------------
TypeOK == /\ session \in [Tokens -> {"unused", "valid", "expired", "gone"}]
          /\ holder \in [Tokens -> Actors]
          /\ stored \subseteq Runs
          /\ review \in [Runs -> Review \cup {NoReview}]
          /\ at \in [Requests -> {"new", "reading", "writing", "answered", "lost"}]
          /\ asked \in [Requests -> Question \cup {NoQuestion}]
          /\ \A q \in Requests : at[q] # "new" => asked[q] \in Question
          /\ reply \in [Requests -> Reply]
          /\ restarts \in 0..MaxRestarts

Init == /\ session = [t \in Tokens |-> "unused"]
        /\ holder \in [Tokens -> Actors]
        /\ stored = Runs
        /\ review = [r \in Runs |-> NoReview]
        /\ at = [q \in Requests |-> "new"]
        /\ asked = [q \in Requests |-> NoQuestion]
        /\ reply = [q \in Requests |-> NoReply]
        /\ restarts = 0
-----------------------------------------------------------------------------
(* Sessions.                                                               *)

(* Expired sessions are swept, and if the map is full after that nothing   *)
(* is created (429).                                                       *)
CreateSession(t) ==
  LET swept == [u \in Tokens |-> IF session[u] = "expired" THEN "gone" ELSE session[u]]
  IN /\ session[t] = "unused"
     /\ session' = IF Cardinality({u \in Tokens : Valid(u)}) >= Capacity
                     THEN swept ELSE [swept EXCEPT ![t] = "valid"]
     /\ UNCHANGED <<holder, store, at, asked, reply, restarts>>

(* An hour has passed.                                                     *)
Expire(t) ==
  /\ session[t] = "valid"
  /\ session' = [session EXCEPT ![t] = "expired"]
  /\ UNCHANGED <<holder, store, at, asked, reply, restarts>>

(* DELETE /api/demo-sessions/current: the session is looked up, and one    *)
(* that has expired is removed as well (401).                              *)
Revoke(t) ==
  /\ t \in Held
  /\ session' = [session EXCEPT ![t] = "gone"]
  /\ UNCHANGED <<holder, store, at, asked, reply, restarts>>

(* The map does not survive the process, nor do the requests in it.        *)
Restart ==
  /\ restarts < MaxRestarts
  /\ restarts' = restarts + 1
  /\ session' = [t \in Tokens |-> IF session[t] = "unused" THEN "unused" ELSE "gone"]
  /\ at' = [q \in Requests |-> IF at[q] \in {"reading", "writing"} THEN "lost" ELSE at[q]]
  /\ UNCHANGED <<holder, store, asked, reply>>
-----------------------------------------------------------------------------
(* The handlers.                                                           *)

Answer(q, status, rows, actor) ==
  /\ at' = [at EXCEPT ![q] = "answered"]
  /\ reply' = [reply EXCEPT ![q] = [status |-> status, rows |-> rows, actor |-> actor]]

Holder(q) == holder[asked[q].token]

(* Researchers submit, reviewers decide, both read.                        *)
RoleMay(question, actor) == /\ question.kind = "submit" => actor \in Researchers
                            /\ question.kind = "decide" => actor \in Reviewers

(* actorFor, the role and the body, before the first await.                *)
Receive(q, question) ==
  /\ at[q] = "new"
  /\ asked' = [asked EXCEPT ![q] = question]
  /\ LET t == question.token
         actor == holder[t]
     IN \/ /\ ~Valid(t)
           /\ session' = [session EXCEPT ![t] = IF @ = "expired" THEN "gone" ELSE @]
           /\ Answer(q, 401, {}, "")
        \/ /\ Valid(t)
           /\ ~RoleMay(question, actor)
           /\ Answer(q, 403, {}, actor)
           /\ UNCHANGED session
        \/ /\ Valid(t)
           /\ RoleMay(question, actor)
           /\ question.kind = "decide"
           /\ question.verdict = "invalid"
           /\ Answer(q, 400, {}, actor)
           /\ UNCHANGED session
        \/ /\ Valid(t)
           /\ RoleMay(question, actor)
           /\ question.kind = "decide" => question.verdict # "invalid"
           /\ at' = [at EXCEPT ![q] = "reading"]
           /\ UNCHANGED <<session, reply>>
  /\ UNCHANGED <<holder, store, restarts>>

(* A researcher sees the reviews of their own submissions only.            *)
Sees(actor, r) == /\ review[r] # NoReview
                  /\ actor \in Researchers => review[r].researcher = actor

(* getReview and listReviews, which join the review with its run.          *)
Read(q) ==
  /\ at[q] = "reading"
  /\ LET r == asked[q].run
         seen == {s \in Runs : Sees(Holder(q), s)}
     IN \/ /\ asked[q].kind = "list"
           /\ Answer(q, 200, {<<s, review[s]>> : s \in seen}, Holder(q))
        \/ /\ asked[q].kind = "get"
           /\ IF r \in seen THEN Answer(q, 200, {<<r, review[r]>>}, Holder(q))
                            ELSE Answer(q, 404, {}, Holder(q))
        \/ /\ asked[q].kind = "submit"
           /\ IF r \in stored
                THEN at' = [at EXCEPT ![q] = "writing"] /\ UNCHANGED reply
                ELSE Answer(q, 404, {}, Holder(q))
        \/ /\ asked[q].kind = "decide"
           /\ IF review[r] # NoReview
                THEN at' = [at EXCEPT ![q] = "writing"] /\ UNCHANGED reply
                ELSE Answer(q, 404, {}, Holder(q))
  /\ UNCHANGED <<accounts, store, asked, restarts>>

Submission(q) == [status |-> "pending", researcher |-> Holder(q)]

Write(q, r, row, status) ==
  /\ review' = [review EXCEPT ![r] = row]
  /\ Answer(q, status, {<<r, row>>}, Holder(q))

(* Mutant: the foreign key of the review is not enforced.                  *)
SubmitUnchecked(q) ==
  /\ at[q] = "writing"
  /\ asked[q].kind = "submit"
  /\ LET r == asked[q].run IN
     IF review[r] = NoReview
       THEN Write(q, r, Submission(q), 201)
       ELSE UNCHANGED review /\ Answer(q, 409, {}, Holder(q))
  /\ UNCHANGED <<accounts, stored, asked, restarts>>

(* createReview: the run must still be there (foreign key) and have no     *)
(* review (UNIQUE run_id).                                                 *)
Submit(q) ==
  /\ at[q] = "writing"
  /\ asked[q].kind = "submit"
  /\ LET r == asked[q].run IN
     IF r \in stored /\ review[r] = NoReview
       THEN Write(q, r, Submission(q), 201)
       ELSE UNCHANGED review /\ Answer(q, 409, {}, Holder(q))
  /\ UNCHANGED <<accounts, stored, asked, restarts>>

Decision(q) == [status |-> asked[q].verdict, reviewer |-> Holder(q), feedback |-> q,
                researcher |-> review[asked[q].run].researcher]

(* Mutant: an update that changes no row is taken for a decision.         *)
DecideUncounted(q) ==
  /\ at[q] = "writing"
  /\ asked[q].kind = "decide"
  /\ IF review[asked[q].run].status = "pending"
       THEN review' = [review EXCEPT ![asked[q].run] = Decision(q)]
       ELSE UNCHANGED review
  /\ Answer(q, 200, {<<asked[q].run, Decision(q)>>}, Holder(q))
  /\ UNCHANGED <<accounts, stored, asked, restarts>>

(* decideReview: UPDATE ... WHERE id = ? AND status = 'pending', and the   *)
(* row read back in the same transaction.                                  *)
Decide(q) ==
  /\ at[q] = "writing"
  /\ asked[q].kind = "decide"
  /\ IF review[asked[q].run].status = "pending"
       THEN Write(q, asked[q].run, Decision(q), 200)
       ELSE UNCHANGED review /\ Answer(q, 409, {}, Holder(q))
  /\ UNCHANGED <<accounts, stored, asked, restarts>>

(* A database call fails (503), and what the transaction did is rolled     *)
(* back.                                                                   *)
DatabaseFault(q) ==
  /\ at[q] \in {"reading", "writing"}
  /\ Answer(q, 503, {}, Holder(q))
  /\ UNCHANGED <<accounts, store, asked, restarts>>

(* The COMMIT of a submission or a decision is executed, but the handler   *)
(* does not hear of it: the call fails (503), or the process dies before   *)
(* it can answer (what else that does is Restart).                         *)
CommitUnheard(q) ==
  /\ at[q] = "writing"
  /\ LET r == asked[q].run IN
     \/ /\ asked[q].kind = "submit"
        /\ r \in stored /\ review[r] = NoReview
        /\ review' = [review EXCEPT ![r] = Submission(q)]
     \/ /\ asked[q].kind = "decide"
        /\ review[r].status = "pending"
        /\ review' = [review EXCEPT ![r] = Decision(q)]
  /\ \/ Answer(q, 503, {}, Holder(q))
     \/ at' = [at EXCEPT ![q] = "lost"] /\ UNCHANGED reply
  /\ UNCHANGED <<accounts, stored, asked, restarts>>

(* Mutant: the review goes with its run.                                   *)
DeleteReviewed(r) ==
  /\ r \in stored
  /\ stored' = stored \ {r}
  /\ review' = [review EXCEPT ![r] = NoReview]
  /\ UNCHANGED <<accounts, at, asked, reply, restarts>>

(* DELETE /api/experiments/:id needs no session; it takes the run with it, *)
(* unless the run has been submitted.                                      *)
DeleteExperiment(r) ==
  /\ r \in stored
  /\ review[r] = NoReview
  /\ stored' = stored \ {r}
  /\ UNCHANGED <<accounts, review, at, asked, reply, restarts>>
-----------------------------------------------------------------------------
Handle(q) == \/ Read(q) \/ Submit(q) \/ Decide(q)
             \/ DatabaseFault(q) \/ CommitUnheard(q)

Next == \/ \E t \in Tokens : CreateSession(t) \/ Expire(t) \/ Revoke(t)
        \/ \E q \in Requests : \/ \E question \in Question : Receive(q, question)
                               \/ Handle(q)
        \/ \E r \in Runs : DeleteExperiment(r)
        \/ Restart

Spec == Init /\ [][Next]_vars
-----------------------------------------------------------------------------
(* Of the requests that race to decide a review one wins, and the row      *)
(* holds its verdict, its feedback and its reviewer: whoever is told 200   *)
(* can rely on it (the update conditioned on 'pending').                   *)
OneWinner ==
  \A q \in Requests :
    asked[q].kind = "decide" /\ reply[q].status = 200 =>
      review[asked[q].run] = [status |-> asked[q].verdict, reviewer |-> reply[q].actor,
                              feedback |-> q,
                              researcher |-> review[asked[q].run].researcher]

(* A request that was told 409 lost to something real: the review has been *)
(* decided, or the run has a review or is gone.                            *)
ConflictsAreReal ==
  \A q \in Requests : reply[q].status = 409 =>
    /\ asked[q].kind = "decide" => review[asked[q].run].status \in Verdicts
    /\ asked[q].kind = "submit" => \/ review[asked[q].run] # NoReview
                                   \/ asked[q].run \notin stored

(* Whatever an answer showed of a review is still so, but for a decision   *)
(* on one that was pending: rows are never taken back.                     *)
AnswersStayTrue ==
  \A q \in Requests : \A shown \in reply[q].rows :
    LET now == review[shown[1]] IN
    \/ now = shown[2]
    \/ /\ shown[2].status = "pending"
       /\ now.status \in Verdicts
       /\ now.researcher = shown[2].researcher

(* A submitted run is kept, whatever deletes race with the submission.     *)
EvidenceKept == \A r \in Runs : review[r] # NoReview => r \in stored

(* A researcher is shown reviews of their own submissions only, and only   *)
(* reviewers decide, only researchers submit: through whatever session and *)
(* however the requests interleave.                                        *)
RolesKept ==
  /\ \A q \in Requests : reply[q].actor \in Researchers =>
        \A shown \in reply[q].rows : shown[2].researcher = reply[q].actor
  /\ \A r \in Runs : /\ review[r].status # "none" => review[r].researcher \in Researchers
                     /\ review[r].status \in Verdicts => review[r].reviewer \in Reviewers

(* The map of sessions never holds more than its limit, counting those     *)
(* that have expired and not been swept.                                   *)
SessionsBounded == Cardinality(Held) <= Capacity

(* Nobody is told, or leaves with the service, what is taken back later:   *)
(* conflicts were real, shown reviews stay and submitted runs are kept.    *)
NothingTakenBack == ConflictsAreReal /\ AnswersStayTrue /\ EvidenceKept

(* What the queue promises (ReviewPromise) is what it does.                *)
Promise == INSTANCE ReviewPromise

KeepsPromise == Promise!Spec
=============================================================================
