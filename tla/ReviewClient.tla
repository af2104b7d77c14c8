----------------------------- MODULE ReviewClient -----------------------------
(***************************************************************************)
(* The review workspace of one browser (client/src/ReviewWorkspace.tsx,    *)
(* with the callbacks of review-live.ts).  One foreground operation at a   *)
(* time (choosing an account, refreshing, submitting, deciding) overlaps   *)
(* with live reads, which the signals of the live connection start; React  *)
(* renders, and runs effects, some time after the state was set.  What a   *)
(* signal is and how it gets here is module ReviewLive; drafts, selection  *)
(* and filters are left out.                                               *)
(***************************************************************************)
EXTENDS Naturals

CONSTANTS Writes,       \* submissions and decisions that may be made
          MaxOps,       \* bound: how many foreground operations are begun
          MaxDrops      \* bound: how often the live connection is lost

ASSUME ClientConstants == MaxOps \in Nat /\ MaxDrops \in Nat

VARIABLES committed,  \* writes in the database
          ended,      \* sessions the coordinator has ended
          given,      \* how many sessions it has given to the page
          session,    \* the session of the page, 0 for none
          mounted,    \* the session that the live effect runs for, 0 for none
          link,       \* the live connection: "down", "up" or "stopped"
          owed,       \* whether a signal is on its way to the page
          dirty,      \* the effect's flag: a signal has not been read for
          read,       \* the latest live read
          op,         \* the foreground operation
          busy,       \* whether the page shows that an operation runs
          shown,      \* the list: whose it is, and the writes it reflects
          mustRefresh,   \* requiresRefresh: decisions are disabled
          unconfirmed,   \* history: a read of the list failed, none succeeded since
          swallowed,     \* history: such a failure was not reported
          ops, drops  \* operations begun and connections lost (bounded)

remote   == <<committed, ended, given>>
page     == <<session, shown, mustRefresh, unconfirmed, swallowed>>
live     == <<mounted, link, dirty, read>>
pageVars == <<remote, page, live, owed, op, busy, ops, drops>>
-----------------------------------------------------------------------------
Sessions == 1..MaxOps

NoRead == [at |-> "none", of |-> 0, rows |-> {}, clean |-> TRUE]

(* clean: no foreground operation has begun or ended since the read did    *)
(* (started = foreground.current).                                         *)
Reads == [at : {"none", "sent", "answered", "refused", "failed"},
          of : {0} \cup Sessions, rows : SUBSET Writes, clean : BOOLEAN]

NoOp == [kind |-> "none", of |-> 0, at |-> "none", rows |-> {}]

Ops == [kind : {"none", "create", "list", "refresh", "submit", "decide", "relist"},
        of : {0} \cup Sessions,
        at : {"none", "sent", "answered", "refused", "failed", "conflict"},
        rows : SUBSET Writes]

working == op.kind # "none"

Started(kind, s) == [kind |-> kind, of |-> s, at |-> "sent", rows |-> {}]

PageTypeOK == /\ committed \subseteq Writes
              /\ ended \subseteq Sessions
              /\ session \in {0} \cup Sessions /\ mounted \in {0} \cup Sessions
              /\ link \in {"down", "up", "stopped"}
              /\ read \in Reads /\ op \in Ops
              /\ shown \in [of : {0} \cup Sessions, rows : SUBSET Writes]
              /\ {owed, dirty, busy, mustRefresh, unconfirmed, swallowed} \subseteq BOOLEAN
              /\ given \in 0..ops /\ ops \in 0..MaxOps /\ drops \in 0..MaxDrops
              /\ working => busy

Nothing == [of |-> 0, rows |-> {}]

PageInit == /\ committed = {} /\ ended = {}
            /\ session = 0 /\ mounted = 0
            /\ link = "down" /\ owed = FALSE
            /\ dirty = FALSE /\ read = NoRead
            /\ op = NoOp /\ busy = FALSE
            /\ shown = Nothing
            /\ mustRefresh = FALSE /\ unconfirmed = FALSE /\ swallowed = FALSE
            /\ given = 0 /\ ops = 0 /\ drops = 0
-----------------------------------------------------------------------------
(* What the callbacks are made of.                                         *)

(* receiveReviews.                                                         *)
Receive(s, rows) == /\ shown' = [of |-> s, rows |-> rows]
                    /\ mustRefresh' = FALSE
                    /\ unconfirmed' = FALSE /\ swallowed' = FALSE
                    /\ UNCHANGED session

(* reportFailure of a request that was not answered, or with 5xx.          *)
ReportFailed == /\ mustRefresh' = TRUE
                /\ unconfirmed' = TRUE
                /\ UNCHANGED <<session, shown, swallowed>>

(* reportFailure of 401.                                                   *)
ReportEnded == /\ session' = 0
               /\ shown' = Nothing
               /\ UNCHANGED <<mustRefresh, unconfirmed, swallowed>>

(* Mutant: the counter of foreground operations is not compared.           *)
OverlappedUnseen == read

(* setWorking: a live read that overlaps with an operation is not clean.   *)
Overlapped == [read EXCEPT !.clean = FALSE]

NewRead == [at |-> "sent", of |-> mounted, rows |-> {}, clean |-> TRUE]

(* Mutant: a signal during a read waits for the next one.                  *)
DrainOnce(rest) == IF working \/ rest.at # "none"
                     THEN dirty' = FALSE /\ read' = rest
                     ELSE dirty' = FALSE /\ read' = NewRead

(* drain, when it is called with dirty set: nothing while an operation     *)
(* works, else a new read that replaces and aborts the one before.         *)
Drain(rest) == IF working THEN dirty' = TRUE /\ read' = rest
                          ELSE dirty' = FALSE /\ read' = NewRead

(* Mutant: the page is not told that an operation runs.                    *)
StartSilently(kind) ==
  /\ ~busy
  /\ ops < MaxOps
  /\ ops' = ops + 1
  /\ op' = Started(kind, session)
  /\ busy' = busy
  /\ read' = Overlapped

(* setWorking(true), in the handler of a click on a button that is enabled;*)
(* React renders the states set in a click before it handles another task. *)
StartWorking(kind) ==
  /\ ~busy
  /\ ops < MaxOps
  /\ ops' = ops + 1
  /\ op' = Started(kind, session)
  /\ busy' = TRUE
  /\ read' = Overlapped

(* A committed write is signalled to the page if it listens.               *)
Committed(w) == /\ committed' = committed \cup {w}
                /\ owed' = (owed \/ link = "up")
-----------------------------------------------------------------------------
(* The coordinator and the others who use it.                              *)

Peer(w) ==
  /\ w \notin committed
  /\ Committed(w)
  /\ UNCHANGED <<ended, given, page, live, op, busy, ops, drops>>

EndSession(s) ==
  /\ s \in 1..given
  /\ s \notin ended
  /\ ended' = ended \cup {s}
  /\ UNCHANGED <<committed, given, page, live, owed, op, busy, ops, drops>>
-----------------------------------------------------------------------------
(* The live connection and its reads.                                      *)

(* A render: the effect of another session is cleaned up (its reader is    *)
(* aborted, its connection closed), the effect of this one begins, and the *)
(* effect of busy drains.                                                  *)
Render ==
  /\ busy # working \/ mounted # session
  /\ busy' = working
  /\ mounted' = session
  /\ IF mounted # session
       THEN /\ link' = "down" /\ owed' = FALSE
            /\ dirty' = FALSE /\ read' = NoRead
       ELSE /\ UNCHANGED <<link, owed>>
            /\ IF dirty /\ ~working THEN Drain(read) ELSE UNCHANGED <<dirty, read>>
  /\ UNCHANGED <<remote, page, op, ops, drops>>

(* The connection is made: ready is taken for a signal.  A session that    *)
(* has ended is refused with 1008.                                         *)
Connect ==
  /\ mounted # 0 /\ link = "down"
  /\ \/ /\ mounted \notin ended
        /\ link' = "up"
        /\ Drain(read)
        /\ UNCHANGED page
     \/ /\ mounted \in ended
        /\ link' = "stopped"
        /\ ReportEnded
        /\ UNCHANGED <<dirty, read>>
  /\ UNCHANGED <<remote, mounted, owed, op, busy, ops, drops>>

Signal ==
  /\ link = "up" /\ owed
  /\ owed' = FALSE
  /\ Drain(read)
  /\ UNCHANGED <<remote, page, mounted, link, op, busy, ops, drops>>

(* The connection closes with 1008: the session has ended.                 *)
Expired ==
  /\ link = "up" /\ mounted \in ended
  /\ link' = "stopped" /\ owed' = FALSE
  /\ ReportEnded
  /\ UNCHANGED <<remote, mounted, dirty, read, op, busy, ops, drops>>

(* It closes otherwise, to be made again; a page that is offline asks for  *)
(* a refresh.                                                              *)
Drop ==
  /\ link = "up"
  /\ drops < MaxDrops
  /\ drops' = drops + 1
  /\ link' = "down" /\ owed' = FALSE
  /\ mustRefresh' \in {mustRefresh, TRUE}
  /\ UNCHANGED <<session, shown, unconfirmed, swallowed>>
  /\ UNCHANGED <<remote, mounted, dirty, read, op, busy, ops>>

(* The coordinator's answer to the live read, or none.                     *)
ReadAnswered ==
  /\ read.at = "sent"
  /\ read' = IF read.of \in ended THEN [read EXCEPT !.at = "refused"]
                                  ELSE [read EXCEPT !.at = "answered", !.rows = committed]
  /\ UNCHANGED <<remote, page, mounted, link, dirty, owed, op, busy, ops, drops>>

ReadFailed ==
  /\ read.at \in {"sent", "answered"}
  /\ read' = [read EXCEPT !.at = "failed", !.rows = {}]
  /\ unconfirmed' = TRUE
  /\ UNCHANGED <<session, shown, mustRefresh, swallowed>>
  /\ UNCHANGED <<remote, mounted, link, dirty, owed, op, busy, ops, drops>>

(* The rest of drain.  An answer that overlapped is asked for again, a     *)
(* failure that overlapped is passed over.                                 *)
ReadDone ==
  /\ \/ /\ read.at = "answered" /\ read.clean
        /\ Receive(read.of, read.rows)
        /\ read' = NoRead
        /\ UNCHANGED dirty
     \/ /\ read.at = "answered" /\ ~read.clean
        /\ Drain(NoRead)
        /\ UNCHANGED page
     \/ /\ read.at \in {"failed", "refused"} /\ read.clean
        /\ IF read.at = "failed" THEN ReportFailed ELSE ReportEnded
        /\ read' = NoRead
        /\ UNCHANGED dirty
     \/ /\ read.at = "failed" /\ ~read.clean
        /\ swallowed' = TRUE
        /\ read' = NoRead
        /\ UNCHANGED <<dirty, session, shown, mustRefresh, unconfirmed>>
     \/ /\ read.at = "refused" /\ ~read.clean
        /\ read' = NoRead
        /\ UNCHANGED <<dirty, page>>
  /\ UNCHANGED <<remote, mounted, link, owed, op, busy, ops, drops>>
-----------------------------------------------------------------------------
(* The foreground operations.                                              *)

(* The page forgets the account before, whose session it asks to be ended  *)
(* (EndSession) without looking at the outcome, and creates a new one.     *)
ChooseAccount ==
  /\ StartWorking("create")
  /\ session' = 0
  /\ shown' = Nothing
  /\ mustRefresh' = FALSE
  /\ unconfirmed' = FALSE /\ swallowed' = FALSE
  /\ UNCHANGED <<remote, mounted, link, dirty, owed, drops>>

Refresh ==
  /\ session # 0
  /\ StartWorking("refresh")
  /\ UNCHANGED <<remote, page, mounted, link, dirty, owed, drops>>

Submit ==
  /\ session # 0
  /\ StartWorking("submit")
  /\ UNCHANGED <<remote, page, mounted, link, dirty, owed, drops>>

Decide ==
  /\ session # 0 /\ ~mustRefresh
  /\ StartWorking("decide")
  /\ UNCHANGED <<remote, page, mounted, link, dirty, owed, drops>>

(* The coordinator's answer: the list, a session, the row written, or 409. *)
(* The page has been rendered with the session it was asked with by then:  *)
(* a render takes a task of the browser, an answer the network.            *)
OpAnswered ==
  /\ op.at = "sent" /\ mounted = session
  /\ \/ /\ op.kind # "create" /\ op.of \in ended
        /\ op' = [op EXCEPT !.at = "refused"]
        /\ UNCHANGED <<remote, owed>>
     \/ /\ op.kind = "create"
        /\ given' = given + 1
        /\ op' = [op EXCEPT !.at = "answered"]
        /\ UNCHANGED <<committed, ended, owed>>
     \/ /\ op.kind \in {"list", "refresh", "relist"} /\ op.of \notin ended
        /\ op' = [op EXCEPT !.at = "answered", !.rows = committed]
        /\ UNCHANGED <<remote, owed>>
     \/ /\ op.kind \in {"submit", "decide"} /\ op.of \notin ended
        /\ \/ \E w \in Writes \ committed :
                /\ Committed(w)
                /\ op' = [op EXCEPT !.at = "answered", !.rows = {w}]
           \/ /\ op' = [op EXCEPT !.at = "conflict"]
              /\ UNCHANGED <<committed, owed>>
        /\ UNCHANGED <<ended, given>>
  /\ UNCHANGED <<page, live, busy, ops, drops>>

(* No answer arrives, or 5xx; whatever was written stays written.          *)
OpFailed ==
  /\ op.at \in {"sent", "answered", "conflict"} /\ mounted = session
  /\ op' = [op EXCEPT !.at = "failed", !.rows = {}]
  /\ UNCHANGED <<remote, page, live, owed, busy, ops, drops>>

(* setWorking(false).                                                      *)
StopWorking == op' = NoOp /\ read' = Overlapped

OpDone ==
  /\ \/ /\ op.kind = "create" /\ op.at = "answered"
        /\ session' = given
        /\ op' = Started("list", given)
        /\ UNCHANGED <<read, shown, mustRefresh, unconfirmed, swallowed>>
     \/ /\ op.kind \in {"list", "refresh", "relist"} /\ op.at = "answered"
        /\ Receive(op.of, op.rows)
        /\ StopWorking
     \/ /\ op.kind \in {"submit", "decide"} /\ op.at = "answered"
        /\ shown' = [of |-> op.of, rows |-> shown.rows \cup op.rows]
        /\ UNCHANGED <<session, mustRefresh, unconfirmed, swallowed>>
        /\ StopWorking
     \/ /\ op.kind = "submit" /\ op.at = "conflict"
        /\ UNCHANGED page
        /\ StopWorking
     \/ /\ op.kind = "decide" /\ op.at = "conflict"
        /\ op' = Started("relist", op.of)
        /\ UNCHANGED <<page, read>>
     \/ /\ op.at = "failed"
        /\ ReportFailed
        /\ StopWorking
     \/ /\ op.at = "refused"
        /\ ReportEnded
        /\ StopWorking
  /\ UNCHANGED <<remote, mounted, link, dirty, owed, busy, ops, drops>>
-----------------------------------------------------------------------------
PageNext == \/ \E w \in Writes : Peer(w)
            \/ \E s \in Sessions : EndSession(s)
            \/ Render \/ Connect \/ Signal \/ Expired \/ Drop
            \/ ReadAnswered \/ ReadFailed \/ ReadDone
            \/ ChooseAccount \/ Refresh \/ Submit \/ Decide
            \/ OpAnswered \/ OpFailed \/ OpDone

PageSpec == PageInit /\ [][PageNext]_pageVars

(* Requests are answered or fail, callbacks run and the page is rendered.  *)
PageFairness == /\ WF_pageVars(Render) /\ WF_pageVars(Connect)
                /\ WF_pageVars(Signal) /\ WF_pageVars(Expired)
                /\ WF_pageVars(ReadAnswered) /\ WF_pageVars(ReadDone)
                /\ WF_pageVars(OpAnswered) /\ WF_pageVars(OpDone)

PageFairSpec == PageSpec /\ PageFairness
-----------------------------------------------------------------------------
(* The list of a page is that of its session, whichever answers arrive     *)
(* after another account was chosen.                                       *)
ListIsOwn == session # 0 => shown.of \in {0, session}

(* A live read that overlapped with an operation cannot replace the newer  *)
(* result it produced: within a session nothing that was shown is undone.  *)
NeverBack == [][session' = session /\ session # 0 => shown.rows \subseteq shown'.rows]_pageVars

(* No signal is lost between the connection, the reads, the operations and *)
(* the renders of a page that is connected: a list that is out of date is  *)
(* being read, or will be, or asks for a refresh; but for failed reads     *)
(* that overlapped with an operation (FailureDisablesDecisions).           *)
NoLostSignal ==
  /\ session # 0 /\ mounted = session /\ session \notin ended
  /\ link = "up" /\ ~mustRefresh /\ ~swallowed
  /\ shown.rows # committed
  => \/ owed \/ (dirty /\ busy)
     \/ read.at \in {"sent", "failed"}
     \/ read.at = "answered" /\ (read.rows = committed \/ ~read.clean)

(* What docs/HOW_IT_WORKS.md says of the clients: on a network failure     *)
(* decisions are disabled until a successful refresh.                      *)
FailureDisablesDecisions ==
  session # 0 /\ ~busy /\ read.at = "none" /\ unconfirmed => mustRefresh

(* A connected page comes up to date, or asks for a refresh (or has passed *)
(* over a failed read).                                                    *)
ListsConverge ==
  (link = "up" /\ shown.rows # committed) ~>
     \/ shown.rows = committed \/ link # "up"
     \/ mustRefresh \/ swallowed
=============================================================================
