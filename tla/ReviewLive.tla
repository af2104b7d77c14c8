------------------------------ MODULE ReviewLive ------------------------------
(***************************************************************************)
(* Live updates of the review lists (coordinator-dotnet: ReviewUpdates,    *)
(* ReviewLiveController, and what ReviewService tells them; the browser's  *)
(* side is client/src/review-live.ts and the live read of                  *)
(* ReviewWorkspace.tsx).  A frame only says that something changed: the    *)
(* browser then reads its list over HTTP.  Commits and their publication,  *)
(* revocations, the loop of every connection, the network and the browsers *)
(* interleave at each await.                                               *)
(***************************************************************************)
EXTENDS Naturals, Sequences, FiniteSets

CONSTANTS Researchers, Reviewers,  \* the browsers, one of each account
          Others,       \* researchers who have no browser open
          MaxWrites,    \* bound: writes to the reviews of one researcher
          MaxConns,     \* bound: connections that one browser opens
          Limit,        \* how many subscribers there may be (128)
          WireSize,     \* frames in transit before Send has to wait
          MaxRestarts   \* bound: restarts of the coordinator

ASSUME LiveConstants == /\ Researchers \cap Reviewers = {}
                        /\ Limit \in Nat \ {0}
                        /\ WireSize \in Nat \ {0}
                        /\ MaxWrites \in Nat /\ MaxConns \in Nat /\ MaxRestarts \in Nat

VARIABLES session,    \* browser -> the state of its session at the coordinator
          committed,  \* submissions and decisions that are in the database
          published,  \* those of which ReviewUpdates has been told
          conn,       \* connection -> where the coordinator's handler stands
          queue,      \* connection -> whether its channel of one holds a signal
          wire,       \* connection -> frames in transit, oldest first
          cut,        \* connections that the network has lost
          using,      \* browser -> its current connection, or NoConn
          live,       \* browser -> the live status it shows
          read,       \* browser -> its live read over HTTP
          shown,      \* browser -> the writes its list reflects
          flagged,    \* browsers that ask for a refresh before a decision
          restarts    \* how often the coordinator was restarted (bounded)

server  == <<conn, queue>>
network == <<wire, cut>>
browser == <<using, live, read, shown, flagged>>
vars    == <<session, committed, published, server, network, browser, restarts>>
-----------------------------------------------------------------------------
Browsers == Researchers \cup Reviewers

(* A write to a review is known by the researcher whose review it is.      *)
Writes == (Researchers \cup Others) \X (1..MaxWrites)

Conns == Browsers \X (1..MaxConns)

NoConn == <<>>

(* Reviewers list every review, researchers their own.                     *)
Concerns(w, k) == k \in Reviewers \/ k = w[1]

(* Mutant: only reviewers are told.                                        *)
TellsReviewers(w, k) == k \in Reviewers

(* Whose subscriptions Publish signals.                                    *)
Tells(w, k) == k \in Reviewers \/ k = w[1]

View(k) == {w \in committed : Concerns(w, k)}

NoRead == [at |-> "none", rows |-> {}]

Reads == [at : {"none", "sent", "answered", "refused"}, rows : SUBSET Writes]

Frames == {"ready", "changed", "policy", "busy"}

(* Where a handler's subscription is registered (using var subscription).  *)
Registered == {"subscribed", "waiting", "woken", "ticked", "checked", "drained"}

Subscribers == {c \in Conns : conn[c] \in Registered}

Alive == {"handshake", "authorized"} \cup Registered

Room(c) == Len(wire[c]) < WireSize
-----------------------------------------------------------------------------
TypeOK == /\ session \in [Browsers -> {"valid", "expired", "removed", "revoked", "gone"}]
          /\ committed \subseteq Writes /\ published \subseteq Writes
          /\ conn \in [Conns -> {"unused", "closed"} \cup Alive]
          /\ queue \in [Conns -> BOOLEAN]
          /\ wire \in [Conns -> Seq(Frames)]
          /\ cut \subseteq Conns
          /\ using \in [Browsers -> Conns \cup {NoConn}]
          /\ live \in [Browsers -> {"connecting", "connected", "reconnecting", "ended"}]
          /\ read \in [Browsers -> Reads]
          /\ shown \in [Browsers -> SUBSET Writes]
          /\ flagged \subseteq Browsers
          /\ restarts \in 0..MaxRestarts
          /\ \A c \in Conns : Len(wire[c]) <= WireSize
          /\ Cardinality(Subscribers) <= Limit

Init == /\ session = [k \in Browsers |-> "valid"]
        /\ committed = {} /\ published = {}
        /\ conn = [c \in Conns |-> "unused"]
        /\ queue = [c \in Conns |-> FALSE]
        /\ wire = [c \in Conns |-> <<>>]
        /\ cut = {}
        /\ using = [k \in Browsers |-> NoConn]
        /\ live = [k \in Browsers |-> "reconnecting"]
        /\ read = [k \in Browsers |-> NoRead]
        /\ shown = [k \in Browsers |-> {}]
        /\ flagged = {}
        /\ restarts = 0
-----------------------------------------------------------------------------
(* The services.                                                           *)

(* A submission or a decision commits; then the subscribers it concerns    *)
(* are told, under the lock of ReviewUpdates.                              *)
Commit(w) ==
  /\ w \notin committed
  /\ committed' = committed \cup {w}
  /\ UNCHANGED <<session, published, server, network, browser, restarts>>

Signal(which) == queue' = [c \in Conns |-> queue[c] \/ c \in which]

(* Mutant: the publication comes before the commit.                        *)
PublishEarly(w) ==
  /\ w \notin published
  /\ published' = published \cup {w}
  /\ Signal({c \in Subscribers : Tells(w, c[1])})
  /\ UNCHANGED <<session, committed, conn, network, browser, restarts>>

Publish(w) ==
  /\ w \in committed \ published
  /\ published' = published \cup {w}
  /\ Signal({c \in Subscribers : Tells(w, c[1])})
  /\ UNCHANGED <<session, committed, conn, network, browser, restarts>>

(* Revoke removes the session under one lock, and then wakes the senders   *)
(* of its connections under another.                                       *)
Revoke(k) ==
  /\ session[k] = "valid"
  /\ session' = [session EXCEPT ![k] = "removed"]
  /\ UNCHANGED <<committed, published, server, network, browser, restarts>>

SessionRevoked(k) ==
  /\ session[k] = "removed"
  /\ session' = [session EXCEPT ![k] = "revoked"]
  /\ Signal({c \in Subscribers : c[1] = k})
  /\ UNCHANGED <<committed, published, conn, network, browser, restarts>>

Expire(k) ==
  /\ session[k] = "valid"
  /\ session' = [session EXCEPT ![k] = "expired"]
  /\ UNCHANGED <<committed, published, server, network, browser, restarts>>

(* Sessions and subscriptions are in memory, the reviews are not.  A write *)
(* that was not published never will be.                                   *)
Restart ==
  /\ restarts < MaxRestarts
  /\ restarts' = restarts + 1
  /\ session' = [k \in Browsers |-> "gone"]
  /\ published' = committed
  /\ conn' = [c \in Conns |-> IF conn[c] = "unused" THEN "unused" ELSE "closed"]
  /\ queue' = [c \in Conns |-> FALSE]
  /\ cut' = {c \in Conns : conn[c] # "unused"}
  /\ wire' = [c \in Conns |-> <<>>]
  /\ UNCHANGED <<committed, browser>>
-----------------------------------------------------------------------------
(* The handler of a connection.                                            *)

Moves(c, from, to) == conn[c] = from /\ conn' = [conn EXCEPT ![c] = to]

(* Sending waits until there is room, and is heard while the network is up.*)
Send(c, frame) == /\ Room(c)
                  /\ wire' = IF c \in cut THEN wire
                             ELSE [wire EXCEPT ![c] = Append(@, frame)]

(* The handler ends: the subscription is disposed, then a close frame is   *)
(* sent; 1008 ends the browser's session, 1013 does not.                   *)
End(c, from, frame) ==
  /\ Moves(c, from, "closed")
  /\ queue' = [queue EXCEPT ![c] = FALSE]
  /\ Send(c, frame)

Valid(k) == session[k] = "valid"

(* ActorFor removes an expired session from the map.                       *)
LookUp(k) == session' = [session EXCEPT ![k] = IF @ = "expired" THEN "gone" ELSE @]

(* The first frame carries the token.                                      *)
Authorize(c) ==
  /\ LookUp(c[1])
  /\ \/ Valid(c[1]) /\ Moves(c, "handshake", "authorized") /\ UNCHANGED <<queue, wire>>
     \/ ~Valid(c[1]) /\ End(c, "handshake", "policy")
  /\ UNCHANGED <<committed, published, cut, browser, restarts>>

(* Mutant: the limit is not looked at.                                     *)
SubscribeAnyway(c) ==
  /\ Moves(c, "authorized", "subscribed")
  /\ UNCHANGED <<queue, wire, session, committed, published, cut, browser, restarts>>

Subscribe(c) ==
  /\ \/ /\ Cardinality(Subscribers) < Limit
        /\ Moves(c, "authorized", "subscribed")
        /\ UNCHANGED <<queue, wire>>
     \/ /\ Cardinality(Subscribers) >= Limit
        /\ End(c, "authorized", "busy")
  /\ UNCHANGED <<session, committed, published, cut, browser, restarts>>

SendReady(c) ==
  /\ Moves(c, "subscribed", "waiting")
  /\ Send(c, "ready")
  /\ UNCHANGED <<session, committed, published, queue, cut, browser, restarts>>

(* WhenAny: the channel has a signal or the heartbeat is due, the signal   *)
(* first if both are.                                                      *)
Wake(c) ==
  /\ Moves(c, "waiting", IF queue[c] THEN "woken" ELSE "ticked")
  /\ UNCHANGED <<session, committed, published, queue, network, browser, restarts>>

(* Mutant: the handler does not look the session up again.                 *)
Unchecked(c) ==
  /\ Moves(c, "woken", "checked") \/ Moves(c, "ticked", "waiting")
  /\ UNCHANGED <<session, committed, published, queue, network, browser, restarts>>

(* The session is looked up again before every frame; a heartbeat (which   *)
(* tells the browser nothing) then goes straight back to waiting.          *)
Check(c) ==
  /\ conn[c] \in {"woken", "ticked"}
  /\ LookUp(c[1])
  /\ \/ /\ Valid(c[1])
        /\ Moves(c, conn[c], IF conn[c] = "woken" THEN "checked" ELSE "waiting")
        /\ UNCHANGED <<queue, wire>>
     \/ ~Valid(c[1]) /\ End(c, conn[c], "policy")
  /\ UNCHANGED <<committed, published, cut, browser, restarts>>

Drain(c) ==
  /\ Moves(c, "checked", "drained")
  /\ queue' = [queue EXCEPT ![c] = FALSE]
  /\ UNCHANGED <<session, committed, published, network, browser, restarts>>

SendChanged(c) ==
  /\ Moves(c, "drained", "waiting")
  /\ Send(c, "changed")
  /\ UNCHANGED <<session, committed, published, queue, cut, browser, restarts>>

(* The network loses a connection; each end finds out in its own time.     *)
Lose(c) ==
  /\ c \notin cut
  /\ conn[c] # "unused"
  /\ cut' = cut \cup {c}
  /\ wire' = [wire EXCEPT ![c] = <<>>]
  /\ UNCHANGED <<session, committed, published, server, browser, restarts>>

Notice(c) ==
  /\ c \in cut
  /\ conn[c] \in Alive
  /\ conn' = [conn EXCEPT ![c] = "closed"]
  /\ queue' = [queue EXCEPT ![c] = FALSE]
  /\ UNCHANGED <<session, committed, published, network, browser, restarts>>

Handle(c) == \/ Authorize(c) \/ Subscribe(c) \/ SendReady(c) \/ Wake(c)
             \/ Check(c) \/ Drain(c) \/ SendChanged(c)
-----------------------------------------------------------------------------
(* The browsers.                                                           *)

Open(k) ==
  /\ live[k] = "reconnecting"
  /\ \E n \in 1..MaxConns :
       /\ conn[<<k, n>>] = "unused"
       /\ \A i \in 1..(n - 1) : conn[<<k, i>>] # "unused"
       /\ conn' = [conn EXCEPT ![<<k, n>>] = "handshake"]
       /\ using' = [using EXCEPT ![k] = <<k, n>>]
  /\ live' = [live EXCEPT ![k] = "connecting"]
  /\ UNCHANGED <<session, committed, published, queue, network, read, shown, flagged, restarts>>

(* A signal replaces the read before it, whose answer will be ignored.     *)
ReadAgain(k) == read' = [read EXCEPT ![k] = [at |-> "sent", rows |-> {}]]

(* 401 and 1008 both end the session in the browser, clear its list and    *)
(* close its connection (which the handler will notice).                   *)
SignOut(k) == /\ live' = [live EXCEPT ![k] = "ended"]
              /\ cut' = cut \cup ({using[k]} \ {NoConn})
              /\ wire' = [c \in Conns |-> IF c = using[k] THEN <<>> ELSE wire[c]]
              /\ using' = [using EXCEPT ![k] = NoConn]
              /\ read' = [read EXCEPT ![k] = NoRead]
              /\ shown' = [shown EXCEPT ![k] = {}]
              /\ flagged' = flagged \ {k}

(* Mutant: any close ends the session in the browser.                      *)
DisconnectForGood(k) == SignOut(k)

(* Any other close: the browser will connect again.                        *)
Disconnect(k) == /\ live' = [live EXCEPT ![k] = "reconnecting"]
                 /\ using' = [using EXCEPT ![k] = NoConn]
                 /\ cut' = cut \cup {using[k]}
                 /\ wire' = [wire EXCEPT ![using[k]] = <<>>]
                 /\ UNCHANGED <<read, shown, flagged>>

(* onmessage and onclose of the current connection.                        *)
Deliver(k) ==
  LET c == using[k] IN
  /\ c # NoConn
  /\ wire[c] # <<>>
  /\ \/ /\ Head(wire[c]) \in {"ready", "changed"}
        /\ wire' = [wire EXCEPT ![c] = Tail(@)]
        /\ live' = [live EXCEPT ![k] = IF Head(wire[c]) = "ready" THEN "connected" ELSE @]
        /\ ReadAgain(k)
        /\ UNCHANGED <<using, cut, shown, flagged>>
     \/ Head(wire[c]) = "policy" /\ SignOut(k)
     \/ Head(wire[c]) = "busy" /\ Disconnect(k)
  /\ UNCHANGED <<session, committed, published, server, restarts>>

(* The connection is found closed, or has been silent for too long.        *)
Lost(k) ==
  /\ using[k] \in cut
  /\ Disconnect(k)
  /\ UNCHANGED <<session, committed, published, server, restarts>>

(* The coordinator answers the read with what is committed now.            *)
Serve(k) ==
  /\ read[k].at = "sent"
  /\ LookUp(k)
  /\ read' = [read EXCEPT ![k] =
                IF Valid(k) THEN [at |-> "answered", rows |-> View(k)]
                            ELSE [at |-> "refused", rows |-> {}]]
  /\ UNCHANGED <<committed, published, server, network, using, live, shown, flagged, restarts>>

Apply(k) ==
  /\ \/ /\ read[k].at = "answered"
        /\ shown' = [shown EXCEPT ![k] = read[k].rows]
        /\ flagged' = flagged \ {k}
        /\ read' = [read EXCEPT ![k] = NoRead]
        /\ UNCHANGED <<network, using, live>>
     \/ read[k].at = "refused" /\ SignOut(k)
  /\ UNCHANGED <<session, committed, published, server, restarts>>

(* A read that fails in the network flags the list, and so do 5xx answers. *)
FailRead(k) ==
  /\ read[k].at # "none"
  /\ read' = [read EXCEPT ![k] = NoRead]
  /\ flagged' = flagged \cup {k}
  /\ UNCHANGED <<session, committed, published, server, network, using, live, shown, restarts>>

(* The user asks for the list.  How such an operation overlaps with the    *)
(* live reads of the same page is module ReviewClient.                     *)
Refresh(k) ==
  /\ live[k] # "ended"
  /\ k \in flagged
  /\ read[k].at = "none"
  /\ ReadAgain(k)
  /\ UNCHANGED <<session, committed, published, server, network, using, live, shown, flagged,
                 restarts>>
-----------------------------------------------------------------------------
Browse(k) == Open(k) \/ Deliver(k) \/ Lost(k) \/ Serve(k) \/ Apply(k)

Next == \/ \E w \in Writes : Commit(w) \/ Publish(w)
        \/ \E k \in Browsers : \/ Revoke(k) \/ SessionRevoked(k) \/ Expire(k)
                               \/ Browse(k) \/ FailRead(k) \/ Refresh(k)
        \/ \E c \in Conns : Handle(c) \/ Lose(c) \/ Notice(c)
        \/ Restart

Spec == Init /\ [][Next]_vars

(* Handlers and calls that are under way make progress, and a connection's *)
(* heartbeat comes due.  Writes, losses and users are under no obligation. *)
Fairness == /\ \A w \in Writes : WF_vars(Publish(w))
            /\ \A k \in Browsers : /\ WF_vars(Open(k)) /\ WF_vars(Deliver(k)) /\ WF_vars(Lost(k))
                                   /\ WF_vars(Serve(k)) /\ WF_vars(Apply(k))
                                   /\ WF_vars(SessionRevoked(k))
            /\ \A c \in Conns : WF_vars(Handle(c)) /\ WF_vars(Notice(c))

FairSpec == Spec /\ Fairness
-----------------------------------------------------------------------------
(* A signal for the browser is somewhere between the writer and its read.  *)
Underway(k) ==
  \/ \E w \in committed \ published : Concerns(w, k)
  \/ queue[using[k]] \/ conn[using[k]] = "drained"
  \/ \E i \in 1..Len(wire[using[k]]) : wire[using[k]][i] \in {"ready", "changed"}
  \/ read[k].at = "sent"
  \/ read[k].at = "answered" /\ read[k].rows = View(k)

(* No invalidation is lost: a browser that shows "connected" and a list    *)
(* that is out of date has a signal under way to it, or has asked its user *)
(* to refresh, or its session or its connection has ended.                 *)
NoLostInvalidation ==
  \A k \in Browsers :
    /\ live[k] = "connected"
    /\ Valid(k)
    /\ using[k] \notin cut
    /\ k \notin flagged
    /\ shown[k] # View(k)
    => Underway(k)

(* A browser signs its user out only if the session has really ended, not  *)
(* for a full coordinator or a lost connection (1008 against 1013, 1006).  *)
SignedOutRightly ==
  \A k \in Browsers : live[k] = "ended" => session[k] \in {"removed", "revoked", "gone"}

(* A connection whose session was revoked or has expired is closed, by the *)
(* next heartbeat if nothing else.                                         *)
EndedSessionsClose ==
  \A c \in Conns : ~Valid(c[1]) /\ conn[c] \in Registered ~> conn[c] = "closed"

(* A list that is out of date comes up to date, or the browser says that   *)
(* it is not connected, asks for a refresh, or has signed its user out.    *)
ListsConverge ==
  \A k \in Browsers :
    shown[k] # View(k) ~> \/ shown[k] = View(k)
                          \/ live[k] # "connected"
                          \/ k \in flagged
=============================================================================
