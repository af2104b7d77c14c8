--------------------------- MODULE ReviewLiveProofs ---------------------------
(***************************************************************************)
(* Proofs about ReviewLive, for any browsers, writes and connections and   *)
(* any limits of subscribers and frames in transit: its type invariant     *)
(* with the limit of subscribers, that no invalidation is lost between a   *)
(* commit and the browsers it concerns, and that a browser is signed out   *)
(* only if its session has ended.                                          *)
(***************************************************************************)
EXTENDS ReviewLive, FiniteSetTheorems, TLAPS
-----------------------------------------------------------------------------
(* Sessions that have ended for the browser too: none of them comes back.  *)
EndedFor(k) == session[k] \in {"removed", "revoked", "gone"}

(* A frame in transit.                                                     *)
Carries(c, frame) == \E i \in 1..Len(wire[c]) : wire[c][i] = frame

(* A browser uses connections of its own, and one while it is connected.   *)
UsingOwn == \A k \in Browsers : /\ using[k] # NoConn => using[k][1] = k
                                /\ live[k] = "connected" => using[k] # NoConn

(* Only a session that has ended is told so, on either way.                *)
PolicyEnded  == \A c \in Conns : Carries(c, "policy") => EndedFor(c[1])
RefusedEnded == \A k \in Browsers : read[k].at = "refused" => EndedFor(k)

(* A lost connection delivers nothing.                                     *)
CutSilent == \A c \in cut : wire[c] = <<>>

PublishedCommitted == published \subseteq committed

(* Where a handler stands that has sent "ready" and still is subscribed.   *)
Telling == {"waiting", "woken", "ticked", "checked", "drained"}

(* Whoever was or will be told something is subscribed to what follows.    *)
ToldSubscribed ==
  \A c \in Conns : (Carries(c, "ready") \/ Carries(c, "changed")) /\ Valid(c[1])
                   => conn[c] \in Telling

Connected(k) == live[k] = "connected" /\ Valid(k) /\ using[k] \notin cut

ConnectedSubscribed == \A k \in Browsers : Connected(k) => conn[using[k]] \in Telling

(* A signal for the browser that it has not read for.                      *)
Signalled(k) == \/ \E w \in committed \ published : Concerns(w, k)
                \/ queue[using[k]] \/ conn[using[k]] = "drained"
                \/ Carries(using[k], "ready") \/ Carries(using[k], "changed")

(* An answer that is out of date when it is applied has been signalled.    *)
StaleAnswerSignalled ==
  \A k \in Browsers : Connected(k) /\ read[k].at = "answered" /\ read[k].rows # View(k)
                      => Signalled(k)
-----------------------------------------------------------------------------
(* Types.                                                                  *)

(* Nobody registers without a place: the subscribers are finitely many,    *)
(* however many connections there are.                                     *)
SubscribersBounded == IsFiniteSet(Subscribers) /\ Cardinality(Subscribers) <= Limit

WireOK == /\ wire \in [Conns -> Seq(Frames)]
          /\ \A c \in Conns : Len(wire[c]) <= WireSize

(* TypeOK without the limit, by who keeps what.                            *)
ServerTypes == /\ session \in [Browsers -> {"valid", "expired", "removed", "revoked", "gone"}]
               /\ committed \subseteq Writes /\ published \subseteq Writes
               /\ conn \in [Conns -> {"unused", "closed"} \cup Alive]
               /\ queue \in [Conns -> BOOLEAN]
               /\ restarts \in 0..MaxRestarts

NetworkTypes == WireOK /\ cut \subseteq Conns

BrowserTypes ==
  /\ using \in [Browsers -> Conns \cup {NoConn}]
  /\ live \in [Browsers -> {"connecting", "connected", "reconnecting", "ended"}]
  /\ read \in [Browsers -> Reads]
  /\ shown \in [Browsers -> SUBSET Writes]
  /\ flagged \subseteq Browsers

Typed == ServerTypes /\ NetworkTypes /\ BrowserTypes

LEMMA ConnTypes ==
  /\ NoConn \notin Conns
  /\ \A c \in Conns : c[1] \in Browsers /\ c = <<c[1], c[2]>>
  /\ \A k \in Browsers, n \in 1..MaxConns : <<k, n>> \in Conns /\ <<k, n>>[1] = k
BY DEF NoConn, Conns

LEMMA EmptyWire == <<>> \in Seq(Frames) /\ Len(<<>>) = 0 /\ Len(<<>>) <= WireSize
BY LiveConstants

LEMMA SendTypes ==
  ASSUME Typed, NEW c \in Conns, NEW frame \in Frames, Send(c, frame)
  PROVE  WireOK'
<1> USE LiveConstants DEF WireOK
<1>1. CASE c \in cut
  BY <1>1 DEF Send, Typed, NetworkTypes
<1>2. CASE c \notin cut
  <2>1. wire' = [wire EXCEPT ![c] = Append(wire[c], frame)] /\ Len(wire[c]) < WireSize
    BY <1>2 DEF Send, Room
  <2>2. /\ Append(wire[c], frame) \in Seq(Frames)
        /\ Len(Append(wire[c], frame)) = Len(wire[c]) + 1
    BY DEF Typed, NetworkTypes
  <2>3. Len(wire[c]) \in Nat
    BY DEF Typed, NetworkTypes
  <2>4. Len(wire[c]) + 1 <= WireSize
    BY <2>1, <2>3
  <2> QED
    BY <2>1, <2>2, <2>4 DEF Typed, NetworkTypes
<1> QED
  BY <1>1, <1>2

LEMMA ViewType ==
  ASSUME Typed, NEW k PROVE View(k) \subseteq Writes
BY DEF Typed, ServerTypes, View

LEMMA LeaveTypes ==
  ASSUME Typed, NEW k \in Browsers,
         SignOut(k) \/ (Disconnect(k) /\ using[k] # NoConn)
  PROVE  NetworkTypes' /\ BrowserTypes'
<1> USE EmptyWire DEF Typed, NetworkTypes, BrowserTypes, WireOK
<1>0. using[k] \in Conns \cup {NoConn} /\ NoRead \in Reads
  BY DEF NoRead, Reads
<1>1. CASE SignOut(k)
  BY <1>0, <1>1 DEF SignOut
<1>2. CASE Disconnect(k) /\ using[k] # NoConn
  BY <1>0, <1>2 DEF Disconnect
<1> QED
  BY <1>1, <1>2

LEMMA ReadTypes ==
  ASSUME Typed, NEW k \in Browsers, NEW r \in Reads, read' = [read EXCEPT ![k] = r]
  PROVE  read' \in [Browsers -> Reads]
BY DEF Typed, BrowserTypes

LEMMA MoveTypes ==
  ASSUME Typed, NEW c \in Conns, NEW from, NEW to \in {"closed"} \cup Alive, Moves(c, from, to)
  PROVE  conn' \in [Conns -> {"unused", "closed"} \cup Alive]
BY DEF Typed, ServerTypes, Moves

LEMMA EndTypes ==
  ASSUME Typed, NEW c \in Conns, NEW from, NEW frame \in Frames, End(c, from, frame)
  PROVE  /\ conn' \in [Conns -> {"unused", "closed"} \cup Alive]
         /\ queue' \in [Conns -> BOOLEAN]
         /\ WireOK'
<1>1. Moves(c, from, "closed") /\ Send(c, frame) /\ queue' = [queue EXCEPT ![c] = FALSE]
  BY DEF End
<1>2. WireOK'
  BY <1>1, SendTypes
<1>3. conn' \in [Conns -> {"unused", "closed"} \cup Alive]
  BY <1>1, MoveTypes
<1> QED
  BY <1>1, <1>2, <1>3 DEF Typed, ServerTypes

LEMMA LookUpTypes ==
  ASSUME Typed, NEW k \in Browsers, LookUp(k)
  PROVE  session' \in [Browsers -> {"valid", "expired", "removed", "revoked", "gone"}]
BY DEF Typed, ServerTypes, LookUp

LEMMA SignalTypes ==
  ASSUME Typed, NEW which, Signal(which)
  PROVE  queue' \in [Conns -> BOOLEAN]
BY DEF Typed, ServerTypes, Signal

LEMMA LiveInitType == Init => Typed /\ SubscribersBounded
<1> SUFFICES ASSUME Init PROVE Typed /\ SubscribersBounded
  OBVIOUS
<1>1. Subscribers = {}
  BY DEF Init, Subscribers, Registered
<1>2. NoRead \in Reads
  BY DEF NoRead, Reads
<1> QED
  BY <1>1, <1>2, EmptyWire, LiveConstants, FS_EmptySet
     DEF Init, Typed, ServerTypes, NetworkTypes, BrowserTypes, WireOK, SubscribersBounded,
         Alive

(* The steps of the services, the network and the handlers.                *)
LEMMA ServicesTyped ==
  ASSUME Typed,
         \/ \E w \in Writes : Commit(w) \/ Publish(w)
         \/ \E k \in Browsers : Revoke(k) \/ SessionRevoked(k) \/ Expire(k)
         \/ \E c \in Conns : Handle(c) \/ Lose(c) \/ Notice(c)
         \/ Restart
  PROVE  Typed'
<1> USE LiveConstants DEF server, network, browser
<1>0. /\ session \in [Browsers -> {"valid", "expired", "removed", "revoked", "gone"}]
      /\ conn \in [Conns -> {"unused", "closed"} \cup Alive]
      /\ queue \in [Conns -> BOOLEAN]
      /\ WireOK
  BY DEF Typed, ServerTypes, NetworkTypes
<1>1. ASSUME NEW w \in Writes, Commit(w) \/ Publish(w) PROVE Typed'
  <2>1. queue' \in [Conns -> BOOLEAN]
    BY <1>0, <1>1, SignalTypes DEF Commit, Publish
  <2> QED
    BY <1>1, <2>1 DEF Commit, Publish, Typed, ServerTypes, NetworkTypes, BrowserTypes, WireOK
<1>2. ASSUME NEW k \in Browsers, Revoke(k) \/ SessionRevoked(k) \/ Expire(k) PROVE Typed'
  <2>1. queue' \in [Conns -> BOOLEAN]
    BY <1>0, <1>2, SignalTypes DEF Revoke, SessionRevoked, Expire
  <2>2. session' \in [Browsers -> {"valid", "expired", "removed", "revoked", "gone"}]
    BY <1>0, <1>2 DEF Revoke, SessionRevoked, Expire
  <2> QED
    BY <1>2, <2>1, <2>2 DEF Revoke, SessionRevoked, Expire, Typed, ServerTypes, NetworkTypes,
                            BrowserTypes, WireOK
<1>3. CASE Restart
  BY <1>3, EmptyWire
     DEF Restart, Typed, ServerTypes, NetworkTypes, BrowserTypes, WireOK, Alive
<1>4. ASSUME NEW c \in Conns, Handle(c)
      PROVE  /\ session' \in [Browsers -> {"valid", "expired", "removed", "revoked", "gone"}]
             /\ conn' \in [Conns -> {"unused", "closed"} \cup Alive]
             /\ queue' \in [Conns -> BOOLEAN]
             /\ WireOK'
  <2> USE <1>0
  <2>0. {"policy", "busy", "ready", "changed"} \subseteq Frames /\ c[1] \in Browsers
        /\ Registered \cup {"authorized"} \subseteq Alive
    BY ConnTypes DEF Frames, Alive
  <2>1. CASE Authorize(c)
    <3>1. session' \in [Browsers -> {"valid", "expired", "removed", "revoked", "gone"}]
      BY <2>0, <2>1, LookUpTypes DEF Authorize
    <3>2. CASE Moves(c, "handshake", "authorized") /\ UNCHANGED <<queue, wire>>
      BY <2>0, <3>1, <3>2, MoveTypes DEF WireOK
    <3>3. CASE End(c, "handshake", "policy")
      BY <2>0, <3>1, <3>3, EndTypes
    <3> QED
      BY <2>1, <3>2, <3>3 DEF Authorize
  <2>2. CASE Subscribe(c)
    <3>1. CASE Moves(c, "authorized", "subscribed") /\ UNCHANGED <<queue, wire, session>>
      BY <2>0, <3>1, MoveTypes DEF WireOK, Registered
    <3>2. CASE End(c, "authorized", "busy") /\ UNCHANGED session
      BY <2>0, <3>2, EndTypes
    <3> QED
      BY <2>2, <3>1, <3>2 DEF Subscribe
  <2>3. CASE SendReady(c)
    BY <2>0, <2>3, MoveTypes, SendTypes DEF SendReady, Registered
  <2>4. CASE Wake(c)
    <3>1. Moves(c, "waiting", "woken") \/ Moves(c, "waiting", "ticked")
      BY <2>4 DEF Wake
    <3>2. conn' \in [Conns -> {"unused", "closed"} \cup Alive]
      BY <2>0, <3>1, MoveTypes DEF Registered
    <3> QED
      BY <2>4, <3>2 DEF Wake, WireOK
  <2>5. CASE Check(c)
    <3>1. session' \in [Browsers -> {"valid", "expired", "removed", "revoked", "gone"}]
      BY <2>0, <2>5, LookUpTypes DEF Check
    <3>2. CASE /\ Moves(c, conn[c], IF conn[c] = "woken" THEN "checked" ELSE "waiting")
               /\ UNCHANGED <<queue, wire>>
      BY <2>0, <3>1, <3>2, MoveTypes DEF WireOK, Registered
    <3>3. CASE End(c, conn[c], "policy")
      BY <2>0, <3>1, <3>3, EndTypes
    <3> QED
      BY <2>5, <3>2, <3>3 DEF Check
  <2>6. CASE Drain(c)
    BY <2>0, <2>6, MoveTypes DEF Drain, WireOK, Registered
  <2>7. CASE SendChanged(c)
    BY <2>0, <2>7, MoveTypes, SendTypes DEF SendChanged, Registered
  <2> QED
    BY <1>4, <2>1, <2>2, <2>3, <2>4, <2>5, <2>6, <2>7 DEF Handle
<1>5. ASSUME NEW c \in Conns, Handle(c) PROVE Typed'
  <2>1. UNCHANGED <<committed, published, cut, browser, restarts>>
    BY <1>5 DEF Handle, Authorize, Subscribe, SendReady, Wake, Check, Drain, SendChanged
  <2> QED
    BY <1>4, <1>5, <2>1 DEF Typed, ServerTypes, NetworkTypes, BrowserTypes
<1>6. ASSUME NEW c \in Conns, Lose(c) PROVE Typed'
  BY <1>6, EmptyWire DEF Lose, Typed, ServerTypes, NetworkTypes, BrowserTypes, WireOK
<1>7. ASSUME NEW c \in Conns, Notice(c) PROVE Typed'
  BY <1>7 DEF Notice, Typed, ServerTypes, NetworkTypes, BrowserTypes, WireOK
<1> QED
  BY <1>1, <1>2, <1>3, <1>5, <1>6, <1>7

(* The steps of the browsers.                                              *)
LEMMA BrowsersTyped ==
  ASSUME Typed, NEW k \in Browsers, Browse(k) \/ FailRead(k) \/ Refresh(k)
  PROVE  Typed'
<1> USE DEF server, network, browser
<1>0. /\ NoRead \in Reads
      /\ [at |-> "sent", rows |-> {}] \in Reads /\ [at |-> "refused", rows |-> {}] \in Reads
      /\ [at |-> "answered", rows |-> View(k)] \in Reads
  BY ViewType DEF NoRead, Reads
<1>1. CASE Open(k)
  BY <1>1, ConnTypes
     DEF Open, Typed, ServerTypes, NetworkTypes, BrowserTypes, WireOK, Alive
<1>2. CASE Deliver(k)
  <2>1. ASSUME NEW c \in Conns, wire[c] # <<>>, wire' = [wire EXCEPT ![c] = Tail(@)]
        PROVE  WireOK'
    <3>1. wire[c] \in Seq(Frames) /\ Len(wire[c]) \in Nat /\ Len(wire[c]) <= WireSize
      BY DEF Typed, NetworkTypes, WireOK
    <3>2. Tail(wire[c]) \in Seq(Frames) /\ Len(Tail(wire[c])) = Len(wire[c]) - 1
      BY <2>1, <3>1
    <3>3. Len(Tail(wire[c])) <= WireSize
      BY <3>1, <3>2, LiveConstants
    <3> QED
      BY <2>1, <3>2, <3>3 DEF Typed, NetworkTypes, WireOK
  <2>2. using[k] # NoConn /\ using[k] \in Conns /\ wire[using[k]] # <<>>
    BY <1>2 DEF Deliver, Typed, BrowserTypes
  <2>3. CASE /\ wire' = [wire EXCEPT ![using[k]] = Tail(@)]
             /\ live' = [live EXCEPT ![k] =
                            IF Head(wire[using[k]]) = "ready" THEN "connected" ELSE @]
             /\ ReadAgain(k)
             /\ UNCHANGED <<using, cut, shown, flagged>>
    <3>1. read' \in [Browsers -> Reads]
      BY <1>0, <2>3, ReadTypes DEF ReadAgain
    <3> QED
      BY <1>2, <2>1, <2>2, <2>3, <3>1
         DEF Deliver, Typed, ServerTypes, NetworkTypes, BrowserTypes
  <2>4. CASE SignOut(k) \/ Disconnect(k)
    BY <1>2, <2>2, <2>4, LeaveTypes DEF Deliver, Typed, ServerTypes
  <2> QED
    BY <1>2, <2>3, <2>4 DEF Deliver
<1>3. CASE Lost(k)
  <2>1. using[k] # NoConn
    BY <1>3, ConnTypes DEF Lost, Typed, NetworkTypes
  <2> QED
    BY <1>3, <2>1, LeaveTypes DEF Lost, Typed, ServerTypes
<1>4. CASE Serve(k)
  <2>1. session' \in [Browsers -> {"valid", "expired", "removed", "revoked", "gone"}]
    BY <1>4, LookUpTypes DEF Serve
  <2>2. read' \in [Browsers -> Reads]
    BY <1>0, <1>4, ReadTypes DEF Serve
  <2> QED
    BY <1>4, <2>1, <2>2 DEF Serve, Typed, ServerTypes, NetworkTypes, BrowserTypes, WireOK
<1>5. CASE Apply(k)
  <2>1. CASE SignOut(k)
    BY <1>5, <2>1, LeaveTypes DEF Apply, Typed, ServerTypes
  <2>2. CASE /\ shown' = [shown EXCEPT ![k] = read[k].rows]
             /\ flagged' = flagged \ {k}
             /\ read' = [read EXCEPT ![k] = NoRead]
             /\ UNCHANGED <<network, using, live>>
    <3>1. read' \in [Browsers -> Reads]
      BY <1>0, <2>2, ReadTypes
    <3>2. read[k].rows \subseteq Writes
      BY DEF Typed, BrowserTypes, Reads
    <3> QED
      BY <1>5, <2>2, <3>1, <3>2
         DEF Apply, Typed, ServerTypes, NetworkTypes, BrowserTypes, WireOK
  <2> QED
    BY <1>5, <2>1, <2>2 DEF Apply
<1>6. CASE FailRead(k) \/ Refresh(k)
  <2>1. read' \in [Browsers -> Reads]
    BY <1>0, <1>6, ReadTypes DEF FailRead, Refresh, ReadAgain
  <2> QED
    BY <1>6, <2>1
       DEF FailRead, Refresh, Typed, ServerTypes, NetworkTypes, BrowserTypes, WireOK
<1> QED
  BY <1>1, <1>2, <1>3, <1>4, <1>5, <1>6 DEF Browse

LEMMA LiveNextTyped == Typed /\ [Next]_vars => Typed'
<1>1. Typed /\ UNCHANGED vars => Typed'
  BY DEF vars, server, network, browser, Typed, ServerTypes, NetworkTypes, BrowserTypes, WireOK
<1> QED
  BY <1>1, ServicesTyped, BrowsersTyped DEF Next
-----------------------------------------------------------------------------
(* The limit.                                                              *)

LEMMA FewerSubscribers ==
  ASSUME SubscribersBounded, Subscribers' \subseteq Subscribers
  PROVE  SubscribersBounded'
<1>1. /\ IsFiniteSet(Subscribers')
      /\ Cardinality(Subscribers') <= Cardinality(Subscribers)
  BY FS_Subset DEF SubscribersBounded
<1>2. Cardinality(Subscribers) \in Nat /\ Cardinality(Subscribers') \in Nat
  BY <1>1, FS_CardinalityType DEF SubscribersBounded
<1>3. Cardinality(Subscribers') <= Limit
  BY <1>1, <1>2, LiveConstants DEF SubscribersBounded
<1> QED
  BY <1>1, <1>3 DEF SubscribersBounded

LEMMA SubscribeBounded ==
  ASSUME Typed, SubscribersBounded, NEW c \in Conns, Subscribe(c)
  PROVE  SubscribersBounded'
<1>1. CASE Cardinality(Subscribers) < Limit /\ Moves(c, "authorized", "subscribed")
  <2>1. Subscribers' = Subscribers \cup {c} /\ c \notin Subscribers
    BY <1>1 DEF Typed, ServerTypes, Subscribers, Moves, Registered
  <2>2. /\ IsFiniteSet(Subscribers \cup {c})
        /\ Cardinality(Subscribers \cup {c}) = Cardinality(Subscribers) + 1
    BY <2>1, FS_AddElement DEF SubscribersBounded
  <2>3. Cardinality(Subscribers) \in Nat
    BY FS_CardinalityType DEF SubscribersBounded
  <2>4. IsFiniteSet(Subscribers') /\ Cardinality(Subscribers') <= Limit
    BY <1>1, <2>1, <2>2, <2>3, LiveConstants
  <2> QED
    BY <2>4 DEF SubscribersBounded
<1>2. CASE End(c, "authorized", "busy")
  <2>1. Subscribers' \subseteq Subscribers
    BY <1>2 DEF Typed, ServerTypes, Subscribers, End, Moves, Registered
  <2> QED
    BY <2>1, FewerSubscribers
<1> QED
  BY <1>1, <1>2 DEF Subscribe

LEMMA LiveNextBounded ==
  Typed /\ SubscribersBounded /\ [Next]_vars => SubscribersBounded'
<1> SUFFICES ASSUME Typed, SubscribersBounded, [Next]_vars PROVE SubscribersBounded'
  OBVIOUS
<1>0. conn \in [Conns -> {"unused", "closed"} \cup Alive]
  BY DEF Typed, ServerTypes
<1>1. ASSUME NEW c \in Conns, Handle(c), ~Subscribe(c) PROVE Subscribers' \subseteq Subscribers
  BY <1>0, <1>1
     DEF Handle, Authorize, SendReady, Wake, Check, Drain, SendChanged, End, Moves, Subscribers,
         Registered
<1>2. ASSUME NEW c \in Conns, Lose(c) \/ Notice(c) PROVE Subscribers' \subseteq Subscribers
  BY <1>0, <1>2 DEF Lose, Notice, server, Subscribers, Registered
<1>3. CASE Restart
  BY <1>0, <1>3, FewerSubscribers DEF Restart, Subscribers, Registered
<1>4. ASSUME NEW k \in Browsers, Browse(k) \/ FailRead(k) \/ Refresh(k)
      PROVE  Subscribers' \subseteq Subscribers
  <2>1. CASE Open(k)
    BY <1>0, <2>1, ConnTypes DEF Open, Subscribers, Registered
  <2>2. CASE Deliver(k) \/ Lost(k) \/ Serve(k) \/ Apply(k) \/ FailRead(k) \/ Refresh(k)
    BY <2>2 DEF Deliver, Lost, Serve, Apply, FailRead, Refresh, server, Subscribers
  <2> QED
    BY <1>4, <2>1, <2>2 DEF Browse
<1>5. CASE \/ \E w \in Writes : Commit(w) \/ Publish(w)
           \/ \E k \in Browsers : Revoke(k) \/ SessionRevoked(k) \/ Expire(k)
           \/ UNCHANGED vars
  <2>1. UNCHANGED conn
    BY <1>5 DEF Commit, Publish, Revoke, SessionRevoked, Expire, vars, server
  <2> QED
    BY <2>1, FewerSubscribers DEF Subscribers
<1> QED
  BY <1>1, <1>2, <1>3, <1>4, <1>5, SubscribeBounded, FewerSubscribers DEF Next

(* Typed and bounded, together, are what TypeOK says and the induction     *)
(* needs: that the subscribers are finitely many.                          *)
LiveTypes == Typed /\ SubscribersBounded

LEMMA LiveTyped == Spec => []LiveTypes
<1>1. LiveTypes /\ [Next]_vars => LiveTypes'
  BY LiveNextTyped, LiveNextBounded DEF LiveTypes
<1> QED
  BY <1>1, LiveInitType, PTL DEF Spec, LiveTypes

(* Every reachable state is well typed, and there are never more           *)
(* subscribers than the limit, however many browsers connect at once.      *)
THEOREM LiveTypeCorrect == Spec => []TypeOK
<1>1. LiveTypes => TypeOK
  BY DEF LiveTypes, Typed, ServerTypes, NetworkTypes, BrowserTypes, WireOK,
         SubscribersBounded, TypeOK
<1> QED
  BY <1>1, LiveTyped, PTL
-----------------------------------------------------------------------------
(* Sessions.                                                               *)

LEMMA SessionsEnd ==
  ASSUME Typed, [Next]_vars, NEW k \in Browsers
  PROVE  /\ EndedFor(k) => EndedFor(k)'
         /\ Valid(k)' => Valid(k)
<1> USE DEF EndedFor, Valid
<1>0. session \in [Browsers -> {"valid", "expired", "removed", "revoked", "gone"}]
  BY DEF Typed, ServerTypes
<1>1. CASE UNCHANGED session
  BY <1>1
<1>2. ASSUME NEW j \in Browsers, LookUp(j)
      PROVE  (EndedFor(k) => EndedFor(k)') /\ (Valid(k)' => Valid(k))
  BY <1>0, <1>2 DEF LookUp
<1>3. ASSUME NEW j \in Browsers, Revoke(j) \/ SessionRevoked(j) \/ Expire(j)
      PROVE  (EndedFor(k) => EndedFor(k)') /\ (Valid(k)' => Valid(k))
  BY <1>0, <1>3 DEF Revoke, SessionRevoked, Expire
<1>4. CASE Restart
  BY <1>4 DEF Restart
<1>5. ASSUME NEW c \in Conns, Handle(c)
      PROVE  UNCHANGED session \/ \E j \in Browsers : LookUp(j)
  BY <1>5, ConnTypes
     DEF Handle, Authorize, Subscribe, SendReady, Wake, Check, Drain, SendChanged
<1>6. ASSUME NEW j \in Browsers, Browse(j) \/ FailRead(j) \/ Refresh(j)
      PROVE  UNCHANGED session \/ \E i \in Browsers : LookUp(i)
  BY <1>6 DEF Browse, Open, Deliver, Lost, Serve, Apply, FailRead, Refresh
<1>7. CASE \/ \E w \in Writes : Commit(w) \/ Publish(w)
           \/ \E c \in Conns : Lose(c) \/ Notice(c)
           \/ UNCHANGED vars
  BY <1>1, <1>7 DEF Commit, Publish, Lose, Notice, vars
<1> QED
  BY <1>1, <1>2, <1>3, <1>4, <1>5, <1>6, <1>7 DEF Next

(* Whoever looks a session up that is not valid leaves it ended.           *)
LEMMA LookedUp ==
  ASSUME Typed, NEW k \in Browsers, LookUp(k), ~Valid(k)
  PROVE  EndedFor(k)' /\ ~Valid(k)'
BY DEF Typed, ServerTypes, LookUp, Valid, EndedFor
-----------------------------------------------------------------------------
(* Frames.                                                                 *)

LEMMA SendCarries ==
  ASSUME Typed, NEW c \in Conns, NEW frame \in Frames, Send(c, frame)
  PROVE  /\ \A d \in Conns : d # c => wire'[d] = wire[d]
         /\ c \in cut => wire'[c] = wire[c]
         /\ c \notin cut => wire'[c] # <<>> /\ Carries(c, frame)'
         /\ \A d \in Conns, f \in Frames :
              /\ Carries(d, f)' => Carries(d, f) \/ (d = c /\ f = frame /\ c \notin cut)
              /\ Carries(d, f) => Carries(d, f)'
<1>0. wire \in [Conns -> Seq(Frames)]
  BY DEF Typed, NetworkTypes, WireOK
<1>1. CASE c \in cut
  BY <1>1 DEF Send, Carries
<1>2. CASE c \notin cut
  <2>1. wire' = [wire EXCEPT ![c] = Append(wire[c], frame)]
    BY <1>2 DEF Send
  <2>2. /\ Len(Append(wire[c], frame)) = Len(wire[c]) + 1 /\ Len(wire[c]) \in Nat
        /\ Append(wire[c], frame)[Len(wire[c]) + 1] = frame
        /\ \A i \in 1..Len(wire[c]) : Append(wire[c], frame)[i] = wire[c][i]
    BY <1>0
  <2>3. wire'[c] = Append(wire[c], frame) /\ \A d \in Conns : d # c => wire'[d] = wire[d]
    BY <1>0, <2>1
  <2>4. \A f \in Frames : Carries(c, f)' <=> Carries(c, f) \/ f = frame
    BY <2>2, <2>3 DEF Carries
  <2>5. \A d \in Conns, f \in Frames : d # c => (Carries(d, f)' <=> Carries(d, f))
    BY <2>3 DEF Carries
  <2>6. Len(wire'[c]) # 0 /\ Len(<<>>) = 0
    BY <2>2, <2>3
  <2>7. wire'[c] # <<>>
    BY <2>6
  <2> QED
    BY <1>2, <2>3, <2>4, <2>5, <2>7
<1> QED
  BY <1>1, <1>2

(* A frame that is delivered is the oldest, and the others stay.           *)
LEMMA TailCarries ==
  ASSUME Typed, NEW c \in Conns, wire[c] # <<>>, wire' = [wire EXCEPT ![c] = Tail(@)]
  PROVE  /\ Carries(c, Head(wire[c])) /\ Head(wire[c]) \in Frames
         /\ \A d \in Conns : d # c => wire'[d] = wire[d]
         /\ \A d \in Conns, f \in Frames : Carries(d, f)' => Carries(d, f)
<1>0. wire \in [Conns -> Seq(Frames)]
  BY DEF Typed, NetworkTypes, WireOK
<1>1. /\ Len(wire[c]) \in Nat \ {0} /\ Head(wire[c]) = wire[c][1] /\ Head(wire[c]) \in Frames
      /\ Len(Tail(wire[c])) = Len(wire[c]) - 1
      /\ \A i \in 1..(Len(wire[c]) - 1) : Tail(wire[c])[i] = wire[c][i + 1]
  BY <1>0
<1>2. wire'[c] = Tail(wire[c]) /\ \A d \in Conns : d # c => wire'[d] = wire[d]
  BY <1>0
<1>3. \A f \in Frames : Carries(c, f)' => Carries(c, f)
  BY <1>1, <1>2 DEF Carries
<1>4. \A d \in Conns, f \in Frames : d # c => (Carries(d, f)' <=> Carries(d, f))
  BY <1>2 DEF Carries
<1>5. Carries(c, Head(wire[c]))
  BY <1>1 DEF Carries
<1> QED
  BY <1>1, <1>2, <1>3, <1>4, <1>5

LEMMA HeadCarried ==
  ASSUME Typed, NEW c \in Conns, wire[c] # <<>>
  PROVE  Carries(c, Head(wire[c])) /\ Head(wire[c]) \in Frames
<1>1. wire[c] \in Seq(Frames)
  BY DEF Typed, NetworkTypes, WireOK
<1>2. Len(wire[c]) \in Nat \ {0} /\ Head(wire[c]) = wire[c][1] /\ Head(wire[c]) \in Frames
  BY <1>1
<1> QED
  BY <1>2 DEF Carries

(* Where a wire is emptied, it carries nothing.                            *)
LEMMA EmptyCarries ==
  ASSUME NEW c, NEW f, wire[c] = <<>> PROVE ~Carries(c, f)
BY DEF Carries

(* What happens to the frames of a connection in one step: they are        *)
(* delivered or lost, a handler that looked up an ended session says so,   *)
(* and one that is subscribed tells its browser.                           *)
FrameComes(c, frame) ==
  \/ frame = "busy"
  \/ frame = "policy" /\ EndedFor(c[1])'
  \/ frame \in {"ready", "changed"} /\ conn'[c] = "waiting"

FramesFollow == \A c \in Conns, frame \in Frames :
                   Carries(c, frame)' => Carries(c, frame) \/ FrameComes(c, frame)

LEMMA HandlerFrames ==
  ASSUME Typed, NEW c \in Conns, Handle(c)
  PROVE  FramesFollow /\ (CutSilent => CutSilent')
<1> USE DEF CutSilent
<1>0. /\ c[1] \in Browsers /\ {"policy", "busy", "ready", "changed"} \subseteq Frames
      /\ conn \in [Conns -> {"unused", "closed"} \cup Alive] /\ cut \subseteq Conns
  BY ConnTypes DEF Frames, Typed, ServerTypes, NetworkTypes
<1>1. UNCHANGED cut
  BY DEF Handle, Authorize, Subscribe, SendReady, Wake, Check, Drain, SendChanged, network
<1>2. CASE UNCHANGED wire
  BY <1>1, <1>2 DEF FramesFollow, Carries
<1>3. ASSUME NEW frame \in Frames, Send(c, frame), FrameComes(c, frame)
      PROVE  FramesFollow /\ (CutSilent => CutSilent')
  BY <1>0, <1>1, <1>3, SendCarries DEF FramesFollow
<1>4. ASSUME NEW from, End(c, from, "policy"), LookUp(c[1]), ~Valid(c[1])
      PROVE  FramesFollow /\ (CutSilent => CutSilent')
  BY <1>0, <1>3, <1>4, LookedUp DEF End, FrameComes
<1>5. CASE Authorize(c)
  BY <1>2, <1>4, <1>5 DEF Authorize
<1>6. CASE Subscribe(c)
  BY <1>0, <1>2, <1>3, <1>6 DEF Subscribe, End, FrameComes
<1>7. CASE SendReady(c)
  BY <1>0, <1>3, <1>7 DEF SendReady, Moves, FrameComes
<1>8. CASE Wake(c) \/ Drain(c)
  BY <1>2, <1>8 DEF Wake, Drain, network
<1>9. CASE Check(c)
  BY <1>2, <1>4, <1>9 DEF Check
<1>10. CASE SendChanged(c)
  BY <1>0, <1>3, <1>10 DEF SendChanged, Moves, FrameComes
<1> QED
  BY <1>5, <1>6, <1>7, <1>8, <1>9, <1>10 DEF Handle

LEMMA BrowserFrames ==
  ASSUME Typed, NEW k \in Browsers, Browse(k) \/ FailRead(k) \/ Refresh(k)
  PROVE  FramesFollow /\ (CutSilent => CutSilent')
<1> USE DEF CutSilent
<1>0. /\ wire \in [Conns -> Seq(Frames)] /\ cut \subseteq Conns
      /\ using[k] \in Conns \cup {NoConn}
  BY DEF Typed, NetworkTypes, WireOK, BrowserTypes
<1>1. CASE UNCHANGED <<wire, cut>>
  BY <1>1 DEF FramesFollow, Carries
<1>2. CASE SignOut(k)
  <2>1. \A c \in Conns : wire'[c] = IF c = using[k] THEN <<>> ELSE wire[c]
    BY <1>2 DEF SignOut
  <2>2. FramesFollow
    BY <2>1 DEF FramesFollow, Carries
  <2> QED
    BY <1>0, <1>2, <2>1, <2>2 DEF SignOut
<1>3. CASE Disconnect(k) /\ using[k] # NoConn
  <2>1. \A c \in Conns : wire'[c] = IF c = using[k] THEN <<>> ELSE wire[c]
    BY <1>0, <1>3 DEF Disconnect
  <2>2. FramesFollow
    BY <2>1 DEF FramesFollow, Carries
  <2> QED
    BY <1>0, <1>3, <2>1, <2>2 DEF Disconnect
<1>4. CASE Deliver(k)
  <2>1. using[k] \in Conns /\ wire[using[k]] # <<>>
    BY <1>0, <1>4 DEF Deliver
  <2>2. CASE wire' = [wire EXCEPT ![using[k]] = Tail(@)] /\ UNCHANGED cut
    BY <1>0, <2>1, <2>2, TailCarries DEF FramesFollow
  <2> QED
    BY <1>2, <1>3, <1>4, <2>2 DEF Deliver
<1>5. CASE Lost(k)
  BY <1>0, <1>3, <1>5, ConnTypes DEF Lost
<1>6. CASE Apply(k)
  BY <1>1, <1>2, <1>6 DEF Apply, network
<1>7. CASE Open(k) \/ Serve(k) \/ FailRead(k) \/ Refresh(k)
  BY <1>1, <1>7 DEF Open, Serve, FailRead, Refresh, network
<1> QED
  BY <1>4, <1>5, <1>6, <1>7 DEF Browse

LEMMA NextFrames ==
  ASSUME Typed, [Next]_vars PROVE FramesFollow /\ (CutSilent => CutSilent')
<1>0. wire \in [Conns -> Seq(Frames)] /\ cut \subseteq Conns
  BY DEF Typed, NetworkTypes, WireOK
<1>1. CASE \/ \E w \in Writes : Commit(w) \/ Publish(w)
           \/ \E k \in Browsers : Revoke(k) \/ SessionRevoked(k) \/ Expire(k)
           \/ \E c \in Conns : Notice(c)
           \/ UNCHANGED vars
  <2>1. UNCHANGED <<wire, cut>>
    BY <1>1 DEF Commit, Publish, Revoke, SessionRevoked, Expire, Notice, vars, network
  <2> QED
    BY <2>1 DEF FramesFollow, Carries, CutSilent
<1>2. ASSUME NEW c \in Conns, Lose(c) PROVE FramesFollow /\ (CutSilent => CutSilent')
  <2>1. \A d \in Conns : wire'[d] = IF d = c THEN <<>> ELSE wire[d]
    BY <1>0, <1>2 DEF Lose
  <2>2. FramesFollow
    BY <2>1 DEF FramesFollow, Carries
  <2> QED
    BY <1>0, <1>2, <2>1, <2>2 DEF Lose, CutSilent
<1>3. CASE Restart
  <2>1. \A d \in Conns : wire'[d] = <<>>
    BY <1>3 DEF Restart
  <2> QED
    BY <1>3, <2>1 DEF Restart, FramesFollow, Carries, CutSilent
<1> QED
  BY <1>1, <1>2, <1>3, HandlerFrames, BrowserFrames DEF Next
-----------------------------------------------------------------------------
(* Browsers and their connections.                                         *)

(* A step of a browser, as the others and its own connection see it.       *)
LEMMA UsingStep ==
  ASSUME Typed, UsingOwn, [Next]_vars PROVE UsingOwn'
<1> USE DEF UsingOwn
<1>0. /\ using \in [Browsers -> Conns \cup {NoConn}]
      /\ live \in [Browsers -> {"connecting", "connected", "reconnecting", "ended"}]
  BY DEF Typed, BrowserTypes
<1>1. CASE UNCHANGED <<using, live>>
  BY <1>1
<1>2. ASSUME NEW k \in Browsers, SignOut(k) \/ Disconnect(k) PROVE UsingOwn'
  BY <1>0, <1>2 DEF SignOut, Disconnect
<1>3. ASSUME NEW k \in Browsers, Open(k) PROVE UsingOwn'
  BY <1>0, <1>3, ConnTypes DEF Open
<1>4. ASSUME NEW k \in Browsers, Deliver(k) PROVE UsingOwn'
  BY <1>0, <1>2, <1>4 DEF Deliver
<1>5. ASSUME NEW k \in Browsers, Browse(k) \/ FailRead(k) \/ Refresh(k) PROVE UsingOwn'
  BY <1>1, <1>2, <1>3, <1>4, <1>5 DEF Browse, Lost, Serve, Apply, FailRead, Refresh
<1>6. CASE \/ \E w \in Writes : Commit(w) \/ Publish(w)
           \/ \E k \in Browsers : Revoke(k) \/ SessionRevoked(k) \/ Expire(k)
           \/ \E c \in Conns : Lose(c) \/ Notice(c)
           \/ Restart \/ UNCHANGED vars
  BY <1>1, <1>6
     DEF Commit, Publish, Revoke, SessionRevoked, Expire, Lose, Notice, Restart, vars, browser
<1>7. ASSUME NEW c \in Conns, Handle(c) PROVE UNCHANGED browser
  BY <1>7 DEF Handle, Authorize, Subscribe, SendReady, Wake, Check, Drain, SendChanged
<1> QED
  BY <1>1, <1>5, <1>6, <1>7 DEF Next, browser

(* The inductive invariant behind SignedOutRightly: an ended session is    *)
(* what every frame and every answer that says so speaks of.               *)
EndedInv == UsingOwn /\ CutSilent /\ PolicyEnded /\ RefusedEnded /\ SignedOutRightly

LEMMA EndedInit == Init => EndedInv
BY ConnTypes
   DEF Init, EndedInv, UsingOwn, CutSilent, PolicyEnded, RefusedEnded, SignedOutRightly, Carries,
       NoRead

LEMMA PolicyStep ==
  ASSUME Typed, PolicyEnded, [Next]_vars PROVE PolicyEnded'
<1>1. ASSUME NEW c \in Conns, Carries(c, "policy")' PROVE EndedFor(c[1])'
  <2>1. "policy" \in Frames /\ c[1] \in Browsers
    BY ConnTypes DEF Frames
  <2>2. Carries(c, "policy") \/ FrameComes(c, "policy")
    BY <1>1, <2>1, NextFrames DEF FramesFollow
  <2> QED
    BY <2>1, <2>2, SessionsEnd DEF PolicyEnded, FrameComes
<1> QED
  BY <1>1 DEF PolicyEnded

(* A browser ends by a policy frame or by a refused read.                  *)
EndsRightly(k) ==
  /\ live'[k] = "ended" => \/ live[k] = "ended"
                           \/ read[k].at = "refused"
                           \/ using[k] \in Conns /\ Carries(using[k], "policy")
  /\ read'[k].at = "refused" => read[k].at = "refused" \/ EndedFor(k)'

LEMMA EndsStep ==
  ASSUME Typed, [Next]_vars, NEW k \in Browsers PROVE EndsRightly(k)
<1> USE DEF EndsRightly
<1>0. /\ using \in [Browsers -> Conns \cup {NoConn}]
      /\ live \in [Browsers -> {"connecting", "connected", "reconnecting", "ended"}]
      /\ read \in [Browsers -> Reads]
  BY DEF Typed, BrowserTypes
<1>1. CASE UNCHANGED <<live, read>>
  BY <1>1
<1>2. ASSUME NEW j \in Browsers, Open(j) PROVE EndsRightly(k)
  BY <1>0, <1>2 DEF Open
<1>3. ASSUME NEW j \in Browsers, Disconnect(j) PROVE EndsRightly(k)
  BY <1>0, <1>3 DEF Disconnect
<1>4. ASSUME NEW j \in Browsers, SignOut(j),
             read[j].at = "refused" \/ (using[j] \in Conns /\ Carries(using[j], "policy"))
      PROVE  EndsRightly(k)
  BY <1>0, <1>4 DEF SignOut, NoRead
<1>5. ASSUME NEW j \in Browsers, Deliver(j) PROVE EndsRightly(k)
  <2>1. using[j] \in Conns /\ Carries(using[j], Head(wire[using[j]]))
    BY <1>0, <1>5, HeadCarried DEF Deliver
  <2>2. CASE /\ live' = [live EXCEPT ![j] =
                            IF Head(wire[using[j]]) = "ready" THEN "connected" ELSE @]
             /\ ReadAgain(j)
    BY <1>0, <2>2 DEF ReadAgain
  <2> QED
    BY <1>3, <1>4, <1>5, <2>1, <2>2 DEF Deliver
<1>6. ASSUME NEW j \in Browsers, Serve(j) PROVE EndsRightly(k)
  <2>1. UNCHANGED live /\ \A i \in Browsers : i # j => read'[i] = read[i]
    BY <1>0, <1>6 DEF Serve
  <2>2. read'[j].at = "refused" => EndedFor(j)'
    BY <1>0, <1>6, LookedUp DEF Serve
  <2> QED
    BY <2>1, <2>2
<1>7. ASSUME NEW j \in Browsers, Apply(j) PROVE EndsRightly(k)
  <2>1. CASE UNCHANGED live /\ read' = [read EXCEPT ![j] = NoRead]
    BY <1>0, <2>1 DEF NoRead
  <2> QED
    BY <1>4, <1>7, <2>1 DEF Apply
<1>8. ASSUME NEW j \in Browsers, FailRead(j) \/ Refresh(j) PROVE EndsRightly(k)
  BY <1>0, <1>8 DEF FailRead, Refresh, ReadAgain, NoRead
<1>9. CASE \/ \E w \in Writes : Commit(w) \/ Publish(w)
           \/ \E j \in Browsers : Revoke(j) \/ SessionRevoked(j) \/ Expire(j)
           \/ \E c \in Conns : Lose(c) \/ Notice(c)
           \/ Restart \/ UNCHANGED vars
  BY <1>1, <1>9
     DEF Commit, Publish, Revoke, SessionRevoked, Expire, Lose, Notice, Restart, vars, browser
<1>10. ASSUME NEW c \in Conns, Handle(c) PROVE UNCHANGED browser
  BY <1>10 DEF Handle, Authorize, Subscribe, SendReady, Wake, Check, Drain, SendChanged
<1>11. ASSUME NEW j \in Browsers, Lost(j) PROVE EndsRightly(k)
  BY <1>3, <1>11 DEF Lost
<1> QED
  BY <1>1, <1>2, <1>5, <1>6, <1>7, <1>8, <1>9, <1>10, <1>11 DEF Next, Browse, browser

LEMMA EndedStep == Typed /\ EndedInv /\ [Next]_vars => EndedInv'
<1> SUFFICES ASSUME Typed, EndedInv, [Next]_vars PROVE EndedInv'
  OBVIOUS
<1>1. UsingOwn' /\ CutSilent' /\ PolicyEnded'
  BY UsingStep, NextFrames, PolicyStep DEF EndedInv
<1>2. ASSUME NEW k \in Browsers
      PROVE  /\ live'[k] = "ended" => EndedFor(k)'
             /\ read'[k].at = "refused" => EndedFor(k)'
  <2>1. EndsRightly(k)
    BY EndsStep
  <2>2. using[k] \in Conns => using[k][1] = k
    BY ConnTypes DEF EndedInv, UsingOwn
  <2>3. live'[k] = "ended" => EndedFor(k)
    BY <2>1, <2>2
       DEF EndsRightly, EndedInv, PolicyEnded, RefusedEnded, SignedOutRightly, EndedFor
  <2> QED
    BY <2>1, <2>3, SessionsEnd DEF EndsRightly, EndedInv, RefusedEnded
<1> QED
  BY <1>1, <1>2 DEF EndedInv, RefusedEnded, SignedOutRightly, EndedFor

LEMMA EndedInvariant == Spec => []EndedInv
<1>1. LiveTypes /\ EndedInv /\ [Next]_vars => EndedInv'
  BY EndedStep DEF LiveTypes
<1> QED
  BY <1>1, LiveTyped, EndedInit, PTL DEF Spec

(* A browser signs its user out only if the session has really ended, and  *)
(* never for a full coordinator or a connection that was lost.             *)
THEOREM SignsOutRightly == Spec => []SignedOutRightly
BY EndedInvariant, PTL DEF EndedInv
-----------------------------------------------------------------------------
(* Subscriptions.                                                          *)

(* The handler of a connection that the network has not lost stays         *)
(* subscribed while the session is valid.                                  *)
LEMMA TellingStays ==
  ASSUME Typed, [Next]_vars, NEW c \in Conns, conn[c] \in Telling, Valid(c[1])', c \notin cut
  PROVE  conn'[c] \in Telling
<1> USE DEF Telling
<1>0. conn \in [Conns -> {"unused", "closed"} \cup Alive] /\ c[1] \in Browsers
  BY ConnTypes DEF Typed, ServerTypes
<1>1. CASE UNCHANGED conn
  BY <1>1
<1>2. ASSUME NEW d \in Conns, d # c, NEW from, NEW to, Moves(d, from, to)
      PROVE  conn'[c] \in Telling
  BY <1>0, <1>2 DEF Moves
<1>3. ASSUME NEW d \in Conns, Handle(d), d # c PROVE conn'[c] \in Telling
  BY <1>2, <1>3
     DEF Handle, Authorize, Subscribe, SendReady, Wake, Check, Drain, SendChanged, End
<1>4. CASE Authorize(c) \/ Subscribe(c) \/ SendReady(c)
  BY <1>4 DEF Authorize, Subscribe, SendReady, End, Moves
<1>5. CASE Wake(c) \/ Drain(c) \/ SendChanged(c)
  BY <1>0, <1>5 DEF Wake, Drain, SendChanged, Moves
<1>6. CASE Check(c)
  BY <1>0, <1>6, LookedUp DEF Check, Moves
<1>7. ASSUME NEW d \in Conns, Lose(d) \/ Notice(d) PROVE conn'[c] \in Telling
  BY <1>0, <1>7 DEF Lose, Notice, server
<1>8. ASSUME NEW k \in Browsers, Open(k) PROVE conn'[c] \in Telling
  BY <1>0, <1>8 DEF Open
<1>9. ASSUME NEW k \in Browsers,
             Deliver(k) \/ Lost(k) \/ Serve(k) \/ Apply(k) \/ FailRead(k) \/ Refresh(k)
      PROVE  conn'[c] \in Telling
  BY <1>9 DEF Deliver, Lost, Serve, Apply, FailRead, Refresh, server
<1>10. CASE Restart
  BY <1>0, <1>10 DEF Restart, Valid
<1>11. CASE \/ \E w \in Writes : Commit(w) \/ Publish(w)
            \/ \E k \in Browsers : Revoke(k) \/ SessionRevoked(k) \/ Expire(k)
            \/ UNCHANGED vars
  BY <1>11 DEF Commit, Publish, Revoke, SessionRevoked, Expire, vars, server
<1> QED
  BY <1>3, <1>4, <1>5, <1>6, <1>7, <1>8, <1>9, <1>10, <1>11 DEF Next, Browse, Handle

LEMMA ToldStep ==
  ASSUME Typed, CutSilent, ToldSubscribed, [Next]_vars PROVE ToldSubscribed'
<1>1. ASSUME NEW c \in Conns, NEW f \in {"ready", "changed"}, Carries(c, f)', Valid(c[1])'
      PROVE  conn'[c] \in Telling
  <2>1. f \in Frames /\ c[1] \in Browsers
    BY ConnTypes DEF Frames
  <2>2. CASE FrameComes(c, f)
    BY <2>2 DEF FrameComes, Telling
  <2>3. CASE Carries(c, f)
    <3>1. c \notin cut
      BY <2>3, EmptyCarries DEF CutSilent
    <3>2. conn[c] \in Telling
      BY <1>1, <2>1, <2>3, SessionsEnd DEF ToldSubscribed
    <3> QED
      BY <1>1, <3>1, <3>2, TellingStays
  <2> QED
    BY <1>1, <2>1, <2>2, <2>3, NextFrames DEF FramesFollow
<1> QED
  BY <1>1 DEF ToldSubscribed
-----------------------------------------------------------------------------
(* Connected browsers.                                                     *)

(* A browser that is connected after a step has just been told so, and     *)
(* reads, or was connected before it, by the same connection.              *)
ConnectsBy(k) ==
  Connected(k)' => \/ /\ read'[k].at = "sent" /\ using'[k] = using[k]
                      /\ using[k] \in Conns /\ using[k] \notin cut
                      /\ conn'[using[k]] = conn[using[k]]
                      /\ Carries(using[k], "ready") \/ conn[using[k]] \in Telling
                   \/ Connected(k) /\ using'[k] = using[k] /\ using[k] \in Conns

LEMMA ConnectStep ==
  ASSUME Typed, UsingOwn, [Next]_vars, NEW k \in Browsers PROVE ConnectsBy(k)
<1> USE DEF ConnectsBy, Connected
<1>0. /\ using \in [Browsers -> Conns \cup {NoConn}]
      /\ live \in [Browsers -> {"connecting", "connected", "reconnecting", "ended"}]
      /\ read \in [Browsers -> Reads] /\ cut \subseteq Conns
      /\ Valid(k)' => Valid(k)
      /\ live[k] = "connected" => using[k] \in Conns
  BY SessionsEnd DEF Typed, NetworkTypes, BrowserTypes, UsingOwn
<1>1. CASE UNCHANGED <<using, live>> /\ cut \subseteq cut'
  BY <1>0, <1>1
<1>2. ASSUME NEW j \in Browsers, SignOut(j) PROVE ConnectsBy(k)
  BY <1>0, <1>2 DEF SignOut
<1>3. ASSUME NEW j \in Browsers, Disconnect(j) PROVE ConnectsBy(k)
  BY <1>0, <1>3 DEF Disconnect
<1>4. ASSUME NEW j \in Browsers, Open(j) PROVE ConnectsBy(k)
  BY <1>0, <1>4 DEF Open, network
<1>5. ASSUME NEW j \in Browsers, Deliver(j) PROVE ConnectsBy(k)
  <2>1. using[j] \in Conns /\ Carries(using[j], Head(wire[using[j]]))
    BY <1>0, <1>5, HeadCarried DEF Deliver
  <2>2. CASE /\ live' = [live EXCEPT ![j] =
                            IF Head(wire[using[j]]) = "ready" THEN "connected" ELSE @]
             /\ ReadAgain(j) /\ UNCHANGED <<using, cut>>
    <3>1. CASE j = k /\ Head(wire[using[j]]) = "ready"
      BY <1>0, <1>5, <2>1, <2>2, <3>1 DEF ReadAgain, Deliver, server
    <3>2. CASE j # k \/ Head(wire[using[j]]) # "ready"
      BY <1>0, <2>2, <3>2
    <3> QED
      BY <3>1, <3>2
  <2> QED
    BY <1>2, <1>3, <1>5, <2>2 DEF Deliver
<1>6. ASSUME NEW j \in Browsers, Lost(j) \/ Serve(j) \/ Apply(j) \/ FailRead(j) \/ Refresh(j)
      PROVE  ConnectsBy(k)
  BY <1>1, <1>2, <1>3, <1>6 DEF Lost, Serve, Apply, FailRead, Refresh, network
<1>7. CASE Restart
  BY <1>7 DEF Restart, Valid
<1>8. CASE \/ \E w \in Writes : Commit(w) \/ Publish(w)
           \/ \E j \in Browsers : Revoke(j) \/ SessionRevoked(j) \/ Expire(j)
           \/ \E c \in Conns : Lose(c) \/ Notice(c)
           \/ UNCHANGED vars
  BY <1>1, <1>8
     DEF Commit, Publish, Revoke, SessionRevoked, Expire, Lose, Notice, vars, browser, network
<1>9. ASSUME NEW c \in Conns, Handle(c) PROVE UNCHANGED <<using, live, cut>>
  BY <1>9
     DEF Handle, Authorize, Subscribe, SendReady, Wake, Check, Drain, SendChanged, browser, network
<1> QED
  BY <1>1, <1>4, <1>5, <1>6, <1>7, <1>8, <1>9 DEF Next, Browse

LEMMA SubscribedStep ==
  ASSUME Typed, UsingOwn, CutSilent, ToldSubscribed, ConnectedSubscribed, [Next]_vars
  PROVE  ConnectedSubscribed'
<1>1. ASSUME NEW k \in Browsers, Connected(k)' PROVE conn'[using'[k]] \in Telling
  <2>1. ConnectsBy(k) /\ Valid(k)' /\ Valid(k) /\ (using[k] \in Conns => using[k][1] = k)
    BY <1>1, ConnectStep, SessionsEnd, ConnTypes DEF UsingOwn, Connected
  <2>2. CASE Connected(k) /\ using'[k] = using[k] /\ using[k] \in Conns
    BY <2>1, <2>2, TellingStays DEF ConnectedSubscribed, Connected
  <2>3. CASE /\ using'[k] = using[k] /\ using[k] \in Conns
             /\ conn'[using[k]] = conn[using[k]]
             /\ Carries(using[k], "ready") \/ conn[using[k]] \in Telling
    BY <2>1, <2>3 DEF ToldSubscribed
  <2> QED
    BY <1>1, <2>1, <2>2, <2>3 DEF ConnectsBy
<1> QED
  BY <1>1 DEF ConnectedSubscribed
-----------------------------------------------------------------------------
(* Signals.                                                                *)

LEMMA PublishedStep ==
  ASSUME Typed, PublishedCommitted, [Next]_vars PROVE PublishedCommitted'
<1> USE DEF PublishedCommitted
<1>1. ASSUME NEW w \in Writes, Commit(w) \/ Publish(w) PROVE PublishedCommitted'
  BY <1>1 DEF Commit, Publish
<1>2. CASE Restart
  BY <1>2 DEF Restart
<1>3. CASE UNCHANGED <<committed, published>>
  BY <1>3
<1>4. ASSUME NEW k \in Browsers,
             \/ Revoke(k) \/ SessionRevoked(k) \/ Expire(k)
             \/ Browse(k) \/ FailRead(k) \/ Refresh(k)
      PROVE  UNCHANGED <<committed, published>>
  BY <1>4 DEF Revoke, SessionRevoked, Expire, Browse, Open, Deliver, Lost, Serve, Apply, FailRead,
              Refresh
<1>5. ASSUME NEW c \in Conns, Handle(c) \/ Lose(c) \/ Notice(c)
      PROVE  UNCHANGED <<committed, published>>
  BY <1>5 DEF Handle, Authorize, Subscribe, SendReady, Wake, Check, Drain, SendChanged, Lose, Notice
<1> QED
  BY <1>1, <1>2, <1>3, <1>4, <1>5 DEF Next, vars

(* Where nothing is taken from what a signal is in, it is still there.     *)
LEMMA StillSignalled ==
  ASSUME NEW k, UNCHANGED <<committed, published>>, using'[k] = using[k],
         queue[using[k]] => queue'[using[k]],
         conn[using[k]] = "drained" => conn'[using[k]] = "drained",
         wire'[using[k]] = wire[using[k]]
  PROVE  Signalled(k) => Signalled(k)'
BY DEF Signalled, Carries

(* A signal for a browser that stays connected is read for or stays, and a *)
(* write that concerns it makes one.                                       *)
KeepsSignal(k) == /\ Signalled(k) => Signalled(k)' \/ read'[k].at = "sent"
                  /\ View(k)' # View(k) => Signalled(k)'

LEMMA SignalStep ==
  ASSUME Typed, UsingOwn, PublishedCommitted, ConnectedSubscribed, [Next]_vars,
         NEW k \in Browsers, Connected(k), Connected(k)',
         NEW c \in Conns, using[k] = c, using'[k] = c
  PROVE  KeepsSignal(k)
<1>0. /\ c \in Conns /\ c[1] = k /\ c \notin cut /\ c \notin cut' /\ conn[c] \in Telling
      /\ Valid(k) /\ Valid(k)' /\ live'[k] = "connected" /\ live[k] = "connected"
  BY DEF Connected, ConnectedSubscribed, UsingOwn, Typed, BrowserTypes
<1>00. /\ conn \in [Conns -> {"unused", "closed"} \cup Alive]
       /\ queue \in [Conns -> BOOLEAN]
       /\ wire \in [Conns -> Seq(Frames)] /\ cut \subseteq Conns
       /\ using \in [Browsers -> Conns \cup {NoConn}]
       /\ live \in [Browsers -> {"connecting", "connected", "reconnecting", "ended"}]
       /\ read \in [Browsers -> Reads]
       /\ \A j \in Browsers : j # k => using[j] # c
  BY <1>0, ConnTypes DEF Typed, ServerTypes, NetworkTypes, WireOK, BrowserTypes, UsingOwn
<1> USE DEF KeepsSignal
<1>1. ASSUME UNCHANGED <<committed, published>>, queue[c] => queue'[c],
             conn[c] = "drained" => conn'[c] = "drained", wire'[c] = wire[c]
      PROVE  KeepsSignal(k)
  BY <1>1, StillSignalled DEF View
<1>2. ASSUME NEW w \in Writes, Commit(w) PROVE KeepsSignal(k)
  <2>1. Signalled(k) => Signalled(k)'
    BY <1>2 DEF Commit, Signalled, Carries, server, network, browser
  <2>2. w \in committed' \ published'
    BY <1>2 DEF Commit, PublishedCommitted
  <2>3. View(k)' # View(k) => Concerns(w, k)
    BY <1>2 DEF Commit, View
  <2> QED
    BY <2>1, <2>2, <2>3 DEF Signalled, Concerns
<1>3. ASSUME NEW w \in Writes, Publish(w) PROVE KeepsSignal(k)
  <2>1. View(k)' = View(k) /\ UNCHANGED <<committed, conn, wire, using>>
    BY <1>3 DEF Publish, View, network, browser, Concerns
  <2>2. queue'[c] <=> (queue[c] \/ c \in {d \in Subscribers : Tells(w, d[1])})
    BY <1>0, <1>3 DEF Publish, Signal
  <2>3. CASE Concerns(w, k)
    <3>1. c \in Subscribers
      BY <1>0 DEF Subscribers, Telling, Registered
    <3>2. queue'[c]
      BY <1>0, <2>2, <2>3, <3>1 DEF Tells, Concerns
    <3> QED
      BY <2>1, <3>2 DEF Signalled
  <2>4. CASE ~Concerns(w, k)
    <3>1. \A x \in committed \ published : Concerns(x, k) => x \in committed' \ published'
      BY <1>3, <2>1, <2>4 DEF Publish
    <3> QED
      BY <2>1, <2>2, <3>1 DEF Signalled, Carries, Concerns
  <2> QED
    BY <2>3, <2>4
<1>4. ASSUME NEW j \in Browsers, Revoke(j) \/ SessionRevoked(j) \/ Expire(j) PROVE KeepsSignal(k)
  <2>1. queue[c] => queue'[c]
    BY <1>0, <1>4 DEF Revoke, SessionRevoked, Expire, Signal, server
  <2> QED
    BY <1>1, <1>4, <2>1 DEF Revoke, SessionRevoked, Expire, server, network
<1>5. ASSUME NEW d \in Conns, Handle(d) PROVE KeepsSignal(k)
  <2>1. CASE d # c
    <3>1. UNCHANGED <<committed, published>>
      BY <1>5 DEF Handle, Authorize, Subscribe, SendReady, Wake, Check, Drain, SendChanged
    <3>2. ASSUME NEW frame \in Frames, Send(d, frame) PROVE wire'[c] = wire[c]
      BY <1>0, <2>1, <3>2, SendCarries
    <3>3. conn'[c] = conn[c] /\ queue'[c] = queue[c] /\ wire'[c] = wire[c]
      BY <1>0, <1>00, <1>5, <2>1, <3>2
         DEF Handle, Authorize, Subscribe, SendReady, Wake, Check, Drain, SendChanged, Moves, End,
             network, Frames
    <3> QED
      BY <1>1, <3>1, <3>3
  <2>2. CASE d = c /\ (Authorize(c) \/ Subscribe(c) \/ SendReady(c))
    BY <1>0, <2>2 DEF Authorize, Subscribe, SendReady, End, Moves, Telling
  <2>3. CASE d = c /\ Wake(c)
    BY <1>1, <2>3 DEF Wake, Moves, network
  <2>4. CASE d = c /\ Check(c)
    <3>1. conn[c] # "drained" /\ UNCHANGED <<committed, published, queue, wire>>
      BY <1>0, <2>4 DEF Check
    <3> QED
      BY <1>1, <3>1
  <2>5. CASE d = c /\ Drain(c)
    <3>1. conn'[c] = "drained" /\ UNCHANGED committed
      BY <1>0, <1>00, <2>5 DEF Drain, Moves
    <3> QED
      BY <3>1 DEF Signalled, View
  <2>6. CASE d = c /\ SendChanged(c)
    <3>1. Send(c, "changed") /\ "changed" \in Frames /\ UNCHANGED committed
      BY <2>6 DEF SendChanged, Frames
    <3>2. Carries(c, "changed")'
      BY <1>0, <3>1, SendCarries
    <3> QED
      BY <3>1, <3>2 DEF Signalled, Carries, View
  <2> QED
    BY <1>5, <2>1, <2>2, <2>3, <2>4, <2>5, <2>6 DEF Handle
<1>6. ASSUME NEW d \in Conns, Lose(d) \/ Notice(d) PROVE KeepsSignal(k)
  <2>1. d # c
    BY <1>0, <1>6 DEF Lose, Notice
  <2>2. conn'[c] = conn[c] /\ queue'[c] = queue[c] /\ wire'[c] = wire[c]
    BY <1>0, <1>00, <1>6, <2>1 DEF Lose, Notice, server, network
  <2> QED
    BY <1>1, <1>6, <2>2 DEF Lose, Notice
<1>7. ASSUME NEW j \in Browsers, Open(j) PROVE KeepsSignal(k)
  <2>1. j # k
    BY <1>0, <1>00, <1>7 DEF Open
  <2>2. conn'[c] = conn[c]
    BY <1>0, <1>00, <1>7, <2>1, ConnTypes DEF Open
  <2> QED
    BY <1>1, <1>7, <2>2 DEF Open, network
<1>8. ASSUME NEW j \in Browsers, SignOut(j) \/ (Disconnect(j) /\ using[j] # NoConn)
      PROVE  wire'[c] = wire[c]
  <2>1. j # k
    BY <1>0, <1>00, <1>8 DEF SignOut, Disconnect
  <2> QED
    BY <1>0, <1>00, <1>8, <2>1 DEF SignOut, Disconnect
<1>9. ASSUME NEW j \in Browsers, Deliver(j) PROVE KeepsSignal(k)
  <2>1. UNCHANGED <<committed, published, conn, queue>> /\ using[j] # NoConn
    BY <1>9 DEF Deliver, server
  <2>2. CASE ReadAgain(j) /\ wire' = [wire EXCEPT ![using[j]] = Tail(@)]
    <3>1. CASE j = k
      BY <1>00, <2>1, <2>2, <3>1 DEF ReadAgain, View
    <3>2. CASE j # k
      BY <1>0, <1>00, <1>1, <2>1, <2>2, <3>2
    <3> QED
      BY <3>1, <3>2
  <2> QED
    BY <1>1, <1>8, <1>9, <2>1, <2>2 DEF Deliver
<1>10. ASSUME NEW j \in Browsers, Lost(j) PROVE KeepsSignal(k)
  <2>1. using[j] # NoConn
    BY <1>00, <1>10, ConnTypes DEF Lost
  <2> QED
    BY <1>1, <1>8, <1>10, <2>1 DEF Lost, server
<1>11. ASSUME NEW j \in Browsers, Apply(j) PROVE KeepsSignal(k)
  BY <1>1, <1>8, <1>11 DEF Apply, server, network
<1>12. ASSUME NEW j \in Browsers, Serve(j) \/ FailRead(j) \/ Refresh(j) PROVE KeepsSignal(k)
  BY <1>1, <1>12 DEF Serve, FailRead, Refresh, server, network
<1>13. CASE Restart
  BY <1>0, <1>13 DEF Restart, Valid
<1>14. CASE UNCHANGED vars
  BY <1>1, <1>14 DEF vars, server, network
<1> QED
  BY <1>2, <1>3, <1>4, <1>5, <1>6, <1>7, <1>9, <1>10, <1>11, <1>12, <1>13, <1>14
     DEF Next, Browse
-----------------------------------------------------------------------------
(* Reads and lists.                                                        *)

(* What a step does to the read and the list of a browser that is          *)
(* connected after it: nothing, or it asks, is answered, shows the answer, *)
(* or asks its user to refresh.                                            *)
SameList(k) == shown'[k] = shown[k] /\ (k \in flagged' <=> k \in flagged)

ListMoves(k) ==
  \/ read'[k] = read[k] /\ SameList(k)
  \/ read'[k].at = "sent"
  \/ read'[k] = [at |-> "answered", rows |-> View(k)] /\ SameList(k) /\ UNCHANGED committed
  \/ read[k].at = "answered" /\ shown'[k] = read[k].rows /\ read'[k].at = "none"
  \/ k \in flagged' /\ read'[k].at = "none"

LEMMA ListStep ==
  ASSUME Typed, [Next]_vars, NEW k \in Browsers, Connected(k)'
  PROVE  ListMoves(k)
<1> USE DEF ListMoves, SameList
<1>0. /\ live'[k] = "connected" /\ Valid(k)'
      /\ live \in [Browsers -> {"connecting", "connected", "reconnecting", "ended"}]
      /\ read \in [Browsers -> Reads] /\ shown \in [Browsers -> SUBSET Writes]
  BY DEF Connected, Typed, BrowserTypes
<1>1. CASE UNCHANGED <<read, shown, flagged>>
  BY <1>1
<1>2. ASSUME NEW j \in Browsers, SignOut(j) PROVE ListMoves(k)
  BY <1>0, <1>2 DEF SignOut
<1>3. ASSUME NEW j \in Browsers, Open(j) \/ Lost(j) PROVE ListMoves(k)
  BY <1>1, <1>3 DEF Open, Lost, Disconnect
<1>4. ASSUME NEW j \in Browsers, Deliver(j) PROVE ListMoves(k)
  <2>1. CASE ReadAgain(j) /\ UNCHANGED <<shown, flagged>>
    BY <1>0, <2>1 DEF ReadAgain
  <2> QED
    BY <1>1, <1>2, <1>4, <2>1 DEF Deliver, Disconnect
<1>5. ASSUME NEW j \in Browsers, Serve(j) PROVE ListMoves(k)
  <2>1. CASE j # k
    BY <1>0, <1>5, <2>1 DEF Serve
  <2>2. CASE j = k
    <3>1. Valid(k)
      BY <1>0, SessionsEnd
    <3> QED
      BY <1>0, <1>5, <2>2, <3>1 DEF Serve
  <2> QED
    BY <2>1, <2>2
<1>6. ASSUME NEW j \in Browsers, Apply(j) PROVE ListMoves(k)
  <2>1. CASE /\ read[j].at = "answered"
             /\ shown' = [shown EXCEPT ![j] = read[j].rows]
             /\ flagged' = flagged \ {j}
             /\ read' = [read EXCEPT ![j] = NoRead]
    BY <1>0, <2>1 DEF NoRead
  <2> QED
    BY <1>2, <1>6, <2>1 DEF Apply
<1>7. ASSUME NEW j \in Browsers, FailRead(j) PROVE ListMoves(k)
  BY <1>0, <1>7 DEF FailRead, NoRead
<1>8. ASSUME NEW j \in Browsers, Refresh(j) PROVE ListMoves(k)
  BY <1>0, <1>8 DEF Refresh, ReadAgain
<1>9. CASE \/ \E w \in Writes : Commit(w) \/ Publish(w)
           \/ \E j \in Browsers : Revoke(j) \/ SessionRevoked(j) \/ Expire(j)
           \/ \E c \in Conns : Lose(c) \/ Notice(c)
           \/ Restart \/ UNCHANGED vars
  BY <1>1, <1>9
     DEF Commit, Publish, Revoke, SessionRevoked, Expire, Lose, Notice, Restart, vars, browser
<1>10. ASSUME NEW c \in Conns, Handle(c) PROVE UNCHANGED <<read, shown, flagged>>
  BY <1>10
     DEF Handle, Authorize, Subscribe, SendReady, Wake, Check, Drain, SendChanged, browser
<1> QED
  BY <1>1, <1>3, <1>4, <1>5, <1>6, <1>7, <1>8, <1>9, <1>10 DEF Next, Browse

(* The inductive invariant behind NoLostInvalidation: from the commit to   *)
(* the list, whatever is out of date has been or will be signalled.        *)
SignalledInv == /\ PublishedCommitted /\ ToldSubscribed /\ ConnectedSubscribed
                /\ StaleAnswerSignalled /\ NoLostInvalidation

LEMMA SignalledInit == Init => SignalledInv
BY ConnTypes
   DEF Init, SignalledInv, PublishedCommitted, ToldSubscribed, ConnectedSubscribed, Connected,
       StaleAnswerSignalled, NoLostInvalidation, Carries

(* The frames that Underway counts are those that Signalled does.          *)
LEMMA UnderwayIs ==
  ASSUME NEW k
  PROVE  Underway(k) <=> \/ Signalled(k)
                         \/ read[k].at = "sent"
                         \/ read[k].at = "answered" /\ read[k].rows = View(k)
BY DEF Underway, Signalled, Carries

LEMMA SignalledStep == Typed /\ EndedInv /\ SignalledInv /\ [Next]_vars => SignalledInv'
<1> SUFFICES ASSUME Typed, EndedInv, SignalledInv, [Next]_vars PROVE SignalledInv'
  OBVIOUS
<1>1. PublishedCommitted' /\ ToldSubscribed' /\ ConnectedSubscribed'
  BY PublishedStep, ToldStep, SubscribedStep DEF SignalledInv, EndedInv
<1>2. ASSUME NEW k \in Browsers, Connected(k)', read'[k].at # "sent"
      PROVE  Connected(k) /\ KeepsSignal(k) /\ ListMoves(k)
  <2>1. Connected(k) /\ using'[k] = using[k] /\ using[k] \in Conns
    BY <1>2, ConnectStep DEF ConnectsBy, EndedInv
  <2>2. KeepsSignal(k)
    BY <1>2, <2>1, SignalStep DEF SignalledInv, EndedInv
  <2> QED
    BY <1>2, <2>1, <2>2, ListStep
<1>3. ASSUME NEW k \in Browsers, Connected(k)', read'[k].at = "answered",
             read'[k].rows # View(k)'
      PROVE  Signalled(k)'
  <2>1. Connected(k) /\ KeepsSignal(k) /\ ListMoves(k) /\ read'[k].at # "sent"
    BY <1>2, <1>3
  <2>2. CASE View(k)' # View(k)
    BY <2>1, <2>2 DEF KeepsSignal
  <2>3. CASE View(k)' = View(k)
    <3>1. read'[k] = read[k]
      BY <1>3, <2>1, <2>3 DEF ListMoves
    <3> QED
      BY <1>3, <2>1, <2>3, <3>1 DEF SignalledInv, StaleAnswerSignalled, KeepsSignal
  <2> QED
    BY <2>2, <2>3
<1>4. ASSUME NEW k \in Browsers, Connected(k)', k \notin flagged', shown'[k] # View(k)'
      PROVE  Underway(k)'
  <2>0. \/ Signalled(k)' \/ read'[k].at = "sent"
        \/ read'[k].at = "answered" /\ read'[k].rows = View(k)'
    <3>1. CASE read'[k].at # "sent" /\ View(k)' = View(k)
      <4>1. Connected(k) /\ KeepsSignal(k) /\ ListMoves(k)
        BY <1>2, <1>4, <3>1
      <4>2. CASE read'[k] = read[k] /\ SameList(k)
        <5>1. Underway(k)
          BY <1>4, <3>1, <4>1, <4>2 DEF SameList, SignalledInv, NoLostInvalidation, Connected
        <5> QED
          BY <3>1, <4>1, <4>2, <5>1, UnderwayIs DEF KeepsSignal
      <4>3. CASE read'[k] = [at |-> "answered", rows |-> View(k)]
        BY <3>1, <4>3
      <4>4. CASE read[k].at = "answered" /\ shown'[k] = read[k].rows
        <5>1. Signalled(k)
          BY <1>4, <3>1, <4>1, <4>4 DEF SignalledInv, StaleAnswerSignalled
        <5> QED
          BY <3>1, <4>1, <5>1 DEF KeepsSignal
      <4> QED
        BY <1>4, <3>1, <4>1, <4>2, <4>3, <4>4 DEF ListMoves
    <3>2. CASE read'[k].at # "sent" /\ View(k)' # View(k)
      BY <1>2, <1>4, <3>2 DEF KeepsSignal
    <3> QED
      BY <3>1, <3>2
  <2> QED
    BY <2>0 DEF Underway, Signalled, Carries
<1> QED
  BY <1>1, <1>3, <1>4
     DEF SignalledInv, StaleAnswerSignalled, NoLostInvalidation, Connected

(* No invalidation is lost: a connected browser whose list is out of date  *)
(* has a signal or an answer under way, or asks its user to refresh, for   *)
(* any number of browsers, writes and connections, and whatever the        *)
(* network loses.                                                          *)
THEOREM NoInvalidationLost == Spec => []NoLostInvalidation
<1>1. LiveTypes /\ EndedInv /\ SignalledInv /\ [Next]_vars => SignalledInv'
  BY SignalledStep DEF LiveTypes
<1>2. Spec => []SignalledInv
  BY <1>1, LiveTyped, EndedInvariant, SignalledInit, PTL DEF Spec
<1> QED
  BY <1>2, PTL DEF SignalledInv
=============================================================================
