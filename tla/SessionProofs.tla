---------------------------- MODULE SessionProofs ----------------------------
(***************************************************************************)
(* The session implements the client that the coordinator relies on, with  *)
(* one switch per call, for any number of toggles beside the poll and any  *)
(* number of disturbances.  The argument: a toggle has switched the VPN    *)
(* only when it is past its PUT, and from there no path leads back to one. *)
(* Calls that nothing disturbs succeed: the only stale SID such a call can *)
(* meet is the one it found, and for that it has its one retry.            *)
(***************************************************************************)
EXTENDS Session, TLAPS

VpnStates == {"on", "off", "gone"}
TryLists == Seq(Modes)

Sessions == [sid : Sids, protocol : Protocols, mode : Modes]
Calls == [pc : Pcs, want : {"list", "on", "off"}, answer : Answers \union {"none"},
          phase : {"first", "put", "verify"}, attempt : {1, 2}, sid_retry : BOOLEAN,
          v2 : BOOLEAN, again : BOOLEAN, url : Protocols, sid : Sids, tries : TryLists,
          preferred : Modes]
Histories == [seen : SUBSET VpnStates, switches : Nat, calm : BOOLEAN, wrong : BOOLEAN]
Boxes == [power : {"up", "off", "booting"}, https : BOOLEAN, firmware : Modes \ {"none"},
          login : BOOLEAN, events : 0..MaxEvents]

Typed ==
  /\ session \in Sessions
  /\ task \in [Task -> Calls]
  /\ history \in [Task -> Histories]
  /\ box \in Boxes
  /\ vpn \in VpnStates

\* A call under way, wherever it is: only a toggle gets beyond its first listing.
Busy(k) == k \in Calls /\ k.answer = "none" /\ (k.phase # "first" => k.want # "list")

\* What its place says of it
Placed(k) ==
  /\ k.pc # "idle"
  /\ k.pc \in {"put", "put_taken", "put_lost", "delay"} => k.phase = "put"
  /\ k.pc = "list" => k.phase # "put" /\ k.tries # <<>>
  /\ k.pc \in {"list", "put"} => k.sid # "none"

\* Past the PUT
Late(k) == k.phase = "verify" \/ k.pc \in {"put_taken", "put_lost", "delay"}

WellFormed(k) ==
  IF k.pc = "idle"
  THEN /\ k.answer \in Answers /\ k.want = "list"
       /\ k.phase = "first" /\ k.attempt = 1 /\ k.sid_retry
  ELSE Busy(k) /\ Placed(k)

\* What a call has done to the VPN, and what it has seen of it
Accounted(k, h) ==
  IF k.pc = "idle" THEN h.seen = {} /\ h.switches = 0
  ELSE vpn \in h.seen /\ h.switches <= 1 /\ (~Late(k) => h.switches = 0)

IInv ==
  /\ Typed
  /\ \A t \in Task : WellFormed(task[t]) /\ Accounted(task[t], history[t])

-----------------------------------------------------------------------------

LEMMA InvImpliesTypeOK == IInv => TypeOK
<1> SUFFICES ASSUME IInv PROVE TypeOK
  OBVIOUS
<1>1. ASSUME NEW t \in Task
      PROVE  /\ task[t].pc \in Pcs /\ task[t].want \in {"list", "on", "off"}
             /\ task[t].phase \in {"first", "put", "verify"} /\ task[t].attempt \in {1, 2}
             /\ task[t].sid \in Sids /\ task[t].url \in Protocols /\ task[t].preferred \in Modes
             /\ WellFormed(task[t])
  BY DEF IInv, Typed, Calls
<1>2. vpn \in {"on", "off", "gone"} /\ box.events \in 0..MaxEvents /\ session \in Sessions
  BY DEF IInv, Typed, VpnStates, Boxes
<1> QED
  BY <1>1, <1>2 DEF TypeOK, WellFormed, Busy, Placed, Sessions

LEMMA InitEstablishesInv == Init => IInv
<1> SUFFICES ASSUME Init PROVE IInv
  OBVIOUS
<1>1. Idle("outage") \in Calls
  BY DEF Idle, Calls, Pcs, Answers, Protocols, Sids, Modes, TryLists
<1>2. Unwatched \in Histories
  BY DEF Unwatched, Histories
<1>3. box \in Boxes
  BY MaxEventsAssumption DEF Init, Boxes, Modes
<1>4. session \in Sessions /\ vpn \in VpnStates
  BY DEF Init, Invalidated, Sessions, Sids, Protocols, Modes, VpnStates
<1>5. Typed
  BY <1>1, <1>2, <1>3, <1>4 DEF Init, Typed
<1>6. ASSUME NEW t \in Task
      PROVE  WellFormed(task[t]) /\ Accounted(task[t], history[t])
  BY DEF Init, WellFormed, Accounted, Idle, Unwatched, Answers
<1> QED
  BY <1>5, <1>6 DEF IInv

-----------------------------------------------------------------------------
(* Between two requests                                                    *)

\* The call goes on, and one that verifies keeps to that.
GoesOn(k, step) ==
  /\ step.session \in Sessions
  /\ Busy(step.call) /\ Placed(step.call) /\ step.call.want = k.want
  /\ k.phase = "verify" => step.call.phase = "verify"

GivesUp(step) ==
  /\ step.session \in Sessions
  /\ \E a \in {"outage", "denied", "false"} : step.call = Idle(a)

LEMMA InvalidatedIsSession == Invalidated \in Sessions
BY DEF Invalidated, Sessions, Sids, Protocols, Modes

LEMMA TriesAreLists ==
  ASSUME NEW mode
  PROVE  <<>> \in TryLists /\ Tries(mode) \in TryLists /\ Tries(mode) # <<>>
<1>1. "data_lua" \in Modes /\ "rest" \in Modes
  BY DEF Modes
<1>2. <<>> \in Seq(Modes)
  OBVIOUS
<1>3. <<"data_lua", "rest">> \in Seq(Modes) /\ <<"rest", "data_lua">> \in Seq(Modes)
  BY <1>1
<1>4. <<"data_lua", "rest">> # <<>> /\ <<"rest", "data_lua">> # <<>>
  OBVIOUS
<1> QED
  BY <1>2, <1>3, <1>4 DEF Tries, TryLists

LEMMA RequestGoesOn ==
  ASSUME NEW s \in Sessions, NEW k, Busy(k), NEW pc \in Pcs, pc # "idle",
         pc \in {"put", "put_taken", "put_lost", "delay"} => k.phase = "put",
         pc = "list" => k.phase # "put" /\ k.tries # <<>>,
         pc \in {"list", "put"} => k.sid # "none"
  PROVE  GoesOn(k, Request(s, k, pc))
<1> DEFINE c == [k EXCEPT !.pc = pc, !.url = s.protocol]
<1>1. c \in Calls /\ c.answer = "none" /\ c.want = k.want /\ c.phase = k.phase /\ c.pc = pc
      /\ c.tries = k.tries /\ c.sid = k.sid
  BY DEF Busy, Calls, Sessions
<1>2. Request(s, k, pc).session = s /\ Request(s, k, pc).call = c
  BY DEF Request, Step
<1> HIDE DEF c
<1> QED
  BY <1>1, <1>2 DEF GoesOn, Busy, Placed

LEMMA WithSidGoesOn ==
  ASSUME NEW s \in Sessions, s.sid # "none", NEW k, Busy(k)
  PROVE  GoesOn(k, WithSid(s, k))
<1>1. CASE k.phase = "put"
  <2> DEFINE c == [k EXCEPT !.v2 = TRUE, !.sid = s.sid]
  <2>1. Busy(c) /\ c.phase = k.phase /\ c.want = k.want /\ c.sid = s.sid
    BY DEF Busy, Calls, Sessions
  <2>2. WithSid(s, k) = Request(s, c, "put")
    BY <1>1 DEF WithSid
  <2> HIDE DEF c
  <2>3. GoesOn(c, Request(s, c, "put"))
    BY <1>1, <2>1, RequestGoesOn DEF Pcs
  <2> QED
    BY <2>1, <2>2, <2>3 DEF GoesOn
<1>2. CASE k.phase # "put"
  <2> DEFINE c == [k EXCEPT !.v2 = TRUE, !.sid = s.sid, !.tries = Tries(s.mode),
                            !.preferred = s.mode]
  <2>1. Tries(s.mode) \in TryLists /\ Tries(s.mode) # <<>>
    BY TriesAreLists
  <2>2. Busy(c) /\ c.phase = k.phase /\ c.want = k.want /\ c.tries = Tries(s.mode)
        /\ c.sid = s.sid
    BY <2>1 DEF Busy, Calls, Sessions
  <2>3. WithSid(s, k) = Request(s, c, "list")
    BY <1>2 DEF WithSid
  <2> HIDE DEF c
  <2>4. GoesOn(c, Request(s, c, "list"))
    BY <1>2, <2>1, <2>2, RequestGoesOn DEF Pcs
  <2> QED
    BY <2>2, <2>3, <2>4 DEF GoesOn
<1> QED
  BY <1>1, <1>2

LEMMA GetSessionGoesOn ==
  ASSUME NEW s \in Sessions, NEW k, Busy(k)
  PROVE  GoesOn(k, GetSession(s, k))
<1> DEFINE c == NoRequest(k)
<1>1. Busy(c) /\ c.phase = k.phase /\ c.want = k.want
  BY TriesAreLists DEF Busy, Calls, NoRequest, Protocols, Sids, Modes
<1>2. GetSession(s, k) = IF s.sid # "none" THEN WithSid(s, c) ELSE Request(s, c, "page")
  BY DEF GetSession
<1> HIDE DEF c
<1>3. GoesOn(c, GetSession(s, k))
  BY <1>1, <1>2, WithSidGoesOn, RequestGoesOn DEF Pcs
<1> QED
  BY <1>1, <1>3 DEF GoesOn

LEMMA FailGivesUp ==
  ASSUME NEW s \in Sessions, NEW k, NEW error
  PROVE  GivesUp(Fail(s, k, error))
BY InvalidatedIsSession DEF Fail, GivesUp, AnswerTo, Step

LEMMA RaiseEither ==
  ASSUME NEW s \in Sessions, NEW k, Busy(k), NEW error
  PROVE  GoesOn(k, Raise(s, k, error)) \/ GivesUp(Raise(s, k, error))
<1> DEFINE c == Retried(k)
<1>1. Busy(c) /\ c.phase = k.phase /\ c.want = k.want
  BY DEF Busy, Calls, Retried
<1>2. Raise(s, k, error) = GetSession(Invalidated, c) \/ Raise(s, k, error) = Fail(s, k, error)
  BY DEF Raise
<1> HIDE DEF c
<1>3. GoesOn(c, GetSession(Invalidated, c))
  BY <1>1, InvalidatedIsSession, GetSessionGoesOn
<1>4. GoesOn(k, GetSession(Invalidated, c))
  BY <1>1, <1>3 DEF GoesOn
<1> QED
  BY <1>2, <1>4, FailGivesUp

LEMMA ListingAbsentEither ==
  ASSUME NEW s \in Sessions, NEW k, Busy(k), Placed(k), k.pc = "list"
  PROVE  GoesOn(k, ListingAbsent(s, k)) \/ GivesUp(ListingAbsent(s, k))
<1> DEFINE forgot == IF Head(k.tries) = k.preferred THEN [s EXCEPT !.mode = "none"] ELSE s
           c == [k EXCEPT !.tries = Tail(k.tries)]
<1>1. CASE Tail(k.tries) = <<>>
  BY <1>1, RaiseEither, InvalidatedIsSession DEF ListingAbsent
<1>2. CASE Tail(k.tries) # <<>>
  <2>1. ListingAbsent(s, k) = Request(forgot, c, "list")
    BY <1>2 DEF ListingAbsent
  <2>2. forgot \in Sessions
    BY DEF Sessions, Modes
  <2>3. k.tries \in TryLists \ {<<>>}
    BY DEF Busy, Placed, Calls
  <2>4. Tail(k.tries) \in TryLists
    BY <2>3 DEF TryLists
  <2>5. /\ Busy(c) /\ c.phase = k.phase /\ c.want = k.want /\ c.sid = k.sid
        /\ c.tries = Tail(k.tries)
    BY <2>4 DEF Busy, Calls
  <2> HIDE DEF c, forgot
  <2>6. GoesOn(c, Request(forgot, c, "list"))
    BY <1>2, <2>2, <2>5, RequestGoesOn DEF Pcs, Placed
  <2> QED
    BY <2>1, <2>5, <2>6 DEF GoesOn
<1> QED
  BY <1>1, <1>2

LEMMA ModeFoundIsSession ==
  ASSUME NEW s \in Sessions, NEW k, Busy(k), Placed(k), k.pc = "list"
  PROVE  ModeFound(s, k) \in Sessions
<1>1. k.tries \in TryLists \ {<<>>}
  BY DEF Busy, Placed, Calls
<1>2. Head(k.tries) \in Modes
  BY <1>1 DEF TryLists, Modes
<1> QED
  BY <1>2 DEF ModeFound, Sessions

-----------------------------------------------------------------------------
(* The answers of the box: what a call makes of one is either to go on, or *)
(* to end with an answer that the client may give.                         *)

Moves(t, step) ==
  /\ step.session \in Sessions
  /\ \/ /\ Busy(step.call) /\ Placed(step.call) /\ step.call.want = task[t].want
        /\ Late(task[t]) => Late(step.call)
     \/ \E a \in Client!Answers(ClientCall[t]) : step.call = Idle(a)

MovesOn(t) == \E step : Answered(t, step) /\ Moves(t, step)

\* What the steps of a call start from
LEMMA CallFacts ==
  ASSUME IInv, NEW t \in Task
  PROVE  /\ task[t] \in Calls /\ WellFormed(task[t]) /\ Accounted(task[t], history[t])
         /\ history[t] \in Histories /\ session \in Sessions /\ vpn \in VpnStates
         /\ task \in [Task -> Calls] /\ history \in [Task -> Histories]
         /\ ~At(t, "idle") => Busy(task[t]) /\ Placed(task[t])
BY DEF IInv, Typed, WellFormed, At

LEMMA EitherMoves ==
  ASSUME IInv, NEW t \in Task, task[t].pc \notin {"idle", "put_taken", "put_lost", "delay"},
         NEW k, k.want = task[t].want, task[t].phase = "verify" => k.phase = "verify",
         NEW step, GoesOn(k, step) \/ GivesUp(step)
  PROVE  Moves(t, step)
<1>1. {"outage", "denied", "false"} \subseteq Client!Answers(ClientCall[t])
  BY DEF Client!Answers, Client!Failures
<1> QED
  BY <1>1 DEF Moves, GoesOn, GivesUp, Late

LEMMA RequestMoves ==
  ASSUME IInv, NEW t \in Task, task[t].pc \notin {"idle", "put_taken", "put_lost", "delay"},
         NEW s \in Sessions, NEW k, Busy(k), k.want = task[t].want, k.phase = task[t].phase,
         NEW pc \in {"page", "post"}
  PROVE  Moves(t, Request(s, k, pc))
<1>1. GoesOn(k, Request(s, k, pc))
  BY RequestGoesOn DEF Pcs
<1> QED
  BY <1>1, EitherMoves

LEMMA RaiseMoves ==
  ASSUME IInv, NEW t \in Task, task[t].pc \notin {"idle", "put_taken", "put_lost", "delay"},
         NEW s \in Sessions, NEW k, Busy(k), k.want = task[t].want, k.phase = task[t].phase,
         NEW error
  PROVE  Moves(t, Raise(s, k, error)) /\ Moves(t, TransportError(s, k))
<1>1. Moves(t, Raise(s, k, error))
  BY RaiseEither, EitherMoves
<1>2. Moves(t, Raise(Invalidated, k, "transport"))
  BY InvalidatedIsSession, RaiseEither, EitherMoves
<1> QED
  BY <1>1, <1>2 DEF TransportError

LEMMA SendResponseMovesOn ==
  ASSUME IInv, NEW t \in Task, task[t].pc \in {"page", "page_http"},
         NEW s \in Sessions, NEW k, Busy(k), k.want = task[t].want, k.phase = task[t].phase,
         SendResponse(t, s, k)
  PROVE  MovesOn(t)
<1>1. CASE Answered(t, Request(s, k, "post"))
  BY <1>1, RequestMoves DEF MovesOn
<1> DEFINE c == [k EXCEPT !.pc = "blocked"]
<1>2. CASE Answered(t, Step(s, c))
  <2>1. Busy(c) /\ Placed(c) /\ c.want = k.want /\ c.phase = k.phase
    BY DEF Busy, Placed, Calls, Pcs
  <2>2. Step(s, c).session = s /\ Step(s, c).call = c
    BY DEF Step
  <2> HIDE DEF c
  <2>3. Moves(t, Step(s, c))
    BY <2>1, <2>2 DEF Moves, Late
  <2> QED
    BY <1>2, <2>3 DEF MovesOn
<1> QED
  BY <1>1, <1>2 DEF SendResponse

LEMMA NoChallengeMoves ==
  ASSUME IInv, NEW t \in Task, task[t].pc \in {"page", "page_http"},
         NEW s \in Sessions, NEW k, Busy(k), k.want = task[t].want, k.phase = task[t].phase
  PROVE  Moves(t, NoChallenge(s, k))
<1> DEFINE c == [k EXCEPT !.v2 = FALSE]
<1>1. Busy(c) /\ c.want = k.want /\ c.phase = k.phase
  BY DEF Busy, Calls
<1>2. NoChallenge(s, k) = IF k.v2 THEN Request(s, c, "page") ELSE Raise(s, k, "parse")
  BY DEF NoChallenge
<1> HIDE DEF c
<1> QED
  BY <1>1, <1>2, RequestMoves, RaiseMoves

\* The page over HTTPS gives way to the one over HTTP.
LEMMA PageHttpIsPlace ==
  ASSUME IInv, NEW t \in Task, task[t].pc \in {"page", "page_http"},
         NEW s \in Sessions, NEW c \in Calls, c.pc = "page_http", c.answer = "none",
         c.want = task[t].want, c.phase = task[t].phase
  PROVE  Moves(t, Step(s, c))
<1>1. Busy(task[t])
  BY CallFacts DEF At
<1>2. Busy(c) /\ Placed(c)
  BY <1>1 DEF Busy, Placed
<1>3. Step(s, c).session = s /\ Step(s, c).call = c
  BY DEF Step
<1> QED
  BY <1>2, <1>3 DEF Moves, Late

LEMMA PageMovesOn ==
  ASSUME IInv, NEW t \in Task, Page(t)
  PROVE  MovesOn(t)
<1> DEFINE k == task[t]
<1>1. Busy(k) /\ session \in Sessions /\ k.pc = "page" /\ k \in Calls
  BY CallFacts DEF Page, At
<1>2. CASE SendResponse(t, session, k)
  BY <1>1, <1>2, SendResponseMovesOn
<1>3. CASE Answered(t, NoChallenge(session, k))
  BY <1>1, <1>3, NoChallengeMoves DEF MovesOn
<1>4. CASE Answered(t, Raise(session, k, "transport"))
  BY <1>1, <1>4, RaiseMoves DEF MovesOn
<1>5. ASSUME NEW outcome, Answered(t, Step(session, PageFallback(k, outcome)))
      PROVE  MovesOn(t)
  <2> DEFINE c == PageFallback(k, outcome)
  <2>1. c \in Calls /\ c.pc = "page_http" /\ c.answer = "none" /\ c.want = k.want
        /\ c.phase = k.phase
    BY <1>1 DEF PageFallback, Calls, Pcs, Protocols, Busy
  <2> HIDE DEF c
  <2> QED
    BY <1>1, <1>5, <2>1, PageHttpIsPlace DEF MovesOn, c
<1> QED
  BY <1>2, <1>3, <1>4, <1>5 DEF Page

LEMMA PageHttpMovesOn ==
  ASSUME IInv, NEW t \in Task, PageHttp(t)
  PROVE  MovesOn(t)
<1> DEFINE k == [task[t] EXCEPT !.again = FALSE]
<1>1. Busy(task[t]) /\ session \in Sessions /\ task[t].pc = "page_http" /\ task[t] \in Calls
  BY CallFacts DEF PageHttp, At
<1>2. Busy(k) /\ k.pc = "page_http" /\ k.want = task[t].want /\ k.phase = task[t].phase
  BY <1>1 DEF Busy, Calls
<1>3. PICK outcome : 
        LET s == SwitchedOnSuccess(session, outcome)
        IN \/ SendResponse(t, s, k)
           \/ Answered(t, NoChallenge(s, k))
           \/ Answered(t, Raise(s, k, "transport"))
           \/ Answered(t, Step(s, k))
  BY DEF PageHttp
<1> DEFINE s == SwitchedOnSuccess(session, outcome)
<1>4. s \in Sessions
  BY <1>1 DEF SwitchedOnSuccess, Sessions, Protocols
<1> HIDE DEF k, s
<1>5. CASE SendResponse(t, s, k)
  BY <1>1, <1>2, <1>4, <1>5, SendResponseMovesOn
<1>6. CASE Answered(t, NoChallenge(s, k))
  BY <1>1, <1>2, <1>4, <1>6, NoChallengeMoves DEF MovesOn
<1>7. CASE Answered(t, Raise(s, k, "transport"))
  BY <1>1, <1>2, <1>4, <1>7, RaiseMoves DEF MovesOn
<1>8. CASE Answered(t, Step(s, k))
  BY <1>1, <1>2, <1>4, <1>8, PageHttpIsPlace DEF MovesOn, Busy
<1> QED
  BY <1>3, <1>5, <1>6, <1>7, <1>8 DEF s

LEMMA UnblockedMovesOn ==
  ASSUME IInv, NEW t \in Task, Unblocked(t)
  PROVE  MovesOn(t)
<1>1. Busy(task[t]) /\ session \in Sessions /\ task[t].pc = "blocked"
  BY CallFacts DEF Unblocked, At
<1> QED
  BY <1>1, RequestMoves DEF MovesOn, Unblocked

LEMMA PostMovesOn ==
  ASSUME IInv, NEW t \in Task, Post(t)
  PROVE  MovesOn(t)
<1> DEFINE k == task[t]
           good == [session EXCEPT !.sid = "good"]
           c == [k EXCEPT !.v2 = FALSE]
<1>1. Busy(k) /\ session \in Sessions /\ k.pc = "post" /\ k \in Calls
  BY CallFacts DEF Post, At
<1>2. good \in Sessions /\ good.sid # "none"
  BY <1>1 DEF Sessions, Sids
<1>3. Busy(c) /\ c.want = k.want /\ c.phase = k.phase
  BY <1>1 DEF Busy, Calls
<1>4. \/ Answered(t, WithSid(good, k))
      \/ Answered(t, TransportError(session, k))
      \/ Answered(t, Request(session, c, "page"))
      \/ \E error : Answered(t, Raise(session, k, error))
  BY DEF Post
<1> HIDE DEF good, c
<1>5. Moves(t, WithSid(good, k))
  BY <1>1, <1>2, WithSidGoesOn, EitherMoves
<1>6. Moves(t, TransportError(session, k)) /\ \A error : Moves(t, Raise(session, k, error))
  BY <1>1, RaiseMoves
<1>7. Moves(t, Request(session, c, "page"))
  BY <1>1, <1>3, RequestMoves
<1> QED
  BY <1>4, <1>5, <1>6, <1>7 DEF MovesOn

\* A listing ends a poll with what the box has, and a toggle if the VPN is as wanted.
LEMMA ListedMoves ==
  ASSUME IInv, NEW t \in Task, task[t].pc = "list", NEW s \in Sessions
  PROVE  Moves(t, Listed(s, task[t], vpn))
<1> DEFINE k == task[t]
           c == [k EXCEPT !.phase = "put", !.attempt = 1]
<1>1. Busy(k) /\ k \in Calls /\ vpn \in history[t].seen
      /\ ClientCall[t].want = k.want /\ ClientCall[t].seen = history[t].seen
  BY CallFacts DEF At, Accounted, ClientCall
<1>2. ASSUME NEW a \in Client!Answers(ClientCall[t])
      PROVE  Moves(t, Step(s, Idle(a)))
  BY DEF Moves, Step
<1>3. CASE k.want = "list"
  <2>1. vpn \in Client!Answers(ClientCall[t])
    BY <1>1, <1>3 DEF Client!Answers
  <2> QED
    BY <1>2, <1>3, <2>1 DEF Listed
<1>4. CASE k.want # "list" /\ vpn = k.want
  <2>1. "true" \in Client!Answers(ClientCall[t])
    BY <1>1, <1>4 DEF Client!Answers
  <2> QED
    BY <1>2, <1>4, <2>1 DEF Listed
<1>5. CASE k.want # "list" /\ vpn # k.want /\ (vpn = "gone" \/ k.phase = "verify")
  <2>1. "false" \in Client!Answers(ClientCall[t])
    BY DEF Client!Answers, Client!Failures
  <2> QED
    BY <1>2, <1>5, <2>1 DEF Listed
<1>6. CASE k.want # "list" /\ vpn # k.want /\ vpn # "gone" /\ k.phase # "verify"
  <2>1. Busy(c) /\ c.want = k.want
    BY <1>1, <1>6 DEF Busy, Calls
  <2>2. Listed(s, k, vpn) = GetSession(s, c)
    BY <1>6 DEF Listed
  <2> HIDE DEF c
  <2> QED
    BY <1>6, <2>1, <2>2, GetSessionGoesOn, EitherMoves
<1> QED
  BY <1>3, <1>4, <1>5, <1>6

LEMMA ListMovesOn ==
  ASSUME IInv, NEW t \in Task, List(t)
  PROVE  MovesOn(t)
<1> DEFINE k == task[t]
<1>1. Busy(k) /\ Placed(k) /\ session \in Sessions /\ k.pc = "list"
  BY CallFacts DEF List, At
<1>2. Moves(t, Listed(ModeFound(session, k), k, vpn))
  BY <1>1, ModeFoundIsSession, ListedMoves
<1>3. Moves(t, ListingAbsent(session, k))
  BY <1>1, ListingAbsentEither, EitherMoves
<1>4. Moves(t, TransportError(session, k)) /\ \A error : Moves(t, Raise(session, k, error))
  BY <1>1, RaiseMoves
<1> QED
  BY <1>2, <1>3, <1>4 DEF List, MovesOn

\* The PUT failed: only a 403 starts the toggle again, and the box did not switch then.
LEMMA PutFailedMovesOn ==
  ASSUME IInv, NEW t \in Task, At(t, "put") \/ At(t, "put_lost"), NEW outcome,
         outcome = "forbidden" => At(t, "put"), PutFailed(t, outcome)
  PROVE  MovesOn(t)
<1> DEFINE k == task[t]
           c == [k EXCEPT !.sid_retry = FALSE, !.phase = "first"]
<1>1. Busy(k) /\ Placed(k) /\ k \in Calls /\ session \in Sessions
  BY CallFacts DEF At
<1>2. CASE RetryPut(k, outcome)
  <2>1. Answered(t, GetSession(Invalidated, c)) /\ k.pc = "put"
    BY <1>2 DEF PutFailed, RetryPut, At
  <2>2. Busy(c) /\ c.want = k.want /\ k.phase = "put"
    BY <1>1, <2>1 DEF Busy, Calls, Placed
  <2> HIDE DEF c
  <2>3. Moves(t, GetSession(Invalidated, c))
    BY <2>1, <2>2, InvalidatedIsSession, GetSessionGoesOn, EitherMoves
  <2> QED
    BY <2>1, <2>3 DEF MovesOn
<1>3. CASE ~RetryPut(k, outcome)
  <2>1. Answered(t, Step(session, Idle("false")))
    BY <1>3 DEF PutFailed
  <2>2. "false" \in Client!Answers(ClientCall[t])
    BY DEF Client!Answers, Client!Failures
  <2>3. Moves(t, Step(session, Idle("false")))
    BY <1>1, <2>2 DEF Moves, Step
  <2> QED
    BY <2>1, <2>3 DEF MovesOn
<1> QED
  BY <1>2, <1>3

LEMMA AfterPutMovesOn ==
  ASSUME IInv, NEW t \in Task, PutAnswered(t) \/ Verify(t)
  PROVE  MovesOn(t)
<1> DEFINE k == task[t]
<1>1. Busy(k) /\ Placed(k) /\ k \in Calls /\ session \in Sessions
      /\ k.phase = "put" /\ k.want # "list"
  BY CallFacts DEF At, PutAnswered, Verify, Placed, Busy
<1>2. CASE PutAnswered(t)
  <2> DEFINE c == [NoRequest(k) EXCEPT !.pc = "delay", !.attempt = 1]
  <2>1. Busy(c) /\ c.want = k.want /\ c.phase = k.phase /\ c.pc = "delay"
    BY <1>1, TriesAreLists DEF NoRequest, Busy, Calls, Pcs, Protocols, Sids, Modes
  <2>2. Step(session, c).session = session /\ Step(session, c).call = c
    BY DEF Step
  <2>3. Answered(t, Step(session, c))
    BY <1>2 DEF PutAnswered
  <2> HIDE DEF c
  <2>4. Moves(t, Step(session, c))
    BY <1>1, <2>1, <2>2 DEF Moves, Placed, Late
  <2> QED
    BY <2>3, <2>4 DEF MovesOn
<1>3. CASE Verify(t)
  <2> DEFINE c == [k EXCEPT !.phase = "verify"]
  <2>1. Busy(c) /\ c.want = k.want /\ c.phase = "verify"
    BY <1>1 DEF Busy, Calls
  <2>2. Answered(t, GetSession(session, c))
    BY <1>3 DEF Verify
  <2> HIDE DEF c
  <2>3. GoesOn(c, GetSession(session, c))
    BY <1>1, <2>1, GetSessionGoesOn
  <2>4. Moves(t, GetSession(session, c))
    BY <2>1, <2>3 DEF Moves, GoesOn, Late
  <2> QED
    BY <2>2, <2>4 DEF MovesOn
<1> QED
  BY <1>2, <1>3

\* Every step of a call but the one that switches
LEMMA CallMovesOn ==
  ASSUME IInv, NEW t \in Task, CallStep(t)
  PROVE  PutTaken(t) \/ (~At(t, "idle") /\ MovesOn(t))
<1>1. ~At(t, "idle")
  BY DEF CallStep, At, Unblocked, Page, PageHttp, Post, List, PutTaken, PutRejected,
     PutAnswered, PutLost, Verify
<1>2. CASE PutRejected(t) \/ PutLost(t)
  BY <1>1, <1>2, PutFailedMovesOn DEF PutRejected, PutLost
<1>3. CASE PutAnswered(t) \/ Verify(t)
  BY <1>1, <1>3, AfterPutMovesOn
<1>4. CASE Unblocked(t) \/ Page(t) \/ PageHttp(t)
  BY <1>1, <1>4, UnblockedMovesOn, PageMovesOn, PageHttpMovesOn
<1>5. CASE Post(t) \/ List(t)
  BY <1>1, <1>5, PostMovesOn, ListMovesOn
<1> QED
  BY <1>1, <1>2, <1>3, <1>4, <1>5 DEF CallStep

-----------------------------------------------------------------------------
(* The invariant                                                           *)

LEMMA MovesOnKeepsInv ==
  ASSUME IInv, NEW t \in Task, ~At(t, "idle"), MovesOn(t)
  PROVE  IInv'
<1>1. PICK step : Answered(t, step) /\ Moves(t, step)
  BY DEF MovesOn
<1> DEFINE k == step.call
           h == IF k.pc = "idle" THEN Unwatched ELSE history[t]
<1>2. /\ session' = step.session /\ task' = [task EXCEPT ![t] = k] /\ box' = box /\ vpn' = vpn
      /\ history' = [history EXCEPT ![t] = IF k.pc = "idle" THEN Unwatched ELSE @]
  BY <1>1 DEF Answered, Continue
<1>3. /\ task[t] \in Calls /\ history[t] \in Histories /\ vpn \in history[t].seen
      /\ vpn \in VpnStates /\ history[t].switches <= 1
      /\ ~Late(task[t]) => history[t].switches = 0
  BY CallFacts DEF Accounted, At
<1>4. k \in Calls /\ WellFormed(k) /\ Accounted(k, h)
  <2>1. CASE Busy(k) /\ Placed(k) /\ (Late(task[t]) => Late(k))
    BY <1>3, <2>1 DEF WellFormed, Accounted, Busy, Placed
  <2>2. CASE \E a \in Client!Answers(ClientCall[t]) : k = Idle(a)
    <3>1. PICK a \in Client!Answers(ClientCall[t]) : k = Idle(a)
      BY <2>2
    <3>2. a \in Answers
      BY <1>3 DEF Client!Answers, Client!Failures, ClientCall, Answers, Histories, VpnStates
    <3>3. Idle(a) \in Calls
      BY <3>2, TriesAreLists DEF Idle, Calls, Pcs, Protocols, Sids, Modes
    <3> QED
      BY <3>1, <3>2, <3>3 DEF Idle, WellFormed, Accounted, Unwatched
  <2> QED
    BY <1>1, <2>1, <2>2 DEF Moves
<1>5. h \in Histories
  BY <1>3 DEF Unwatched, Histories
<1>6. /\ task' = [task EXCEPT ![t] = k] /\ history' = [history EXCEPT ![t] = h]
  BY <1>2
<1> HIDE DEF k, h
<1>7. Typed'
  BY <1>1, <1>2, <1>4, <1>5, <1>6 DEF IInv, Typed, Moves
<1>8. ASSUME NEW u \in Task
      PROVE  WellFormed(task[u])' /\ Accounted(task[u], history[u])'
  <2>1. /\ task'[u] = IF u = t THEN k ELSE task[u]
        /\ history'[u] = IF u = t THEN h ELSE history[u]
    BY <1>6, CallFacts
  <2> QED
    BY <1>2, <1>4, <2>1 DEF IInv, WellFormed, Accounted
<1> QED
  BY <1>7, <1>8 DEF IInv

\* A history in which the running calls have seen the VPN, and switched it as before
WitnessedBy(state, h) ==
  /\ h \in [Task -> Histories]
  /\ \A u \in Task :
       h[u].seen = IF At(u, "idle") THEN history[u].seen ELSE history[u].seen \union {state}

LEMMA WitnessedFacts ==
  ASSUME IInv, NEW state \in VpnStates
  PROVE  /\ WitnessedBy(state, Witnessed(state, history))
         /\ \A u \in Task : Witnessed(state, history)[u].switches = history[u].switches
BY CallFacts DEF WitnessedBy, Witnessed, Histories

LEMMA DisturbedFacts ==
  ASSUME NEW h \in [Task -> Histories]
  PROVE  /\ Disturbed(h) \in [Task -> Histories]
         /\ \A u \in Task : /\ Disturbed(h)[u].seen = h[u].seen
                            /\ Disturbed(h)[u].switches = h[u].switches
BY DEF Disturbed, Histories

LEMMA PutTakenFacts ==
  ASSUME IInv, NEW t \in Task, PutTaken(t)
  PROVE  /\ vpn' \in VpnStates /\ WitnessedBy(vpn', history')
         /\ \A u \in Task : history'[u].switches =
              IF u = t THEN history[u].switches + 1 ELSE history[u].switches
<1>1. vpn' \in VpnStates
  BY CallFacts DEF PutTaken, Calls, At, Busy, Placed, VpnStates
<1> DEFINE g == Witnessed(vpn', history)
<1>2. WitnessedBy(vpn', g) /\ \A u \in Task : g[u].switches = history[u].switches
  BY <1>1, WitnessedFacts
<1>3. PICK pc :
        history' = [u \in Task |->
          LET h == g[u] IN
          IF u = t THEN [h EXCEPT !.switches = @ + 1, !.calm = @ /\ pc = "put_taken"]
          ELSE [h EXCEPT !.calm = @ /\ (vpn' = vpn \/ At(u, "idle"))]]
  BY DEF PutTaken
<1> HIDE DEF g
<1>4. ASSUME NEW u \in Task
      PROVE  /\ history'[u] \in Histories /\ history'[u].seen = g[u].seen
             /\ history'[u].switches = IF u = t THEN g[u].switches + 1 ELSE g[u].switches
  <2>1. g[u] \in Histories
    BY <1>2 DEF WitnessedBy
  <2> DEFINE calm == IF u = t THEN g[u].calm /\ pc = "put_taken"
                     ELSE g[u].calm /\ (vpn' = vpn \/ At(u, "idle"))
  <2>2. history'[u] = IF u = t THEN [g[u] EXCEPT !.switches = @ + 1, !.calm = calm]
                      ELSE [g[u] EXCEPT !.calm = calm]
    BY <1>3
  <2>3. calm \in BOOLEAN
    OBVIOUS
  <2> HIDE DEF calm
  <2>4. CASE u = t
    <3>1. history'[u] = [g[u] EXCEPT !.switches = g[u].switches + 1, !.calm = calm]
      BY <2>2, <2>4
    <3>2. g[u].switches + 1 \in Nat
      BY <2>1 DEF Histories
    <3> QED
      BY <2>1, <2>3, <2>4, <3>1, <3>2 DEF Histories
  <2>5. CASE u # t
    <3>1. history'[u] = [g[u] EXCEPT !.calm = calm]
      BY <2>2, <2>5
    <3> QED
      BY <2>1, <2>3, <2>5, <3>1 DEF Histories
  <2> QED
    BY <2>4, <2>5
<1>5. history' \in [Task -> Histories]
  BY <1>3, <1>4
<1> QED
  BY <1>1, <1>2, <1>4, <1>5 DEF WitnessedBy

\* The PUT is past a call's first switch, and a call gets there once.
LEMMA PutTakenKeepsInv ==
  ASSUME IInv, NEW t \in Task, PutTaken(t)
  PROVE  IInv'
<1>1. PICK pc \in {"put_taken", "put_lost"} : task' = [task EXCEPT ![t].pc = pc]
  BY DEF PutTaken
<1>2. UNCHANGED <<session, box>> /\ vpn' \in VpnStates /\ WitnessedBy(vpn', history')
      /\ \A u \in Task : history'[u].switches =
           IF u = t THEN history[u].switches + 1 ELSE history[u].switches
  BY PutTakenFacts DEF PutTaken
<1>3. /\ task[t] \in Calls /\ Busy(task[t]) /\ task[t].phase = "put"
      /\ task[t].pc = "put" /\ history[t].switches = 0
  BY CallFacts DEF PutTaken, At, Placed, Late, Accounted
<1>4. task'[t] = [task[t] EXCEPT !.pc = pc] /\ \A u \in Task \ {t} : task'[u] = task[u]
  BY <1>1, CallFacts
<1>5. task'[t] \in Calls /\ Busy(task'[t]) /\ Placed(task'[t]) /\ Late(task'[t])
  BY <1>3, <1>4 DEF Calls, Busy, Placed, Late, Pcs
<1>6. Typed'
  <2>1. task' \in [Task -> Calls]
    BY <1>1, <1>5, CallFacts
  <2> QED
    BY <1>2, <2>1 DEF IInv, Typed, WitnessedBy
<1>7. ASSUME NEW u \in Task
      PROVE  WellFormed(task[u])' /\ Accounted(task[u], history[u])'
  <2>1. CASE u = t
    <3>1. history'[t].switches = 1
      BY <1>2, <1>3
    <3>2. vpn' \in history'[t].seen
      BY <1>2, <1>3 DEF WitnessedBy, At
    <3>3. WellFormed(task'[t]) /\ task'[t].pc # "idle"
      BY <1>5 DEF WellFormed, Placed
    <3> QED
      BY <1>5, <2>1, <3>1, <3>2, <3>3 DEF Accounted, WellFormed, Late, Busy, Placed
  <2>2. CASE u # t
    <3>1. task'[u] = task[u] /\ history'[u].switches = history[u].switches
      BY <1>2, <1>4, <2>2
    <3> QED
      BY <1>2, <3>1, CallFacts DEF WitnessedBy, WellFormed, Accounted, At
  <2> QED
    BY <2>1, <2>2
<1> QED
  BY <1>6, <1>7 DEF IInv

LEMMA BeginKeepsInv ==
  ASSUME IInv, NEW t \in Task, NEW want \in {"list"} \union Wants, Begin(t, want)
  PROVE  /\ IInv'
         /\ task'[t].want = want /\ task'[t].answer = "none"
         /\ \A u \in Task \ {t} : task'[u] = task[u] /\ history'[u] = history[u]
         /\ history'[t].seen = {vpn} /\ history'[t].switches = 0
<1> DEFINE c == [task[t] EXCEPT !.want = want, !.answer = "none"]
           step == GetSession(session, c)
           h == [Unwatched EXCEPT !.seen = {vpn}, !.wrong = ~box.login]
<1>1. /\ task[t] \in Calls /\ WellFormed(task[t]) /\ task[t].pc = "idle"
      /\ session \in Sessions /\ vpn \in VpnStates /\ want \in {"list", "on", "off"}
  BY CallFacts, WantsAssumption DEF Begin, At
<1>2. Busy(c) /\ c.want = want
  BY <1>1 DEF Busy, Calls, WellFormed
<1>3. /\ session' = step.session /\ task' = [task EXCEPT ![t] = step.call]
      /\ history' = [history EXCEPT ![t] = h] /\ UNCHANGED <<box, vpn>>
  BY DEF Begin, Continue
<1>4. h \in Histories /\ h.seen = {vpn} /\ h.switches = 0
  BY <1>1 DEF Unwatched, Histories
<1> HIDE DEF c, h
<1>5. /\ step.session \in Sessions /\ Busy(step.call) /\ Placed(step.call)
      /\ step.call.want = want /\ step.call \in Calls
  BY <1>1, <1>2, GetSessionGoesOn DEF GoesOn, Busy
<1> HIDE DEF step
<1>6. task'[t] = step.call /\ history'[t] = h
      /\ \A u \in Task \ {t} : task'[u] = task[u] /\ history'[u] = history[u]
  BY <1>3, CallFacts
<1>7. Typed'
  BY <1>3, <1>4, <1>5 DEF IInv, Typed
<1>8. ASSUME NEW u \in Task
      PROVE  WellFormed(task[u])' /\ Accounted(task[u], history[u])'
  <2>1. CASE u = t
    BY <1>3, <1>4, <1>5, <1>6, <2>1 DEF WellFormed, Accounted, Placed
  <2>2. CASE u # t
    BY <1>3, <1>6, <2>2 DEF IInv, WellFormed, Accounted
  <2> QED
    BY <2>1, <2>2
<1> QED
  BY <1>4, <1>5, <1>6, <1>7, <1>8 DEF IInv, Busy

\* A step of the box or its user leaves what a call and the session are about.
LEMMA OutsideKeepsInv ==
  ASSUME IInv, box' \in Boxes, vpn' \in VpnStates, history' \in [Task -> Histories],
         UNCHANGED <<session, task>> \/ SidsForgotten,
         \A u \in Task : /\ history'[u].switches = history[u].switches
                         /\ history[u].seen \subseteq history'[u].seen
                         /\ At(u, "idle") => history'[u].seen = history[u].seen
                         /\ ~At(u, "idle") => vpn' \in history'[u].seen
  PROVE  /\ IInv'
         /\ \A u \in Task : task'[u].want = task[u].want /\ task'[u].answer = task[u].answer
<1>1. session' \in Sessions
  BY CallFacts DEF SidsForgotten, Sessions, Stale, Sids, IInv, Typed
<1>2. ASSUME NEW u \in Task
      PROVE  task'[u] = task[u] \/ task'[u] = [task[u] EXCEPT !.sid = Stale(@)]
  BY <1>2 DEF SidsForgotten
<1>3. ASSUME NEW u \in Task
      PROVE  /\ task'[u] \in Calls /\ WellFormed(task'[u])
             /\ task'[u].want = task[u].want /\ task'[u].answer = task[u].answer
             /\ task'[u].pc = task[u].pc /\ task'[u].phase = task[u].phase
  <2>1. task[u] \in Calls /\ WellFormed(task[u])
    BY CallFacts
  <2>2. Stale(task[u].sid) \in Sids /\ (task[u].sid # "none" => Stale(task[u].sid) # "none")
    BY <2>1 DEF Stale, Sids, Calls
  <2>3. /\ task'[u] \in Calls /\ task'[u].want = task[u].want /\ task'[u].answer = task[u].answer
        /\ task'[u].pc = task[u].pc /\ task'[u].phase = task[u].phase
        /\ task'[u].attempt = task[u].attempt /\ task'[u].sid_retry = task[u].sid_retry
        /\ task'[u].tries = task[u].tries
        /\ task[u].sid # "none" => task'[u].sid # "none"
    BY <1>2, <2>1, <2>2 DEF Calls
  <2>4. WellFormed(task'[u])
    BY <2>1, <2>3 DEF WellFormed, Busy, Placed
  <2> QED
    BY <2>3, <2>4
<1>4. task' \in [Task -> Calls]
  <2>1. CASE task' = task
    BY <2>1 DEF IInv, Typed
  <2>2. CASE SidsForgotten
    <3>1. task' = [u \in Task |-> [task[u] EXCEPT !.sid = Stale(@)]]
      BY <2>2 DEF SidsForgotten
    <3> QED
      BY <1>3, <3>1
  <2> QED
    BY <2>1, <2>2
<1>5. Typed'
  BY <1>1, <1>4 DEF Typed
<1>6. ASSUME NEW u \in Task
      PROVE  WellFormed(task[u])' /\ Accounted(task[u], history[u])'
  BY <1>3, CallFacts DEF WellFormed, Accounted, At, Late
<1> QED
  BY <1>3, <1>5, <1>6 DEF IInv

LEMMA EnvironmentFacts ==
  ASSUME IInv, Environment
  PROVE  /\ box' \in Boxes /\ vpn' \in VpnStates /\ history' \in [Task -> Histories]
         /\ UNCHANGED <<session, task>> \/ SidsForgotten
         /\ \A u \in Task :
              /\ history'[u].switches = history[u].switches
              /\ history'[u].seen = IF UserChanges /\ ~At(u, "idle")
                                    THEN history[u].seen \union {vpn'} ELSE history[u].seen
         /\ vpn' = vpn \/ UserChanges
<1>1. box \in Boxes /\ vpn \in VpnStates /\ history \in [Task -> Histories]
  BY DEF IInv, Typed
<1>2. \A n \in 0..MaxEvents : n < MaxEvents => n + 1 \in 0..MaxEvents
  BY MaxEventsAssumption
<1>3. /\ Disturbed(history) \in [Task -> Histories]
      /\ \A u \in Task : /\ Disturbed(history)[u].seen = history[u].seen
                         /\ Disturbed(history)[u].switches = history[u].switches
  BY <1>1, DisturbedFacts
<1>4. CASE GoesDown \/ SidsExpire
  <2>1. box' \in Boxes
    BY <1>1, <1>2, <1>4 DEF GoesDown, SidsExpire, Disturb, Counted, Boxes
  <2>2. vpn' = vpn /\ SidsForgotten /\ history' = Disturbed(history)
    BY <1>4 DEF GoesDown, SidsExpire, Disturb
  <2>3. ~UserChanges \/ vpn' # vpn
    BY DEF UserChanges
  <2> QED
    BY <1>1, <1>3, <2>1, <2>2, <2>3
<1>5. CASE Boots \/ ComesUp
  <2>1. box' \in Boxes
    BY <1>1, <1>5 DEF Boots, ComesUp, Boxes
  <2>2. vpn' = vpn /\ UNCHANGED <<session, task>> /\ history' = Disturbed(history)
    BY <1>5 DEF Boots, ComesUp
  <2>3. ~UserChanges \/ vpn' # vpn
    BY DEF UserChanges
  <2> QED
    BY <1>1, <1>3, <2>1, <2>2, <2>3
<1>6. CASE PasswordChanges
  <2>1. box' \in Boxes
    BY <1>1, <1>2, <1>6 DEF PasswordChanges, Counted, Boxes
  <2>2. vpn' = vpn /\ UNCHANGED <<session, task>>
    BY <1>6 DEF PasswordChanges
  <2>3. ASSUME NEW u \in Task
        PROVE  /\ history'[u] \in Histories
               /\ history'[u].seen = history[u].seen
               /\ history'[u].switches = history[u].switches
    BY <1>1, <1>6 DEF PasswordChanges, Histories
  <2>4. history' \in [Task -> Histories]
    BY <1>6, <2>3 DEF PasswordChanges
  <2>5. ~UserChanges \/ vpn' # vpn
    BY DEF UserChanges
  <2> QED
    BY <1>1, <2>1, <2>2, <2>3, <2>4, <2>5
<1>7. CASE UserChanges
  <2>1. box' \in Boxes
    BY <1>1, <1>2, <1>7 DEF UserChanges, Counted, Boxes
  <2>2. vpn' \in VpnStates /\ UNCHANGED <<session, task>>
        /\ history' = Disturbed(Witnessed(vpn', history))
    BY <1>7 DEF UserChanges, VpnStates
  <2> DEFINE g == Witnessed(vpn', history)
  <2>3. /\ WitnessedBy(vpn', g) /\ \A u \in Task : g[u].switches = history[u].switches
    BY <2>2, WitnessedFacts
  <2> HIDE DEF g
  <2>4. /\ Disturbed(g) \in [Task -> Histories]
        /\ \A u \in Task : /\ Disturbed(g)[u].seen = g[u].seen
                           /\ Disturbed(g)[u].switches = g[u].switches
    BY <2>3, DisturbedFacts DEF WitnessedBy
  <2>5. history' = Disturbed(g)
    BY <2>2 DEF g
  <2> QED
    BY <1>7, <2>1, <2>2, <2>3, <2>4, <2>5 DEF WitnessedBy
<1> QED
  BY <1>4, <1>5, <1>6, <1>7 DEF Environment

LEMMA EnvironmentKeepsInv ==
  ASSUME IInv, Environment
  PROVE  /\ IInv'
         /\ \A u \in Task : task'[u].want = task[u].want /\ task'[u].answer = task[u].answer
<1>1. \A u \in Task : ~At(u, "idle") => vpn \in history[u].seen
  BY CallFacts DEF Accounted, At
<1>2. \A u \in Task : /\ history'[u].switches = history[u].switches
                      /\ history[u].seen \subseteq history'[u].seen
                      /\ At(u, "idle") => history'[u].seen = history[u].seen
                      /\ ~At(u, "idle") => vpn' \in history'[u].seen
  BY <1>1, EnvironmentFacts
<1> QED
  BY <1>2, EnvironmentFacts, OutsideKeepsInv

LEMMA NextKeepsInv ==
  ASSUME IInv, [Next]_vars
  PROVE  IInv'
<1>1. ASSUME NEW t \in Task, CallStep(t)
      PROVE  IInv'
  BY <1>1, CallMovesOn, MovesOnKeepsInv, PutTakenKeepsInv
<1>2. CASE UNCHANGED vars
  BY <1>2 DEF vars, IInv, Typed, WellFormed, Busy, Placed, Accounted, Late
<1> QED
  BY <1>1, <1>2, BeginKeepsInv, EnvironmentKeepsInv DEF Next

\* The invariant of the session's steps: what a call has done to the VPN, and what it
\* has seen of it, never exceeds what its place in the code accounts for.
THEOREM InvHolds == Spec => []IInv
BY InitEstablishesInv, NextKeepsInv, PTL DEF Spec

\* TypeOK in every execution: a listing is always requested with a SID and a mode to
\* try, however polls and toggles drop the SID and the mode they share.
THEOREM TypeCorrect == Spec => []TypeOK
BY InvHolds, InvImpliesTypeOK, PTL

-----------------------------------------------------------------------------
(* The refinement: Begin starts a call of the client, PutTaken switches, a *)
(* call that ends returns, the user interferes; every other step stutters. *)

\* The call of one task, as VpnClient sees it
CallOf(k, h) == [want |-> k.want, seen |-> h.seen, switches |-> h.switches, answer |-> k.answer]

LEMMA ClientCallIs ==
  /\ ClientCall = [t \in Task |-> CallOf(task[t], history[t])]
  /\ ClientCall' = [t \in Task |-> CallOf(task'[t], history'[t])]
BY DEF ClientCall, CallOf

LEMMA RunningIs ==
  ASSUME IInv, NEW t \in Task
  PROVE  /\ ClientCall[t].answer = "none" <=> ~At(t, "idle")
         /\ Client!Running(t) <=> ~At(t, "idle")
<1>1. WellFormed(task[t]) /\ ClientCall[t].answer = task[t].answer
  BY CallFacts DEF ClientCall
<1> QED
  BY <1>1 DEF WellFormed, Busy, At, Answers, Client!Running

\* A step that only one call notices
LEMMA OneCallChanges ==
  ASSUME IInv, NEW t \in Task,
         \A u \in Task \ {t} : task'[u] = task[u] /\ history'[u] = history[u]
  PROVE  ClientCall' = [ClientCall EXCEPT ![t] = CallOf(task'[t], history'[t])]
BY DEF ClientCall, CallOf

LEMMA MovesOnReturns ==
  ASSUME IInv, NEW t \in Task, ~At(t, "idle"), MovesOn(t)
  PROVE  Client!Return(t) \/ UNCHANGED <<vpn, ClientCall>>
<1>1. PICK step : Answered(t, step) /\ Moves(t, step)
  BY DEF MovesOn
<1> DEFINE k == step.call
<1>2. /\ vpn' = vpn /\ task' = [task EXCEPT ![t] = k]
      /\ history' = [history EXCEPT ![t] = IF k.pc = "idle" THEN Unwatched ELSE @]
  BY <1>1 DEF Answered, Continue
<1>3. /\ task'[t] = k /\ history'[t] = IF k.pc = "idle" THEN Unwatched ELSE history[t]
      /\ \A u \in Task \ {t} : task'[u] = task[u] /\ history'[u] = history[u]
  BY <1>2, CallFacts
<1>4. ClientCall' = [ClientCall EXCEPT ![t] = CallOf(task'[t], history'[t])]
  BY <1>3, OneCallChanges
<1>5. CASE Busy(k) /\ Placed(k) /\ k.want = task[t].want
  <2>1. Busy(task[t])
    BY CallFacts
  <2>2. CallOf(task'[t], history'[t]) = ClientCall[t]
    BY <1>3, <1>5, <2>1 DEF CallOf, ClientCall, Busy, Placed
  <2>3. ClientCall' = ClientCall
    BY <1>4, <2>2 DEF ClientCall
  <2> QED
    BY <1>2, <2>3
<1>6. CASE \E a \in Client!Answers(ClientCall[t]) : k = Idle(a)
  <2>1. PICK a \in Client!Answers(ClientCall[t]) : k = Idle(a)
    BY <1>6
  <2>2. CallOf(task'[t], history'[t]) = Client!Idle(a)
    BY <1>3, <2>1 DEF CallOf, Idle, Unwatched, Client!Idle
  <2> QED
    BY <1>2, <1>4, <2>1, <2>2, RunningIs DEF Client!Return
<1> QED
  BY <1>1, <1>5, <1>6 DEF Moves

\* The calls as they were, but for the switches
SameButSwitches(calls) ==
  \A u \in Task : calls[u] = [want |-> task[u].want, seen |-> history[u].seen,
                              switches |-> history'[u].switches, answer |-> task[u].answer]

\* The step shows the VPN to the running calls, and changes no more of them.
ShowsVpn ==
  \A u \in Task : /\ task'[u].want = task[u].want /\ task'[u].answer = task[u].answer
                  /\ history'[u].seen = IF At(u, "idle") THEN history[u].seen
                                        ELSE history[u].seen \union {vpn'}

LEMMA WitnessedMaps ==
  ASSUME IInv, NEW calls, SameButSwitches(calls), ShowsVpn
  PROVE  ClientCall' = Client!Witnessed(vpn', calls)
<1>1. ASSUME NEW u \in Task
      PROVE  CallOf(task'[u], history'[u]) =
               IF calls[u].answer = "none" THEN [calls[u] EXCEPT !.seen = @ \union {vpn'}] ELSE calls[u]
  <2> DEFINE c == calls[u]
  <2>1. c = [want |-> task[u].want, seen |-> history[u].seen,
             switches |-> history'[u].switches, answer |-> task[u].answer]
    BY DEF SameButSwitches
  <2>2. task'[u].want = task[u].want /\ task'[u].answer = task[u].answer
    BY DEF ShowsVpn
  <2> HIDE DEF c
  <2>3. c.answer = "none" <=> ~At(u, "idle")
    <3>1. ClientCall[u].answer = task[u].answer /\ c.answer = task[u].answer
      BY <2>1 DEF ClientCall
    <3> QED
      BY <3>1, RunningIs
  <2>4. CASE At(u, "idle")
    <3>1. history'[u].seen = history[u].seen
      BY <2>4 DEF ShowsVpn
    <3>2. CallOf(task'[u], history'[u]) = c
      BY <2>1, <2>2, <3>1 DEF CallOf
    <3> QED
      BY <2>3, <2>4, <3>2 DEF c
  <2>5. CASE ~At(u, "idle")
    <3>1. history'[u].seen = history[u].seen \union {vpn'}
      BY <2>5 DEF ShowsVpn
    <3>2. CallOf(task'[u], history'[u]) = [c EXCEPT !.seen = @ \union {vpn'}]
      BY <2>1, <2>2, <3>1 DEF CallOf
    <3> QED
      BY <2>3, <2>5, <3>2 DEF c
  <2> QED
    BY <2>4, <2>5
<1> QED
  BY <1>1, ClientCallIs DEF Client!Witnessed

LEMMA PutTakenSwitches ==
  ASSUME IInv, NEW t \in Task, PutTaken(t)
  PROVE  Client!Switch(t)
<1>1. /\ ~At(t, "idle") /\ task[t] \in Calls /\ vpn # "gone" /\ vpn' = task[t].want
      /\ task[t].want # "list" /\ history[t].switches = 0
  BY CallFacts DEF PutTaken, At, Busy, Placed, Late, Accounted
<1>2. ASSUME NEW u \in Task
      PROVE  task'[u].want = task[u].want /\ task'[u].answer = task[u].answer
  <2>1. PICK pc : task' = [task EXCEPT ![t].pc = pc]
    BY DEF PutTaken
  <2>2. task'[u] = IF u = t THEN [task[u] EXCEPT !.pc = pc] ELSE task[u]
    BY <2>1, CallFacts
  <2>3. task[u] \in Calls
    BY CallFacts
  <2> QED
    BY <2>2, <2>3 DEF Calls
<1> DEFINE calls == [ClientCall EXCEPT ![t].switches = @ + 1]
<1>3. ASSUME NEW u \in Task
      PROVE  calls[u] = [want |-> task[u].want, seen |-> history[u].seen,
                         switches |-> history'[u].switches, answer |-> task[u].answer]
  <2>1. history'[u].switches = IF u = t THEN history[u].switches + 1 ELSE history[u].switches
    BY PutTakenFacts
  <2> QED
    BY <2>1 DEF ClientCall
<1> HIDE DEF calls
<1>4. SameButSwitches(calls)
  BY <1>3 DEF SameButSwitches
<1>5. ShowsVpn
  BY <1>2, PutTakenFacts DEF WitnessedBy, ShowsVpn
<1>6. ClientCall' = Client!Witnessed(vpn', calls)
  BY <1>4, <1>5, WitnessedMaps
<1>7. /\ Client!Running(t) /\ ClientCall[t].want = task[t].want /\ ClientCall[t].switches = 0
  BY <1>1, RunningIs DEF ClientCall
<1> QED
  BY <1>1, <1>6, <1>7 DEF Client!Switch, calls

LEMMA BeginStarts ==
  ASSUME IInv, NEW t \in Task, NEW want \in {"list"} \union Wants, Begin(t, want)
  PROVE  Client!Start(t, want)
<1>1. /\ task'[t].want = want /\ task'[t].answer = "none"
      /\ \A u \in Task \ {t} : task'[u] = task[u] /\ history'[u] = history[u]
      /\ history'[t].seen = {vpn} /\ history'[t].switches = 0
  BY BeginKeepsInv
<1>2. At(t, "idle") /\ vpn' = vpn
  BY DEF Begin
<1>3. CallOf(task'[t], history'[t]) = [want |-> want, seen |-> {vpn}, switches |-> 0, answer |-> "none"]
  BY <1>1 DEF CallOf
<1> QED
  BY <1>1, <1>2, <1>3, OneCallChanges, RunningIs DEF Client!Start

LEMMA OutsideInterferes ==
  ASSUME IInv, Environment
  PROVE  Client!Interfere \/ UNCHANGED <<vpn, ClientCall>>
<1>1. \A u \in Task : task'[u].want = task[u].want /\ task'[u].answer = task[u].answer
  BY EnvironmentKeepsInv
<1>2. CASE UserChanges
  <2>1. \A u \in Task : history'[u].switches = history[u].switches
    BY EnvironmentFacts
  <2>2. SameButSwitches(ClientCall) /\ ShowsVpn
    BY <1>1, <1>2, <2>1, EnvironmentFacts DEF ClientCall, SameButSwitches, ShowsVpn
  <2>3. ClientCall' = Client!Witnessed(vpn', ClientCall)
    BY <2>2, WitnessedMaps
  <2>4. vpn' \in VpnStates
    BY EnvironmentFacts
  <2> QED
    BY <2>3, <2>4 DEF Client!Interfere, Client!VpnStates, VpnStates
<1>3. CASE ~UserChanges
  <2>1. vpn' = vpn /\ \A u \in Task : /\ history'[u].switches = history[u].switches
                                      /\ history'[u].seen = history[u].seen
    BY <1>3, EnvironmentFacts
  <2>2. ClientCall' = ClientCall
    BY <1>1, <2>1 DEF ClientCall
  <2> QED
    BY <2>1, <2>2
<1> QED
  BY <1>2, <1>3

LEMMA InitMaps == Init => Client!Init
<1> SUFFICES ASSUME Init PROVE Client!Init
  OBVIOUS
<1>1. \A t \in Task : CallOf(task[t], history[t]) = Client!Idle("outage")
  BY DEF Init, CallOf, Idle, Unwatched, Client!Idle
<1>2. ClientCall = [t \in Task |-> Client!Idle("outage")]
  BY <1>1, ClientCallIs
<1> QED
  BY <1>2 DEF Init, Client!Init, Client!VpnStates

LEMMA NextMaps ==
  ASSUME IInv, [Next]_vars
  PROVE  [Client!Next]_<<vpn, ClientCall>>
<1>1. ASSUME NEW t \in Task, NEW want \in {"list"} \union Wants, Begin(t, want)
      PROVE  Client!Next
  <2>1. want \in {"list", "on", "off"}
    BY WantsAssumption
  <2> QED
    BY <1>1, <2>1, BeginStarts DEF Client!Next
<1>2. ASSUME NEW t \in Task, CallStep(t)
      PROVE  Client!Next \/ UNCHANGED <<vpn, ClientCall>>
  BY <1>2, CallMovesOn, MovesOnReturns, PutTakenSwitches DEF Client!Next
<1>3. CASE Environment
  BY <1>3, OutsideInterferes DEF Client!Next
<1>4. CASE UNCHANGED vars
  BY <1>4 DEF vars, ClientCall
<1> QED
  BY <1>1, <1>2, <1>3, <1>4 DEF Next

\* KeepsClientContract in every execution: however many toggles share the session with
\* the poll, a listing is one the box had while the call ran, "true" means that the VPN
\* was as wanted, and a toggle switches it once at most, though a 403 makes it start again.
THEOREM Implements == Spec => KeepsClientContract
<1>1. Init => Client!Init
  BY InitMaps
<1>2. IInv /\ [Next]_vars => [Client!Next]_<<vpn, ClientCall>>
  BY NextMaps
<1> QED
  BY <1>1, <1>2, InvHolds, PTL DEF Spec, KeepsClientContract, Client!Spec
-----------------------------------------------------------------------------
(* A call that nobody disturbs on a box that is up.  Two more facts hold   *)
(* of the session.  On a box without HTTPS, as long as no two calls have   *)
(* overlapped, every request after the login page goes over HTTP, because  *)
(* a SID is only ever got there.  And the one stale SID that a calm call   *)
(* may meet is the one it has found, before its retry.                     *)

\* Where a call is logging in
Logins == {"page", "page_http", "blocked", "post"}

SidOverHttp(s) == s.sid # "none" => s.protocol = "http"
OverHttp(s, k) ==
  /\ k.pc \in {"blocked", "post", "list", "put"} => s.protocol = "http"
  /\ k.pc \in {"page_http", "post", "list", "put"} => k.url = "http"
  /\ k.pc = "page" => k.url = s.protocol

Calm(s, k) ==
  /\ k.sid_retry /\ k.pc # "put_lost"
  /\ s.sid = "stale" \/ k.sid = "stale" =>
       k.pc = "list" /\ k.phase = "first" /\ k.attempt = 1 /\ k.sid = "stale"
  /\ k.pc = "list" => k.tries \in {<<"data_lua", "rest">>, <<"rest", "data_lua">>, <<box.firmware>>}
  /\ Late(k) => vpn = k.want

Alone == \A t, u \in Task : ~At(t, "idle") /\ ~At(u, "idle") => t = u

CInv ==
  /\ IInv
  /\ \A t \in Task : ~At(t, "idle") => (task[t].want = "list" <=> t = Poll)
  /\ ~box.https /\ ~raced =>
       /\ Alone /\ SidOverHttp(session)
       /\ \A t \in Task : OverHttp(session, task[t])
  /\ \A t \in Task : ~At(t, "idle") /\ Works(t) => Calm(session, task[t])

\* The answer a call on a working box should give
Right(t, answer) ==
  \/ answer = (IF t = Poll THEN vpn ELSE IF vpn = "gone" THEN "false" ELSE "true")
  \/ ~box.login /\ answer \in {"denied", "false"}

\* A call t that goes on as k, with the session s, keeps to all that.
Fares(t, s, k) ==
  /\ s.sid = "stale" => session.sid = "stale"
  /\ ~box.https /\ ~raced => SidOverHttp(s) /\ OverHttp(s, k)
  /\ Works(t) => IF k.pc = "idle" THEN Right(t, k.answer) ELSE Calm(s, k)

\* The call as it was, but for its place and its request
Alike(k, c) ==
  /\ c.want = k.want /\ c.phase = k.phase /\ c.attempt = k.attempt
  /\ c.sid_retry = k.sid_retry

-----------------------------------------------------------------------------
(* What the code between two requests makes of session and call            *)

LEMMA RequestIs ==
  ASSUME NEW s, NEW k \in Calls, NEW pc
  PROVE  /\ Request(s, k, pc).session = s
         /\ LET c == Request(s, k, pc).call IN
              Alike(k, c) /\ c.pc = pc /\ c.url = s.protocol /\ c.sid = k.sid /\ c.tries = k.tries
BY DEF Request, Step, Calls, Alike

LEMMA WithSidIs ==
  ASSUME NEW s, NEW k \in Calls
  PROVE  /\ WithSid(s, k).session = s
         /\ LET c == WithSid(s, k).call IN
            /\ Alike(k, c) /\ c.url = s.protocol /\ c.sid = s.sid
            /\ c.pc = IF k.phase = "put" THEN "put" ELSE "list"
            /\ c.pc = "list" => c.tries = Tries(s.mode)
BY DEF WithSid, Request, Step, Calls, Alike

LEMMA GetSessionIs ==
  ASSUME NEW s, NEW k \in Calls
  PROVE  /\ GetSession(s, k).session = s
         /\ LET c == GetSession(s, k).call IN
            /\ Alike(k, c) /\ c.url = s.protocol /\ c.sid = s.sid
            /\ c.pc = IF s.sid = "none" THEN "page" ELSE IF k.phase = "put" THEN "put" ELSE "list"
            /\ c.pc = "list" => c.tries = Tries(s.mode)
<1> DEFINE n == NoRequest(k)
<1>1. n \in Calls /\ Alike(k, n) /\ n.sid = "none" /\ n.phase = k.phase
  BY TriesAreLists DEF Calls, NoRequest, Protocols, Sids, Modes, Alike
<1>2. GetSession(s, k) = IF s.sid # "none" THEN WithSid(s, n) ELSE Request(s, n, "page")
  BY DEF GetSession
<1> HIDE DEF n
<1>3. CASE s.sid = "none"
  BY <1>1, <1>2, <1>3, RequestIs DEF Alike
<1>4. CASE s.sid # "none"
  BY <1>1, <1>2, <1>4, WithSidIs DEF Alike
<1> QED
  BY <1>3, <1>4

\* A call that gets a session is calm, and over HTTP, if there is no reason against it.
LEMMA GetSessionFares ==
  ASSUME NEW s, NEW k \in Calls
  PROVE  LET step == GetSession(s, k) IN
         /\ step.session = s /\ step.call.pc # "idle"
         /\ SidOverHttp(s) => OverHttp(s, step.call)
         /\ k.sid_retry /\ (s.sid = "stale" => k.phase = "first" /\ k.attempt = 1)
              /\ (k.phase = "verify" => vpn = k.want) => Calm(s, step.call)
<1> DEFINE c == GetSession(s, k).call
<1>1. /\ GetSession(s, k).session = s
      /\ Alike(k, c) /\ c.url = s.protocol /\ c.sid = s.sid
      /\ c.pc = IF s.sid = "none" THEN "page" ELSE IF k.phase = "put" THEN "put" ELSE "list"
      /\ c.pc = "list" => c.tries = Tries(s.mode)
  BY GetSessionIs
<1> HIDE DEF c
<1>2. SidOverHttp(s) => OverHttp(s, c)
  BY <1>1 DEF SidOverHttp, OverHttp
<1>3. ASSUME k.sid_retry, s.sid = "stale" => k.phase = "first" /\ k.attempt = 1,
             k.phase = "verify" => vpn = k.want
      PROVE  Calm(s, c)
  BY <1>1, <1>3 DEF Calm, Alike, Late, Tries
<1> QED
  BY <1>1, <1>2, <1>3 DEF c

LEMMA RaiseFares ==
  ASSUME NEW s, NEW k \in Calls, NEW error
  PROVE  LET step == Raise(s, k, error) IN
         /\ step.session.sid = "stale" => s.sid = "stale"
         /\ SidOverHttp(s) => SidOverHttp(step.session) /\ OverHttp(step.session, step.call)
         /\ k.sid_retry /\ (k.phase = "verify" => vpn = k.want)
              /\ (error = "refused" \/ (error = "invalid_sid" /\ k.phase # "put" /\ k.attempt = 1)) =>
              IF step.call.pc = "idle"
              THEN error = "refused" /\ step.call.answer \in {"denied", "false"}
              ELSE Calm(step.session, step.call)
<1> DEFINE step == Raise(s, k, error)
<1>1. Invalidated.sid = "none" /\ SidOverHttp(Invalidated)
  BY DEF Invalidated, SidOverHttp
<1>2. CASE k.phase # "put" /\ k.attempt = 1 /\ WorthARetry(error)
  <2> DEFINE c == Retried(k)
  <2>1. c \in Calls /\ c.want = k.want /\ c.phase = k.phase /\ c.sid_retry = k.sid_retry
    BY DEF Retried, Calls
  <2>2. step = GetSession(Invalidated, c)
    BY <1>2 DEF Raise
  <2> HIDE DEF c, step
  <2> QED
    BY <1>1, <2>1, <2>2, GetSessionFares DEF step
<1>3. CASE ~(k.phase # "put" /\ k.attempt = 1 /\ WorthARetry(error))
  <2>1. step = Fail(s, k, error)
    BY <1>3 DEF Raise
  <2>2. /\ step.session = s \/ step.session = Invalidated
        /\ step.call.pc = "idle"
        /\ error = "refused" => step.call.answer \in {"denied", "false"}
    BY <2>1 DEF Fail, Step, Idle, AnswerTo, Denials
  <2>3. error = "invalid_sid" => ~(k.phase # "put" /\ k.attempt = 1)
    BY <1>3 DEF WorthARetry
  <2> HIDE DEF step
  <2>4. OverHttp(step.session, step.call)
    BY <2>2 DEF OverHttp
  <2> QED
    BY <1>1, <2>2, <2>3, <2>4 DEF step
<1> QED
  BY <1>2, <1>3

-----------------------------------------------------------------------------
(* What it makes of an answer of the box                                   *)

FaresOn(t) == \E step : Answered(t, step) /\ Fares(t, step.session, step.call)

LEMMA CInvFacts ==
  ASSUME CInv, NEW t \in Task, ~At(t, "idle")
  PROVE  /\ Busy(task[t]) /\ Placed(task[t]) /\ task[t] \in Calls /\ session \in Sessions
         /\ box \in Boxes /\ (task[t].want = "list" <=> t = Poll)
         /\ ~box.https /\ ~raced => SidOverHttp(session) /\ OverHttp(session, task[t])
         /\ Works(t) => Calm(session, task[t])
BY CallFacts DEF CInv, IInv, Typed

\* Its requests get through: over HTTPS to a box that has it, or over HTTP.
LEMMA WorksReachable ==
  ASSUME CInv, NEW t \in Task, Works(t)
  PROVE  /\ ~Booting
         /\ task[t].pc \in {"page_http", "post", "list", "put"} =>
              Reachable(task[t].url) /\ Unanswered(task[t]) = {}
<1>1. box.power = "up" /\ ~raced /\ box \in Boxes
  BY DEF Works, CInv, IInv, Typed
<1>2. ~box.https => OverHttp(session, task[t])
  BY <1>1 DEF CInv, Boxes
<1> QED
  BY <1>1, <1>2 DEF Booting, Reachable, Unanswered, OverHttp

LEMMA LoginFares ==
  ASSUME CInv, NEW t \in Task, task[t].pc \in Logins,
         NEW s, s.sid = session.sid, NEW c, c.pc \in Logins,
         c.want = task[t].want, c.phase = task[t].phase, c.sid_retry = task[t].sid_retry,
         c.sid = task[t].sid,
         ~box.https /\ ~raced => OverHttp(s, c) /\ s.protocol \in {session.protocol, "http"}
  PROVE  Fares(t, s, c)
<1>1. /\ ~At(t, "idle")
      /\ ~box.https /\ ~raced => SidOverHttp(session)
      /\ Works(t) => Calm(session, task[t])
  BY CInvFacts DEF Logins, At
<1>2. Works(t) => Calm(s, c)
  BY <1>1 DEF Calm, Logins, Late
<1> QED
  BY <1>1, <1>2 DEF Fares, SidOverHttp, Logins

LEMMA LoginRaises ==
  ASSUME CInv, NEW t \in Task, task[t].pc \in Logins,
         NEW s, s.sid = session.sid, s.protocol \in {session.protocol, "http"},
         NEW k \in Calls, k.want = task[t].want, k.phase = task[t].phase,
         k.sid_retry = task[t].sid_retry,
         NEW error, Works(t) => error = "refused" /\ ~box.login
  PROVE  LET step == Raise(s, k, error) IN Fares(t, step.session, step.call)
<1>1. /\ ~box.https /\ ~raced => SidOverHttp(s)
      /\ Works(t) => Calm(session, task[t])
  BY CInvFacts DEF Logins, At, SidOverHttp
<1>2. Works(t) => k.sid_retry /\ (k.phase = "verify" => vpn = k.want)
  BY <1>1 DEF Calm, Late
<1> QED
  BY <1>1, <1>2, RaiseFares DEF Fares, Right

LEMMA SendResponseFares ==
  ASSUME CInv, NEW t \in Task, task[t].pc \in {"page", "page_http"},
         NEW s, s.sid = session.sid,
         ~box.https /\ ~raced => s.protocol = "http",
         NEW k \in Calls, k.want = task[t].want, k.phase = task[t].phase,
         k.sid_retry = task[t].sid_retry, k.sid = task[t].sid,
         SendResponse(t, s, k)
  PROVE  FaresOn(t)
<1>1. CASE Answered(t, Request(s, k, "post"))
  <2> DEFINE step == Request(s, k, "post")
  <2>1. step.session = s /\ Alike(k, step.call) /\ step.call.pc = "post"
        /\ step.call.url = s.protocol /\ step.call.sid = k.sid
    BY RequestIs
  <2> HIDE DEF step
  <2>2. ~box.https /\ ~raced => OverHttp(s, step.call)
    BY <2>1 DEF OverHttp
  <2>3. Fares(t, s, step.call)
    BY <2>1, <2>2, LoginFares DEF Logins, Alike
  <2> QED
    BY <1>1, <2>1, <2>3 DEF FaresOn, step
<1>2. CASE Answered(t, Step(s, [k EXCEPT !.pc = "blocked"]))
  <2> DEFINE c == [k EXCEPT !.pc = "blocked"]
  <2>1. c.pc = "blocked" /\ Alike(k, c) /\ c.sid = k.sid
    BY DEF Calls, Alike
  <2> HIDE DEF c
  <2>2. ~box.https /\ ~raced => OverHttp(s, c)
    BY <2>1 DEF OverHttp
  <2>3. Fares(t, s, c)
    BY <2>1, <2>2, LoginFares DEF Logins, Alike
  <2>4. Step(s, c).session = s /\ Step(s, c).call = c
    BY DEF Step
  <2>5. Answered(t, Step(s, c))
    BY <1>2 DEF c
  <2> QED
    BY <2>3, <2>4, <2>5 DEF FaresOn
<1> QED
  BY <1>1, <1>2 DEF SendResponse

LEMMA NoChallengeFares ==
  ASSUME CInv, NEW t \in Task, task[t].pc \in {"page", "page_http"},
         NEW s, s.sid = session.sid, s.protocol \in {session.protocol, "http"},
         NEW k \in Calls, k.want = task[t].want, k.phase = task[t].phase,
         k.sid_retry = task[t].sid_retry, k.sid = task[t].sid,
         Works(t) => k.v2
  PROVE  LET step == NoChallenge(s, k) IN Fares(t, step.session, step.call)
<1>1. CASE k.v2
  <2> DEFINE c == [k EXCEPT !.v2 = FALSE]
             step == Request(s, c, "page")
  <2>1. c \in Calls /\ Alike(k, c) /\ c.sid = k.sid
    BY DEF Calls, Alike
  <2> HIDE DEF c
  <2>2. step.session = s /\ Alike(c, step.call) /\ step.call.pc = "page"
        /\ step.call.url = s.protocol /\ step.call.sid = c.sid
    BY <2>1, RequestIs
  <2> HIDE DEF step
  <2>3. OverHttp(s, step.call)
    BY <2>2 DEF OverHttp
  <2>4. Fares(t, s, step.call)
    BY <2>1, <2>2, <2>3, LoginFares DEF Logins, Alike
  <2>5. NoChallenge(s, k) = step
    BY <1>1 DEF NoChallenge, step, c
  <2> QED
    BY <2>2, <2>4, <2>5
<1>2. CASE ~k.v2
  BY <1>2, LoginRaises DEF NoChallenge, Logins
<1> QED
  BY <1>1, <1>2

LEMMA PageFares ==
  ASSUME CInv, NEW t \in Task, Page(t)
  PROVE  FaresOn(t)
<1> DEFINE k == task[t]
<1>1. /\ ~At(t, "idle") /\ k.pc = "page" /\ k.pc \in Logins /\ k \in Calls
      /\ ~box.https /\ ~raced => k.url = session.protocol
      /\ session \in Sessions /\ box \in Boxes
  BY CInvFacts DEF Page, At, OverHttp, Logins
<1>2. PICK outcome \in PageOutcomes(k) :
       \/ outcome = "challenge" /\ SendResponse(t, session, k)
       \/ outcome = "no_challenge" /\ Answered(t, NoChallenge(session, k))
       \/ outcome = "dropped" /\ Answered(t, Raise(session, k, "transport"))
       \/ /\ outcome \in {"refused", "fallback_status", "status"}
          /\ IF session.protocol = "https"
             THEN Answered(t, Step(session, PageFallback(k, outcome)))
             ELSE Answered(t, Raise(session, k, "transport"))
  BY DEF Page
<1>3. /\ outcome \in {"challenge", "no_challenge"} => Reachable(k.url)
      /\ Works(t) /\ outcome = "no_challenge" => k.v2
      /\ Works(t) => outcome # "dropped"
      /\ Works(t) /\ outcome \in {"refused", "fallback_status", "status"} =>
           ~Reachable(k.url)
  BY <1>2, WorksReachable DEF PageOutcomes, Unanswered, Works, Booting
<1>4. ~box.https /\ ~raced /\ Reachable(k.url) => session.protocol = "http"
  BY <1>1 DEF Reachable, Sessions, Protocols
<1>5. Works(t) /\ ~Reachable(k.url) => session.protocol = "https"
  BY <1>1 DEF Works, Reachable, Boxes
<1>6. CASE SendResponse(t, session, k) /\ outcome = "challenge"
  BY <1>1, <1>3, <1>4, <1>6, SendResponseFares
<1>7. CASE outcome = "no_challenge" /\ Answered(t, NoChallenge(session, k))
  BY <1>1, <1>3, <1>7, NoChallengeFares DEF FaresOn
<1>8. CASE Answered(t, Raise(session, k, "transport")) /\ ~Works(t)
  BY <1>1, <1>8, LoginRaises DEF FaresOn
<1>9. CASE Answered(t, Step(session, PageFallback(k, outcome)))
  <2> DEFINE c == PageFallback(k, outcome)
  <2>1. c.pc = "page_http" /\ Alike(k, c) /\ c.sid = k.sid /\ c.url = "http"
    BY <1>1 DEF PageFallback, Calls, Alike
  <2> HIDE DEF c
  <2>2. OverHttp(session, c)
    BY <2>1 DEF OverHttp
  <2>3. Fares(t, session, c)
    BY <1>1, <2>1, <2>2, LoginFares DEF Logins, Alike
  <2>4. Step(session, c).session = session /\ Step(session, c).call = c
    BY DEF Step
  <2>5. Answered(t, Step(session, c))
    BY <1>9 DEF c
  <2> QED
    BY <2>3, <2>4, <2>5 DEF FaresOn
<1> QED
  BY <1>2, <1>3, <1>5, <1>6, <1>7, <1>8, <1>9

LEMMA PageHttpFares ==
  ASSUME CInv, NEW t \in Task, PageHttp(t)
  PROVE  FaresOn(t)
<1> DEFINE k == [task[t] EXCEPT !.again = FALSE]
<1>1. /\ ~At(t, "idle") /\ task[t].pc = "page_http" /\ task[t].pc \in Logins /\ task[t] \in Calls
      /\ ~box.https /\ ~raced => task[t].url = "http"
      /\ session \in Sessions
  BY CInvFacts DEF PageHttp, At, OverHttp, Logins
<1>2. /\ k \in Calls /\ Alike(task[t], k) /\ k.sid = task[t].sid /\ k.v2 = task[t].v2
      /\ k.pc = "page_http" /\ k.url = task[t].url
  BY <1>1 DEF Calls, Alike
<1>3. PICK outcome \in PageOutcomes(task[t]) :
       LET s == SwitchedOnSuccess(session, outcome)
       IN \/ outcome = "challenge" /\ SendResponse(t, s, k)
          \/ outcome = "no_challenge" /\ Answered(t, NoChallenge(s, k))
          \/ outcome = "dropped" /\ Answered(t, Raise(s, k, "transport"))
          \/ /\ outcome \in {"refused", "fallback_status", "status"}
             /\ IF task[t].again /\ session.protocol = "https"
                THEN Answered(t, Step(s, k))
                ELSE Answered(t, Raise(s, k, "transport"))
  BY DEF PageHttp
<1> DEFINE s == SwitchedOnSuccess(session, outcome)
<1>4. /\ s.sid = session.sid /\ s.protocol \in {session.protocol, "http"}
      /\ outcome = "challenge" => s.protocol = "http"
  BY <1>1 DEF SwitchedOnSuccess, Sessions
<1>5. /\ Works(t) => outcome \in {"challenge", "no_challenge"}
      /\ Works(t) /\ outcome = "no_challenge" => k.v2
  BY <1>1, <1>2, <1>3, WorksReachable DEF PageOutcomes
<1> HIDE DEF k, s
<1>6. CASE outcome = "challenge" /\ SendResponse(t, s, k)
  BY <1>1, <1>2, <1>4, <1>6, SendResponseFares DEF Alike
<1>7. CASE outcome = "no_challenge" /\ Answered(t, NoChallenge(s, k))
  BY <1>1, <1>2, <1>4, <1>5, <1>7, NoChallengeFares DEF FaresOn, Alike
<1>8. CASE Answered(t, Raise(s, k, "transport")) /\ ~Works(t)
  BY <1>1, <1>2, <1>4, <1>8, LoginRaises DEF FaresOn, Alike
<1>9. CASE Answered(t, Step(s, k)) /\ ~Works(t)
  <2>1. ~box.https /\ ~raced => OverHttp(s, k)
    BY <1>1, <1>2 DEF OverHttp
  <2>2. Fares(t, s, k)
    BY <1>1, <1>2, <1>4, <2>1, LoginFares DEF Logins, Alike
  <2>3. Step(s, k).session = s /\ Step(s, k).call = k
    BY DEF Step
  <2> QED
    BY <1>9, <2>2, <2>3 DEF FaresOn
<1> QED
  BY <1>3, <1>5, <1>6, <1>7, <1>8, <1>9 DEF s

LEMMA UnblockedFares ==
  ASSUME CInv, NEW t \in Task, Unblocked(t)
  PROVE  FaresOn(t)
<1> DEFINE step == Request(session, task[t], "post")
<1>1. /\ ~At(t, "idle") /\ task[t].pc = "blocked" /\ task[t] \in Calls
      /\ ~box.https /\ ~raced => session.protocol = "http"
  BY CInvFacts DEF Unblocked, At, OverHttp
<1>2. step.session = session /\ Alike(task[t], step.call) /\ step.call.pc = "post"
      /\ step.call.url = session.protocol /\ step.call.sid = task[t].sid
  BY <1>1, RequestIs
<1>3. Answered(t, step)
  BY DEF Unblocked
<1> HIDE DEF step
<1>4. ~box.https /\ ~raced => OverHttp(session, step.call)
  BY <1>1, <1>2 DEF OverHttp
<1>5. Fares(t, session, step.call)
  BY <1>1, <1>2, <1>4, LoginFares DEF Logins, Alike
<1> QED
  BY <1>2, <1>3, <1>5 DEF FaresOn

LEMMA PostFares ==
  ASSUME CInv, NEW t \in Task, Post(t)
  PROVE  FaresOn(t)
<1> DEFINE k == task[t]
           good == [session EXCEPT !.sid = "good"]
           c == [k EXCEPT !.v2 = FALSE]
<1>1. /\ ~At(t, "idle") /\ k.pc = "post" /\ k.pc \in Logins /\ k \in Calls
      /\ ~box.https /\ ~raced => session.protocol = "http"
      /\ session \in Sessions
      /\ Works(t) => Calm(session, k)
  BY CInvFacts DEF Post, At, OverHttp, Logins
<1>2. PICK outcome \in LoginOutcomes(k) :
       \/ outcome = "sid" /\ Answered(t, WithSid(good, k))
       \/ outcome = "refused" /\ Answered(t, TransportError(session, k))
       \/ outcome = "dropped" /\ Answered(t, Raise(session, k, "transport"))
       \/ /\ outcome \in {"status", "no_sid"} /\ k.v2
          /\ Answered(t, Request(session, c, "page"))
       \/ outcome = "status" /\ ~k.v2 /\ Answered(t, Raise(session, k, "login_status"))
       \/ outcome = "no_sid" /\ ~k.v2 /\ Answered(t, Raise(session, k, "refused"))
  BY DEF Post
<1>3. Works(t) => outcome = "sid" \/ (outcome = "no_sid" /\ ~box.login)
  BY <1>1, <1>2, WorksReachable DEF LoginOutcomes
<1>4. good.sid = "good" /\ good.protocol = session.protocol
  BY <1>1 DEF Sessions
<1>5. c \in Calls /\ Alike(k, c) /\ c.sid = k.sid
  BY <1>1 DEF Calls, Alike
<1> HIDE DEF good, c
<1>6. CASE Answered(t, WithSid(good, k))
  <2> DEFINE step == WithSid(good, k)
  <2>1. /\ step.session = good /\ Alike(k, step.call)
        /\ step.call.url = good.protocol /\ step.call.sid = good.sid
        /\ step.call.pc = IF k.phase = "put" THEN "put" ELSE "list"
        /\ step.call.pc = "list" => step.call.tries = Tries(good.mode)
    BY <1>1, WithSidIs
  <2> HIDE DEF step
  <2>2. ~box.https /\ ~raced => SidOverHttp(good) /\ OverHttp(good, step.call)
    BY <1>1, <1>4, <2>1 DEF SidOverHttp, OverHttp
  <2>3. Works(t) => Calm(good, step.call)
    BY <1>1, <1>4, <2>1 DEF Calm, Alike, Late, Tries
  <2>4. Fares(t, good, step.call)
    BY <1>4, <2>1, <2>2, <2>3 DEF Fares
  <2> QED
    BY <1>6, <2>1, <2>4 DEF FaresOn, step
<1>7. CASE ~Works(t) /\ Answered(t, TransportError(session, k))
  <2> DEFINE step == Raise(Invalidated, k, "transport")
  <2>1. Invalidated.sid = "none" /\ SidOverHttp(Invalidated)
    BY DEF Invalidated, SidOverHttp
  <2>2. Fares(t, step.session, step.call)
    BY <1>1, <1>7, <2>1, RaiseFares DEF Fares
  <2> QED
    BY <1>7, <2>2 DEF TransportError, FaresOn
<1>8. CASE Answered(t, Request(session, c, "page"))
  <2> DEFINE step == Request(session, c, "page")
  <2>1. step.session = session /\ Alike(c, step.call) /\ step.call.pc = "page"
        /\ step.call.url = session.protocol /\ step.call.sid = c.sid
    <3>1. c \in Calls
      BY <1>5
    <3> QED
      BY <3>1, RequestIs
  <2> HIDE DEF step
  <2>2. OverHttp(session, step.call)
    BY <2>1 DEF OverHttp
  <2>3. Fares(t, session, step.call)
    BY <1>1, <1>5, <2>1, <2>2, LoginFares DEF Logins, Alike
  <2> QED
    BY <1>8, <2>1, <2>3 DEF FaresOn, step
<1>9. ASSUME NEW error, Answered(t, Raise(session, k, error)),
             Works(t) => error = "refused" /\ ~box.login
      PROVE  FaresOn(t)
  BY <1>1, <1>9, LoginRaises DEF FaresOn
<1> QED
  BY <1>2, <1>3, <1>6, <1>7, <1>8, <1>9

\* A listing gives a calm call the right answer, or a toggle its PUT.
LEMMA ListedFares ==
  ASSUME CInv, NEW t \in Task, At(t, "list"), Works(t) => task[t].sid = "good",
         NEW s, s.sid = session.sid, s.protocol = session.protocol
  PROVE  LET step == Listed(s, task[t], vpn) IN Fares(t, step.session, step.call)
<1> DEFINE k == task[t]
           c == [k EXCEPT !.phase = "put", !.attempt = 1]
           step == Listed(s, k, vpn)
<1>1. /\ ~At(t, "idle") /\ k.pc = "list" /\ k \in Calls /\ Busy(k)
      /\ ~box.https /\ ~raced => SidOverHttp(session)
      /\ Works(t) => Calm(session, k)
      /\ k.want = "list" <=> t = Poll
  BY CInvFacts DEF At
<1>2. k.want \in {"list", "on", "off"}
  BY <1>1 DEF Calls
<1>3. ASSUME NEW answer, step = Step(s, Idle(answer)), Works(t) => Right(t, answer)
      PROVE  Fares(t, step.session, step.call)
  <2>1. step.session = s /\ step.call.pc = "idle" /\ step.call.answer = answer
    BY <1>3 DEF Step, Idle
  <2> HIDE DEF step
  <2> QED
    BY <1>1, <1>3, <2>1 DEF Fares, SidOverHttp, OverHttp
<1>4. CASE k.want = "list"
  <2>1. step = Step(s, Idle(vpn))
    BY <1>4 DEF Listed
  <2>2. Right(t, vpn)
    BY <1>1, <1>4 DEF Right
  <2> QED
    BY <1>3, <2>1, <2>2
<1>5. CASE k.want # "list" /\ vpn = k.want
  <2>1. step = Step(s, Idle("true"))
    BY <1>5 DEF Listed
  <2>2. Right(t, "true")
    BY <1>1, <1>2, <1>5 DEF Right
  <2> QED
    BY <1>3, <2>1, <2>2
<1>6. CASE k.want # "list" /\ vpn # k.want /\ (vpn = "gone" \/ k.phase = "verify")
  <2>1. step = Step(s, Idle("false"))
    BY <1>6 DEF Listed
  <2>2. Works(t) => vpn = "gone"
    BY <1>1, <1>6 DEF Calm, Late
  <2>3. Works(t) => Right(t, "false")
    BY <1>1, <1>6, <2>2 DEF Right
  <2> QED
    BY <1>3, <2>1, <2>3
<1>7. CASE k.want # "list" /\ vpn # k.want /\ vpn # "gone" /\ k.phase # "verify"
  <2>1. step = GetSession(s, c)
    BY <1>7 DEF Listed
  <2>2. c \in Calls /\ c.phase = "put" /\ c.sid_retry = k.sid_retry
    BY <1>1 DEF Calls
  <2> HIDE DEF c, step
  <2>3. Works(t) => k.sid_retry /\ s.sid # "stale"
    BY <1>1 DEF Calm
  <2>4. /\ step.session = s /\ step.call.pc # "idle"
        /\ SidOverHttp(s) => OverHttp(s, step.call)
        /\ Works(t) => Calm(s, step.call)
    BY <2>1, <2>2, <2>3, GetSessionFares
  <2> QED
    BY <1>1, <2>4 DEF Fares, SidOverHttp, step
<1> QED
  BY <1>4, <1>5, <1>6, <1>7

\* One mode is absent: the one that is left is the box's.
LEMMA ListingAbsentFares ==
  ASSUME CInv, NEW t \in Task, At(t, "list"),
         Works(t) => task[t].sid = "good" /\ Head(task[t].tries) # box.firmware
  PROVE  LET step == ListingAbsent(session, task[t]) IN Fares(t, step.session, step.call)
<1> DEFINE k == task[t]
           forgot == IF Head(k.tries) = k.preferred THEN [session EXCEPT !.mode = "none"] ELSE session
           c == [k EXCEPT !.tries = Tail(k.tries)]
<1>1. /\ ~At(t, "idle") /\ k.pc = "list" /\ k \in Calls /\ k.sid # "none" /\ session \in Sessions
      /\ ~box.https /\ ~raced => SidOverHttp(session) /\ OverHttp(session, k)
      /\ Works(t) => Calm(session, k)
      /\ box.firmware \in {"data_lua", "rest"}
  BY CInvFacts DEF At, Placed, Boxes, Modes
<1>2. Works(t) => Tail(k.tries) = <<box.firmware>>
  <2> SUFFICES ASSUME Works(t) PROVE Tail(k.tries) = <<box.firmware>>
    OBVIOUS
  <2>1. k.tries \in {<<"data_lua", "rest">>, <<"rest", "data_lua">>, <<box.firmware>>}
    BY <1>1 DEF Calm
  <2>2. Head(<<"data_lua", "rest">>) = "data_lua" /\ Tail(<<"data_lua", "rest">>) = <<"rest">>
    OBVIOUS
  <2>3. Head(<<"rest", "data_lua">>) = "rest" /\ Tail(<<"rest", "data_lua">>) = <<"data_lua">>
    OBVIOUS
  <2>4. Head(<<box.firmware>>) = box.firmware
    OBVIOUS
  <2> QED
    BY <1>1, <2>1, <2>2, <2>3, <2>4
<1>3. CASE Tail(k.tries) = <<>>
  <2>1. ~Works(t)
    <3>1. <<box.firmware>> # <<>>
      OBVIOUS
    <3> QED
      BY <1>2, <1>3, <3>1
  <2>2. Invalidated.sid = "none" /\ SidOverHttp(Invalidated)
    BY DEF Invalidated, SidOverHttp
  <2>3. ListingAbsent(session, k) = Raise(Invalidated, k, "transport")
    BY <1>3 DEF ListingAbsent
  <2> QED
    BY <1>1, <2>1, <2>2, <2>3, RaiseFares DEF Fares
<1>4. CASE Tail(k.tries) # <<>>
  <2> DEFINE step == Request(forgot, c, "list")
  <2>1. forgot.sid = session.sid /\ forgot.protocol = session.protocol
    BY <1>1 DEF Sessions
  <2>2. Tail(k.tries) \in TryLists
    <3>1. k.tries \in TryLists \ {<<>>}
      BY <1>1, CInvFacts DEF Placed, Calls
    <3> QED
      BY <3>1 DEF TryLists
  <2>3. c \in Calls /\ Alike(k, c) /\ c.sid = k.sid /\ c.tries = Tail(k.tries)
    BY <1>1, <2>2 DEF Calls, Alike
  <2> HIDE DEF forgot, c
  <2>4. /\ step.session = forgot /\ Alike(c, step.call) /\ step.call.pc = "list"
        /\ step.call.url = forgot.protocol /\ step.call.sid = c.sid /\ step.call.tries = c.tries
    <3>1. c \in Calls
      BY <2>3
    <3> QED
      BY <3>1, RequestIs
  <2> HIDE DEF step
  <2>5. ~box.https /\ ~raced => SidOverHttp(forgot) /\ OverHttp(forgot, step.call)
    BY <1>1, <2>1, <2>4 DEF SidOverHttp, OverHttp
  <2>6. Works(t) => Calm(forgot, step.call)
    BY <1>1, <1>2, <2>1, <2>3, <2>4 DEF Calm, Alike, Late
  <2>7. ListingAbsent(session, k) = step
    BY <1>4 DEF ListingAbsent, step, c, forgot
  <2> QED
    BY <2>1, <2>4, <2>5, <2>6, <2>7 DEF Fares
<1> QED
  BY <1>3, <1>4

LEMMA ListFares ==
  ASSUME CInv, NEW t \in Task, List(t)
  PROVE  FaresOn(t)
<1> DEFINE k == task[t]
<1>1. /\ ~At(t, "idle") /\ At(t, "list") /\ k.pc = "list" /\ k \in Calls
      /\ k.phase # "put" /\ k.sid # "none" /\ session \in Sessions
      /\ ~box.https /\ ~raced => SidOverHttp(session)
      /\ Works(t) => Calm(session, k)
  BY CInvFacts DEF List, At, Placed
<1>2. PICK outcome \in ListOutcomes(k) :
       \/ outcome = "listing" /\ Answered(t, Listed(ModeFound(session, k), k, vpn))
       \/ outcome = "dropped" /\ Answered(t, Raise(session, k, "transport"))
       \/ outcome = "absent" /\ Answered(t, ListingAbsent(session, k))
       \/ outcome = "invalid_sid" /\ Answered(t, Raise(session, k, "invalid_sid"))
       \/ outcome \in {"refused", "status"} /\ Answered(t, TransportError(session, k))
  BY DEF List
<1>3. Works(t) => \/ outcome = "listing" /\ k.sid = "good"
                  \/ outcome = "absent" /\ k.sid = "good" /\ Head(k.tries) # box.firmware
                  \/ outcome = "invalid_sid" /\ k.sid # "good"
  BY <1>1, <1>2, WorksReachable DEF ListOutcomes
<1>4. CASE outcome = "listing" /\ Answered(t, Listed(ModeFound(session, k), k, vpn))
  <2>1. /\ ModeFound(session, k).sid = session.sid
        /\ ModeFound(session, k).protocol = session.protocol
    BY <1>1 DEF ModeFound, Sessions
  <2> QED
    BY <1>1, <1>3, <1>4, <2>1, ListedFares DEF FaresOn
<1>5. CASE outcome = "absent" /\ Answered(t, ListingAbsent(session, k))
  BY <1>1, <1>3, <1>5, ListingAbsentFares DEF FaresOn
<1>6. CASE ~Works(t) /\ Answered(t, Raise(session, k, "transport"))
  BY <1>1, <1>6, RaiseFares DEF Fares, FaresOn
<1>7. CASE ~Works(t) /\ Answered(t, TransportError(session, k))
  <2> DEFINE step == Raise(Invalidated, k, "transport")
  <2>1. Invalidated.sid = "none" /\ SidOverHttp(Invalidated)
    BY DEF Invalidated, SidOverHttp
  <2>2. Fares(t, step.session, step.call)
    BY <1>1, <1>7, <2>1, RaiseFares DEF Fares
  <2> QED
    BY <1>7, <2>2 DEF TransportError, FaresOn
<1>8. CASE outcome = "invalid_sid" /\ Answered(t, Raise(session, k, "invalid_sid"))
  <2> DEFINE step == Raise(session, k, "invalid_sid")
  <2>1. Works(t) => k.sid = "stale"
    BY <1>1, <1>3, <1>8 DEF Calls, Sids
  <2>2. Works(t) => k.sid_retry /\ k.phase = "first" /\ k.attempt = 1
    BY <1>1, <2>1 DEF Calm
  <2>3. Fares(t, step.session, step.call)
    BY <1>1, <2>2, RaiseFares DEF Fares
  <2> QED
    BY <1>8, <2>3 DEF FaresOn
<1> QED
  BY <1>2, <1>3, <1>4, <1>5, <1>6, <1>7, <1>8

\* A calm PUT fails only because the VPN is gone.
LEMMA PutFailedFares ==
  ASSUME CInv, NEW t \in Task, At(t, "put") \/ At(t, "put_lost"), NEW outcome,
         Works(t) => outcome = "refused" /\ vpn = "gone", PutFailed(t, outcome)
  PROVE  FaresOn(t)
<1> DEFINE k == task[t]
           c == [k EXCEPT !.sid_retry = FALSE, !.phase = "first"]
<1>1. /\ ~At(t, "idle") /\ Busy(k) /\ k \in Calls /\ k.phase = "put" /\ t # Poll
      /\ ~box.https /\ ~raced => SidOverHttp(session)
  BY CInvFacts DEF At, Placed, Busy
<1>2. CASE RetryPut(k, outcome)
  <2> DEFINE step == GetSession(Invalidated, c)
  <2>1. ~Works(t) /\ Answered(t, step)
    BY <1>2 DEF RetryPut, PutFailed
  <2>2. c \in Calls
    BY <1>1 DEF Calls
  <2>3. Invalidated.sid = "none" /\ SidOverHttp(Invalidated)
    BY DEF Invalidated, SidOverHttp
  <2> HIDE DEF c
  <2>4. Fares(t, step.session, step.call)
    BY <2>1, <2>2, <2>3, GetSessionFares DEF Fares
  <2> QED
    BY <2>1, <2>4 DEF FaresOn
<1>3. CASE ~RetryPut(k, outcome)
  <2> DEFINE step == Step(session, Idle("false"))
  <2>1. Answered(t, step)
    BY <1>3 DEF PutFailed
  <2>2. step.session = session /\ step.call.pc = "idle" /\ step.call.answer = "false"
    BY DEF Step, Idle
  <2> HIDE DEF step
  <2>3. Works(t) => Right(t, "false")
    BY <1>1 DEF Right
  <2>4. Fares(t, step.session, step.call)
    BY <1>1, <2>2, <2>3 DEF Fares, OverHttp
  <2> QED
    BY <2>1, <2>4 DEF FaresOn
<1> QED
  BY <1>2, <1>3

LEMMA PutRejectedFares ==
  ASSUME CInv, NEW t \in Task, PutRejected(t)
  PROVE  FaresOn(t)
<1>1. /\ ~At(t, "idle") /\ task[t].pc = "put" /\ task[t] \in Calls /\ task[t].sid # "none"
      /\ Works(t) => Calm(session, task[t])
  BY CInvFacts DEF PutRejected, At, Placed
<1>2. Works(t) => task[t].sid = "good"
  BY <1>1 DEF Calm, Calls, Sids
<1>3. PICK outcome \in PutOutcomes(task[t]) : PutFailed(t, outcome)
  BY DEF PutRejected
<1>4. Works(t) => outcome = "refused" /\ vpn = "gone"
  BY <1>1, <1>2, <1>3, WorksReachable DEF PutOutcomes
<1> QED
  BY <1>3, <1>4, PutFailedFares DEF PutRejected

LEMMA PutLostFares ==
  ASSUME CInv, NEW t \in Task, PutLost(t)
  PROVE  FaresOn(t)
<1>1. ~Works(t)
  BY CInvFacts DEF PutLost, At, Calm
<1> QED
  BY <1>1, PutFailedFares DEF PutLost

LEMMA AfterPutFares ==
  ASSUME CInv, NEW t \in Task, PutAnswered(t) \/ Verify(t)
  PROVE  FaresOn(t)
<1> DEFINE k == task[t]
<1>1. /\ ~At(t, "idle") /\ k.pc \in {"put_taken", "delay"} /\ k \in Calls
      /\ ~box.https /\ ~raced => SidOverHttp(session)
      /\ Works(t) => Calm(session, k)
  BY CInvFacts DEF At, PutAnswered, Verify
<1>2. Works(t) => k.sid_retry /\ session.sid # "stale" /\ vpn = k.want
  BY <1>1 DEF Calm, Late
<1>3. CASE PutAnswered(t)
  <2> DEFINE c == [NoRequest(k) EXCEPT !.pc = "delay", !.attempt = 1]
  <2>1. c.pc = "delay" /\ c.want = k.want /\ c.sid_retry = k.sid_retry /\ c.sid = "none"
    BY <1>1 DEF NoRequest, Calls
  <2>2. Step(session, c).session = session /\ Step(session, c).call = c
    BY DEF Step
  <2>3. Answered(t, Step(session, c))
    BY <1>3 DEF PutAnswered
  <2> HIDE DEF c
  <2>4. Fares(t, session, c)
    BY <1>1, <1>2, <2>1 DEF Fares, OverHttp, Calm
  <2> QED
    BY <2>2, <2>3, <2>4 DEF FaresOn
<1>4. CASE Verify(t)
  <2> DEFINE c == [k EXCEPT !.phase = "verify"]
             step == GetSession(session, c)
  <2>1. c \in Calls /\ c.want = k.want /\ c.phase = "verify" /\ c.sid_retry = k.sid_retry
    BY <1>1 DEF Calls
  <2>2. Answered(t, step)
    BY <1>4 DEF Verify
  <2> HIDE DEF c
  <2>3. Fares(t, step.session, step.call)
    BY <1>1, <1>2, <2>1, GetSessionFares DEF Fares
  <2> QED
    BY <2>2, <2>3 DEF FaresOn
<1> QED
  BY <1>3, <1>4

LEMMA CallFares ==
  ASSUME CInv, NEW t \in Task, CallStep(t)
  PROVE  PutTaken(t) \/ FaresOn(t)
<1>1. CASE Unblocked(t) \/ Page(t) \/ PageHttp(t)
  BY <1>1, UnblockedFares, PageFares, PageHttpFares
<1>2. CASE Post(t) \/ List(t)
  BY <1>2, PostFares, ListFares
<1>3. CASE PutRejected(t) \/ PutLost(t) \/ PutAnswered(t) \/ Verify(t)
  BY <1>3, PutRejectedFares, PutLostFares, AfterPutFares
<1> QED
  BY <1>1, <1>2, <1>3 DEF CallStep

-----------------------------------------------------------------------------
(* The invariant of calm calls                                             *)

LEMMA InitEstablishesCInv == Init => CInv
<1> SUFFICES ASSUME Init PROVE CInv
  OBVIOUS
<1>1. \A t \in Task : At(t, "idle") /\ OverHttp(session, task[t])
  BY DEF Init, Idle, At, OverHttp
<1>2. SidOverHttp(session)
  BY DEF Init, Invalidated, SidOverHttp
<1> QED
  BY <1>1, <1>2, InitEstablishesInv DEF CInv, Alone

LEMMA AnsweredKeepsCInv ==
  ASSUME CInv, IInv', NEW t \in Task, ~At(t, "idle"), MovesOn(t), FaresOn(t)
  PROVE  CInv' /\ (Works(t) /\ At(t, "idle")' => Right(t, task'[t].answer))
<1>1. PICK step : Answered(t, step) /\ Moves(t, step)
  BY DEF MovesOn
<1>2. PICK other : Answered(t, other) /\ Fares(t, other.session, other.call)
  BY DEF FaresOn
<1> DEFINE s == session'
           k == task'[t]
<1>3. /\ s = step.session /\ k = step.call /\ s = other.session /\ k = other.call
      /\ UNCHANGED <<box, vpn, raced>>
      /\ \A u \in Task \ {t} : task'[u] = task[u] /\ history'[u] = history[u]
      /\ k.pc # "idle" => history'[t] = history[t]
  BY <1>1, <1>2, CallFacts DEF Answered, Continue, CInv
<1>4. /\ Fares(t, s, k)
      /\ k.pc = "idle" \/ k.want = task[t].want
  <2>1. Fares(t, other.session, other.call)
    BY <1>2
  <2>2. step.call.pc = "idle" \/ step.call.want = task[t].want
    <3>1. ASSUME NEW a, step.call = Idle(a)
          PROVE  step.call.pc = "idle"
      BY <3>1 DEF Idle
    <3> QED
      BY <1>1, <3>1 DEF Moves
  <2> HIDE DEF s, k
  <2> QED
    BY <1>3, <2>1, <2>2
<1> HIDE DEF s, k
<1>5. /\ \A u \in Task \ {t} : (At(u, "idle"))' <=> At(u, "idle")
      /\ (At(t, "idle"))' <=> k.pc = "idle"
  BY <1>3 DEF At, k
<1>6. ASSUME NEW u \in Task, ~(At(u, "idle"))'
      PROVE  (task[u].want = "list")' <=> u = Poll
  BY <1>3, <1>4, <1>5, <1>6 DEF CInv, k
<1>7. ASSUME ~box'.https, ~raced'
      PROVE  (Alone /\ SidOverHttp(session))' /\ \A u \in Task : OverHttp(session, task[u])'
  <2>1. ~box.https /\ ~raced /\ Alone
    BY <1>3, <1>7 DEF CInv
  <2>2. SidOverHttp(s) /\ OverHttp(s, k)
    BY <1>4, <2>1 DEF Fares
  <2>3. \A u \in Task \ {t} : At(u, "idle")
    BY <2>1 DEF Alone
  <2>4. \A u \in Task \ {t} : OverHttp(s, task'[u])
    BY <1>3, <2>3 DEF At, OverHttp
  <2>5. Alone'
    BY <1>5, <2>3 DEF Alone
  <2> QED
    BY <2>2, <2>4, <2>5 DEF s, k
<1>8. ASSUME NEW u \in Task, ~(At(u, "idle"))', Works(u)'
      PROVE  Calm(session, task[u])'
  <2>1. CASE u = t
    <3>1. Works(t) /\ k.pc # "idle"
      BY <1>3, <1>5, <1>8, <2>1 DEF Works
    <3>2. Calm(s, k)
      BY <1>4, <3>1 DEF Fares
    <3> QED
      BY <1>3, <2>1, <3>2 DEF Calm, s, k
  <2>2. CASE u # t
    <3>1. Works(u) /\ ~At(u, "idle") /\ task'[u] = task[u]
      BY <1>3, <1>5, <1>8, <2>2 DEF Works
    <3>2. Calm(session, task[u])
      BY <3>1 DEF CInv
    <3>3. session'.sid = "stale" => session.sid = "stale"
      BY <1>4 DEF Fares, s
    <3> QED
      BY <1>3, <3>1, <3>2, <3>3 DEF Calm
  <2> QED
    BY <2>1, <2>2
<1>9. CInv'
  BY <1>6, <1>7, <1>8 DEF CInv
<1> QED
  BY <1>4, <1>5, <1>9 DEF Fares, k

\* The PUT leaves the VPN as its call wants it, and disturbs the calls that saw it
\* otherwise.
LEMMA PutTakenKeepsCInv ==
  ASSUME CInv, IInv', NEW t \in Task, PutTaken(t)
  PROVE  CInv' /\ ~(At(t, "idle"))' /\ \A u \in Task \ {t} : task'[u] = task[u]
<1>1. PICK pc \in {"put_taken", "put_lost"} :
        /\ task' = [task EXCEPT ![t].pc = pc]
        /\ history' = [u \in Task |->
             LET h == Witnessed(vpn', history)[u] IN
             IF u = t THEN [h EXCEPT !.switches = @ + 1, !.calm = @ /\ pc = "put_taken"]
             ELSE [h EXCEPT !.calm = @ /\ (vpn' = vpn \/ At(u, "idle"))]]
  BY DEF PutTaken
<1>2. /\ UNCHANGED <<session, box, raced>> /\ vpn' = task[t].want /\ ~At(t, "idle") /\ At(t, "put")
  BY DEF PutTaken, At
<1>3. /\ task[t] \in Calls /\ \A u \in Task \ {t} : task'[u] = task[u]
      /\ task'[t] = [task[t] EXCEPT !.pc = pc]
      /\ history \in [Task -> Histories]
  BY <1>1, CallFacts DEF CInv
<1>4. /\ task'[t].pc = pc /\ Alike(task[t], task'[t]) /\ task'[t].sid = task[t].sid
  BY <1>3 DEF Calls, Alike
<1>5. ASSUME NEW u \in Task, history'[u].calm, ~At(u, "idle")
      PROVE  history[u].calm /\ (u = t => pc = "put_taken") /\ (u # t => vpn' = vpn)
  <2> DEFINE h == Witnessed(vpn', history)[u]
  <2>1. h = [history[u] EXCEPT !.seen = @ \union {vpn'}]
    BY <1>5 DEF Witnessed
  <2>2. DOMAIN h = DOMAIN history[u] /\ h.calm = history[u].calm
    BY <1>3, <2>1 DEF Histories
  <2>3. "calm" \in DOMAIN h
    BY <1>3, <2>2 DEF Histories
  <2>4. history'[u] = IF u = t THEN [h EXCEPT !.switches = @ + 1, !.calm = @ /\ pc = "put_taken"]
                      ELSE [h EXCEPT !.calm = @ /\ (vpn' = vpn \/ At(u, "idle"))]
    BY <1>1
  <2> HIDE DEF h
  <2>5. history'[u].calm <=> IF u = t THEN h.calm /\ pc = "put_taken"
                             ELSE h.calm /\ (vpn' = vpn \/ At(u, "idle"))
    BY <2>3, <2>4
  <2> QED
    BY <1>5, <2>2, <2>5
<1>6. /\ \A u \in Task \ {t} : (At(u, "idle"))' <=> At(u, "idle")
      /\ ~(At(t, "idle"))'
  BY <1>3, <1>4 DEF At
<1>7. ASSUME NEW u \in Task, ~(At(u, "idle"))'
      PROVE  (task[u].want = "list")' <=> u = Poll
  <2>1. ~At(u, "idle") /\ task'[u].want = task[u].want
    BY <1>2, <1>3, <1>4, <1>6, <1>7 DEF Alike
  <2> QED
    BY <2>1 DEF CInv
<1>8. ASSUME ~box'.https, ~raced'
      PROVE  (Alone /\ SidOverHttp(session))' /\ \A u \in Task : OverHttp(session, task[u])'
  <2>1. Alone /\ SidOverHttp(session) /\ \A u \in Task : OverHttp(session, task[u])
    BY <1>2, <1>8 DEF CInv
  <2>2. Alone'
    BY <1>2, <1>6, <2>1 DEF Alone
  <2>3. SidOverHttp(session)'
    BY <1>2, <2>1 DEF SidOverHttp
  <2>4. \A u \in Task : OverHttp(session, task[u])'
    BY <1>2, <1>3, <1>4, <2>1 DEF OverHttp
  <2> QED
    BY <2>2, <2>3, <2>4
<1>9. ASSUME NEW u \in Task, ~(At(u, "idle"))', Works(u)'
      PROVE  Calm(session, task[u])'
  <2>1. ~At(u, "idle")
    BY <1>2, <1>6, <1>9
  <2>2. Works(u) /\ (u = t => pc = "put_taken") /\ (u # t => vpn' = vpn)
    BY <1>2, <1>5, <1>9, <2>1 DEF Works
  <2>3. Calm(session, task[u])
    BY <2>1, <2>2 DEF CInv
  <2>4. CASE u = t
    BY <1>2, <1>4, <2>2, <2>3, <2>4 DEF Calm, Alike, Late, At
  <2>5. CASE u # t
    BY <1>2, <1>3, <2>2, <2>3, <2>5 DEF Calm
  <2> QED
    BY <2>4, <2>5
<1> QED
  BY <1>3, <1>6, <1>7, <1>8, <1>9 DEF CInv

LEMMA BeginKeepsCInv ==
  ASSUME CInv, IInv', NEW t \in Task, NEW want \in {"list"} \union Wants, Begin(t, want)
  PROVE  CInv'
<1> DEFINE c == [task[t] EXCEPT !.want = want, !.answer = "none"]
           step == GetSession(session, c)
<1>1. /\ At(t, "idle") /\ (want = "list" <=> t = Poll)
      /\ session' = step.session /\ task' = [task EXCEPT ![t] = step.call]
      /\ raced' = (raced \/ (~box.https /\ \E u \in Task : ~At(u, "idle")))
      /\ UNCHANGED <<box, vpn>>
  BY DEF Begin, Continue
<1>2. /\ task'[t].want = want
      /\ \A u \in Task \ {t} : task'[u] = task[u] /\ history'[u] = history[u]
  BY BeginKeepsInv DEF CInv
<1>3. /\ task[t] \in Calls /\ task[t].phase = "first" /\ task[t].attempt = 1 /\ task[t].sid_retry
  BY <1>1, CallFacts DEF CInv, WellFormed, At
<1>4. c \in Calls /\ c.phase = "first" /\ c.attempt = 1 /\ c.sid_retry
  <2>1. want \in {"list", "on", "off"}
    BY WantsAssumption
  <2> QED
    BY <1>3, <2>1 DEF Calls
<1>5. task'[t] = step.call
  BY <1>1, CallFacts DEF CInv
<1> HIDE DEF c
<1>6. /\ step.session = session /\ step.call.pc # "idle"
      /\ SidOverHttp(session) => OverHttp(session, step.call)
      /\ Calm(session, step.call)
  BY <1>4, GetSessionFares
<1> HIDE DEF step
<1>7. session' = session /\ ~(At(t, "idle"))'
      /\ \A u \in Task \ {t} : (At(u, "idle"))' <=> At(u, "idle")
  BY <1>1, <1>2, <1>5, <1>6 DEF At
<1>8. ASSUME NEW u \in Task, ~(At(u, "idle"))'
      PROVE  (task[u].want = "list")' <=> u = Poll
  BY <1>1, <1>2, <1>7, <1>8 DEF CInv
<1>9. ASSUME ~box'.https, ~raced'
      PROVE  (Alone /\ SidOverHttp(session))' /\ \A u \in Task : OverHttp(session, task[u])'
  <2>1. ~box.https /\ ~raced /\ \A u \in Task : At(u, "idle")
    BY <1>1, <1>9
  <2>2. SidOverHttp(session) /\ \A u \in Task : OverHttp(session, task[u])
    BY <2>1 DEF CInv
  <2>3. Alone'
    BY <1>7, <2>1 DEF Alone
  <2>4. SidOverHttp(session)'
    BY <1>7, <2>2 DEF SidOverHttp
  <2>5. \A u \in Task : OverHttp(session, task[u])'
    BY <1>2, <1>5, <1>6, <1>7, <2>2 DEF OverHttp
  <2> QED
    BY <2>3, <2>4, <2>5
<1>10. ASSUME NEW u \in Task, ~(At(u, "idle"))', Works(u)'
       PROVE  Calm(session, task[u])'
  <2>1. CASE u = t
    BY <1>1, <1>5, <1>6, <1>7, <2>1 DEF Calm
  <2>2. CASE u # t
    <3>1. Works(u) /\ ~At(u, "idle") /\ task'[u] = task[u]
      BY <1>1, <1>2, <1>7, <1>10, <2>2 DEF Works
    <3>2. Calm(session, task[u])
      BY <3>1 DEF CInv
    <3> QED
      BY <1>1, <1>7, <3>1, <3>2 DEF Calm
  <2> QED
    BY <2>1, <2>2
<1> QED
  BY <1>8, <1>9, <1>10 DEF CInv

\* Whatever happens at the box, no running call is calm after it.
LEMMA EnvironmentDisturbs ==
  ASSUME IInv, Environment
  PROVE  /\ box'.https = box.https /\ raced' = raced
         /\ UNCHANGED <<session, task>> \/ SidsForgotten
         /\ \A u \in Task : ~At(u, "idle") => ~history'[u].calm
<1>1. box \in Boxes /\ history \in [Task -> Histories]
  BY DEF IInv, Typed
<1>2. ASSUME NEW h \in [Task -> Histories], NEW u \in Task, ~At(u, "idle")
      PROVE  ~Disturbed(h)[u].calm
  BY <1>2 DEF Disturbed, Histories
<1>3. CASE GoesDown \/ SidsExpire \/ Boots \/ ComesUp
  <2>1. /\ box'.https = box.https /\ raced' = raced /\ history' = Disturbed(history)
        /\ UNCHANGED <<session, task>> \/ SidsForgotten
    BY <1>1, <1>3 DEF GoesDown, SidsExpire, Boots, ComesUp, Disturb, Boxes
  <2> QED
    BY <1>1, <1>2, <2>1
<1>4. CASE PasswordChanges
  <2>1. /\ box'.https = box.https /\ raced' = raced /\ UNCHANGED <<session, task>>
    BY <1>1, <1>4 DEF PasswordChanges, Boxes
  <2>2. \A u \in Task : ~At(u, "idle") => ~history'[u].calm
    BY <1>1, <1>4 DEF PasswordChanges, Histories
  <2> QED
    BY <2>1, <2>2
<1>5. CASE UserChanges
  <2>1. /\ box'.https = box.https /\ raced' = raced /\ UNCHANGED <<session, task>>
        /\ vpn' \in VpnStates /\ history' = Disturbed(Witnessed(vpn', history))
    BY <1>1, <1>5 DEF UserChanges, Boxes, VpnStates
  <2> DEFINE g == Witnessed(vpn', history)
  <2>2. g \in [Task -> Histories]
    BY <2>1, WitnessedFacts DEF WitnessedBy
  <2> HIDE DEF g
  <2> QED
    BY <1>2, <2>1, <2>2 DEF g
<1> QED
  BY <1>3, <1>4, <1>5 DEF Environment

LEMMA OutsideKeepsCInv ==
  ASSUME CInv, IInv', box'.https = box.https, raced' = raced,
         UNCHANGED <<session, task>> \/ SidsForgotten,
         \A u \in Task : ~At(u, "idle") => ~history'[u].calm
  PROVE  CInv' /\ \A u \in Task : (At(u, "idle"))' <=> At(u, "idle")
<1>1. /\ session'.protocol = session.protocol
      /\ session'.sid # "none" => session.sid # "none"
  BY CallFacts DEF CInv, IInv, Typed, SidsForgotten, Stale, Sessions
<1>2. ASSUME NEW u \in Task
      PROVE  task'[u].pc = task[u].pc /\ task'[u].url = task[u].url /\ task'[u].want = task[u].want
  <2>1. task[u] \in Calls
    BY CallFacts DEF CInv
  <2>2. task'[u] = task[u] \/ task'[u] = [task[u] EXCEPT !.sid = Stale(@)]
    BY DEF SidsForgotten
  <2> QED
    BY <2>1, <2>2 DEF Calls
<1>3. \A u \in Task : (At(u, "idle"))' <=> At(u, "idle")
  BY <1>2 DEF At
<1>4. ASSUME NEW u \in Task, ~(At(u, "idle"))'
      PROVE  ((task[u].want = "list")' <=> u = Poll) /\ ~(Works(u))'
  BY <1>2, <1>3, <1>4 DEF CInv, Works
<1>5. ASSUME ~box'.https, ~raced'
      PROVE  (Alone /\ SidOverHttp(session))' /\ \A u \in Task : OverHttp(session, task[u])'
  <2>1. Alone /\ SidOverHttp(session) /\ \A u \in Task : OverHttp(session, task[u])
    BY <1>5 DEF CInv
  <2> QED
    BY <1>1, <1>2, <1>3, <2>1 DEF Alone, SidOverHttp, OverHttp
<1> QED
  BY <1>3, <1>4, <1>5 DEF CInv

\* What WorkingCallsSucceed says of one step
RightEnds ==
  \A t \in Task : Ends(t) /\ Works(t) => Right(t, task'[t].answer)

LEMMA NextKeepsCInv ==
  ASSUME CInv, [Next]_vars
  PROVE  CInv' /\ RightEnds
<1>1. IInv /\ IInv'
  BY NextKeepsInv DEF CInv
<1>2. ASSUME NEW t \in Task, CallStep(t)
      PROVE  CInv' /\ RightEnds
  <2>1. CASE PutTaken(t)
    <3>1. CInv' /\ ~(At(t, "idle"))' /\ \A u \in Task \ {t} : task'[u] = task[u]
      BY <1>1, <2>1, PutTakenKeepsCInv
    <3> QED
      BY <3>1 DEF RightEnds, Ends, At
  <2>2. CASE ~PutTaken(t)
    <3>1. ~At(t, "idle") /\ MovesOn(t) /\ FaresOn(t)
      BY <1>1, <1>2, <2>2, CallMovesOn, CallFares
    <3>2. \A u \in Task \ {t} : task'[u] = task[u]
      BY <3>1 DEF FaresOn, Answered, Continue, CInv, IInv, Typed
    <3>3. CInv' /\ (Works(t) /\ At(t, "idle")' => Right(t, task'[t].answer))
      BY <1>1, <3>1, AnsweredKeepsCInv
    <3> QED
      BY <3>2, <3>3 DEF RightEnds, Ends, At
  <2> QED
    BY <2>1, <2>2
<1>3. ASSUME NEW t \in Task, NEW want \in {"list"} \union Wants, Begin(t, want)
      PROVE  CInv' /\ RightEnds
  <2>1. At(t, "idle") /\ \A u \in Task \ {t} : task'[u] = task[u]
    BY <1>1, <1>3, BeginKeepsInv DEF Begin
  <2>2. CInv'
    BY <1>1, <1>3, BeginKeepsCInv
  <2> QED
    BY <2>1, <2>2 DEF RightEnds, Ends, At
<1>4. CASE Environment
  <2>1. CInv' /\ \A u \in Task : (At(u, "idle"))' <=> At(u, "idle")
    BY <1>1, <1>4, EnvironmentDisturbs, OutsideKeepsCInv
  <2> QED
    BY <2>1 DEF RightEnds, Ends
<1>5. CASE UNCHANGED vars
  <2>1. /\ UNCHANGED <<session, task, box, vpn, history, raced>>
    BY <1>5 DEF vars
  <2>2. CInv'
    BY <1>1, <2>1 DEF CInv, At, Alone, SidOverHttp, OverHttp, Works, Calm, Late
  <2> QED
    BY <2>1, <2>2 DEF RightEnds, Ends, At
<1> QED
  BY <1>2, <1>3, <1>4, <1>5 DEF Next

\* WorkingCallsSucceed in every execution: a call during which the box is up and nobody
\* changes anything there ends with the listing, or the VPN as wanted, or learns that the
\* password is wrong, whatever the session object held and whatever the other calls, of
\* which there may be any number, made of it meanwhile.
THEOREM WorkingCallsSucceedHolds == Spec => WorkingCallsSucceed
<1>1. CInv /\ [Next]_vars => CInv'
  BY NextKeepsCInv
<1>2. CInv /\ [Next]_vars => RightEnds
  BY NextKeepsCInv
<1>3. RightEnds =>
        [\A t \in Task : Ends(t) /\ Works(t) =>
           \/ task'[t].answer = (IF t = Poll THEN vpn ELSE IF vpn = "gone" THEN "false" ELSE "true")
           \/ ~box.login /\ task'[t].answer \in {"denied", "false"}]_vars
  BY DEF RightEnds, Right
<1> QED
  BY <1>1, <1>2, <1>3, InitEstablishesCInv, PTL DEF Spec, WorkingCallsSucceed
==============================================================================
