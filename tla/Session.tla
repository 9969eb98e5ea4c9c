------------------------------- MODULE Session -------------------------------
(***************************************************************************)
(* FritzBoxVPNSession (fritzboxvpn/session.py): login, listing and toggle  *)
(* over one session object that a poll of the coordinator and toggles of   *)
(* the switches share.  Tasks interleave where the code awaits, so each    *)
(* action handles one answer of the box and runs on to the next request.   *)
(*                                                                         *)
(* The box has one VPN.  A SID is "none", "good" (the box still knows it)  *)
(* or "stale"; the protocol of a request is the one its URL was built with.*)
(***************************************************************************)
EXTENDS Naturals, Sequences

CONSTANTS
  Poll,       \* the coordinator's poll
  Toggles,    \* callers of async_toggle_vpn
  Wants,      \* what they ask for: "on", "off" or either
  MaxEvents   \* bound: how often the box is disturbed

ASSUME WantsAssumption == Wants \subseteq {"on", "off"}
ASSUME MaxEventsAssumption == MaxEvents \in Nat

Task == {Poll} \union Toggles

VARIABLES
  session,  \* sid, protocol and _listing_mode of the session object
  task,     \* where each call is, and its local variables
  box,      \* external: power, https, firmware, login, events so far
  vpn,      \* external: the VPN, "on", "off" or "gone"
  history,  \* per call: what the VPN was, how often it switched, was it disturbed
  raced     \* history: on a box without HTTPS two calls have overlapped

vars == <<session, task, box, vpn, history, raced>>

Protocols == {"https", "http"}
Sids == {"none", "good", "stale"}
Modes == {"none", "data_lua", "rest"}

-----------------------------------------------------------------------------
(* Between two requests.  Code that runs on without awaiting is a function *)
(* of the session s and the call k; it yields both, as Step(s, k).         *)

Step(s, k) == [session |-> s, call |-> k]

\* invalidate_session
Invalidated == [sid |-> "none", protocol |-> "https", mode |-> "none"]

\* A call that is not running, and what the last one answered
Idle(answer) ==
  [pc |-> "idle", want |-> "list", answer |-> answer,
   phase |-> "first", attempt |-> 1, sid_retry |-> TRUE, v2 |-> TRUE, again |-> FALSE,
   url |-> "https", sid |-> "none", tries |-> <<>>, preferred |-> "none"]

\* Errors that say "login failed", the coordinator's sign of refused credentials
Denials == {"refused", "login_status"}
AnswerTo(error) == IF error \in Denials THEN "denied" ELSE "outage"

\* The error leaves the call.  Within a toggle that is already being verified or
\* repeated it is caught there.  The coordinator invalidates the session when a
\* poll failed, unless the credentials were refused.
Fail(s, k, error) ==
  IF k.want = "list"
  THEN Step(IF error \in Denials THEN s ELSE Invalidated, Idle(AnswerTo(error)))
  ELSE Step(s, Idle(IF k.phase = "verify" \/ ~k.sid_retry THEN "false" ELSE AnswerTo(error)))

Request(s, k, pc) == Step(s, [k EXCEPT !.pc = pc, !.url = s.protocol])

\* Listing modes to try: the one that worked last, then the others in order.
Tries(preferred) ==
  IF preferred = "rest" THEN <<"rest", "data_lua">> ELSE <<"data_lua", "rest">>

\* What a SID was wanted for: the listing, or the PUT of a toggle.
WithSid(s, k) ==
  IF k.phase = "put"
  THEN Request(s, [k EXCEPT !.v2 = TRUE, !.sid = s.sid], "put")
  ELSE Request(s, [k EXCEPT !.v2 = TRUE, !.sid = s.sid, !.tries = Tries(s.mode),
                            !.preferred = s.mode], "list")

\* Between two requests nothing is left of the first.
NoRequest(k) ==
  [k EXCEPT !.url = "https", !.sid = "none", !.tries = <<>>, !.preferred = "none"]

\* Mutant: a dropped SID is used all the same.
SidAssumed(s, k) == WithSid(s, NoRequest(k))

\* async_get_session
GetSession(s, k) ==
  IF s.sid # "none" THEN WithSid(s, NoRequest(k)) ELSE Request(s, NoRequest(k), "page")

\* Mutant: the retry is not counted.
RetryUncounted(k) == k

Retried(k) == [k EXCEPT !.attempt = 2]

\* Mutant: no retry at all.
NotWorthARetry(error) == FALSE

\* "Invalid SID" in the text of a ValueError, which a refused login has too
WorthARetry(error) == error \in {"invalid_sid", "refused"}

\* The handlers of async_get_vpn_connections
Raise(s, k, error) ==
  IF k.phase # "put" /\ k.attempt = 1 /\ WorthARetry(error)
  THEN GetSession(Invalidated, Retried(k))
  ELSE Fail(s, k, error)

\* _raise_transport_error
TransportError(s, k) == Raise(Invalidated, k, "transport")

\* What the listing is for: a poll returns it, a toggle compares it.
Listed(s, k, state) ==
  IF k.want = "list" THEN Step(s, Idle(state))
  ELSE IF state = k.want THEN Step(s, Idle("true"))
  ELSE IF state = "gone" \/ k.phase = "verify" THEN Step(s, Idle("false"))
  ELSE GetSession(s, [k EXCEPT !.phase = "put", !.attempt = 1])

\* The listing contract is absent: try the other mode, if one is left.
ListingAbsent(s, k) ==
  LET forgot == IF Head(k.tries) = k.preferred THEN [s EXCEPT !.mode = "none"] ELSE s
  IN IF Tail(k.tries) = <<>> THEN Raise(Invalidated, k, "transport")
     ELSE Request(forgot, [k EXCEPT !.tries = Tail(k.tries)], "list")

ModeFound(s, k) ==
  IF Head(k.tries) = k.preferred THEN s ELSE [s EXCEPT !.mode = Head(k.tries)]

-----------------------------------------------------------------------------
(* What the box may answer.  A connection refused or timed out is an       *)
(* OSError, one dropped half way is not, and slips through most handlers.  *)

Reachable(protocol) == box.power # "off" /\ (protocol = "https" => box.https)
Booting == box.power = "booting"

Unanswered(k) ==
  (IF ~Reachable(k.url) \/ Booting THEN {"refused"} ELSE {})
  \union (IF box.power # "up" THEN {"dropped"} ELSE {})

\* A GET of a login page.  Older firmware may know no PBKDF2.
PageOutcomes(k) ==
  Unanswered(k)
  \union (IF Reachable(k.url) /\ Booting
          THEN {"fallback_status", "status", "no_challenge", "challenge"} ELSE {})
  \union (IF Reachable(k.url) /\ ~Booting THEN {"challenge"} ELSE {})
  \union (IF Reachable(k.url) /\ ~Booting /\ k.v2 /\ box.firmware = "data_lua"
          THEN {"no_challenge"} ELSE {})

\* The POST of a response to the challenge
LoginOutcomes(k) ==
  Unanswered(k)
  \union (IF Reachable(k.url) /\ Booting THEN {"status"} ELSE {})
  \union (IF Reachable(k.url) THEN {IF box.login THEN "sid" ELSE "no_sid"} ELSE {})

\* A listing request, in the mode at the head of the tries
ListOutcomes(k) ==
  Unanswered(k)
  \union (IF Reachable(k.url) /\ Booting THEN {"status", "absent", "invalid_sid"} ELSE {})
  \union (IF Reachable(k.url) /\ ~Booting
          THEN {IF k.sid # "good" THEN "invalid_sid"
                ELSE IF Head(k.tries) = box.firmware THEN "listing" ELSE "absent"}
          ELSE {})

\* The PUT, if the box does not take it
PutOutcomes(k) ==
  Unanswered(k)
  \union (IF Reachable(k.url) /\ ~Booting /\ k.sid # "good" THEN {"forbidden"} ELSE {})
  \union (IF Reachable(k.url) /\ ~Booting /\ vpn = "gone" THEN {"refused"} ELSE {})

-----------------------------------------------------------------------------
(* Steps of a call                                                         *)

At(t, pc) == task[t].pc = pc

\* History of a call: the states of the VPN, how often it switched it, calm while
\* nobody disturbs the box, wrong once the password was.
Unwatched == [seen |-> {}, switches |-> 0, calm |-> TRUE, wrong |-> FALSE]

Continue(t, step) ==
  /\ session' = step.session
  /\ task' = [task EXCEPT ![t] = step.call]
  /\ UNCHANGED box

Answered(t, step) ==
  /\ Continue(t, step)
  /\ history' = [history EXCEPT ![t] = IF step.call.pc = "idle" THEN Unwatched ELSE @]
  /\ UNCHANGED <<vpn, raced>>

Begin(t, want) ==
  /\ At(t, "idle")
  /\ want = "list" <=> t = Poll
  /\ Continue(t, GetSession(session, [task[t] EXCEPT !.want = want, !.answer = "none"]))
  /\ history' = [history EXCEPT ![t] = [Unwatched EXCEPT !.seen = {vpn}, !.wrong = ~box.login]]
  /\ raced' = (raced \/ (~box.https /\ \E u \in Task : ~At(u, "idle")))
  /\ UNCHANGED vpn

\* The challenge is answered now, or after the BlockTime the box asks for.
SendResponse(t, s, k) ==
  \/ Answered(t, Request(s, k, "post"))
  \/ k.v2 /\ Answered(t, Step(s, [k EXCEPT !.pc = "blocked"]))

Unblocked(t) ==
  /\ At(t, "blocked")
  /\ Answered(t, Request(session, task[t], "post"))

\* A page without a usable challenge: PBKDF2 gives way to MD5, which needs one.
NoChallenge(s, k) ==
  IF k.v2 THEN Request(s, [k EXCEPT !.v2 = FALSE], "page") ELSE Raise(s, k, "parse")

\* The page over HTTPS failed.  As a ConnectionError is an OSError, every bad
\* status leads to HTTP too; after a fallback status a failure over HTTP is
\* caught once more.
PageFallback(k, outcome) ==
  [k EXCEPT !.pc = "page_http", !.url = "http", !.again = (outcome = "fallback_status")]

\* _fetch_login_page
Page(t) ==
  /\ At(t, "page")
  /\ LET k == task[t] IN
     \E outcome \in PageOutcomes(k) :
       \/ outcome = "challenge" /\ SendResponse(t, session, k)
       \/ outcome = "no_challenge" /\ Answered(t, NoChallenge(session, k))
       \/ outcome = "dropped" /\ Answered(t, Raise(session, k, "transport"))
       \/ /\ outcome \in {"refused", "fallback_status", "status"}
          /\ IF session.protocol = "https"
             THEN Answered(t, Step(session, PageFallback(k, outcome)))
             ELSE Answered(t, Raise(session, k, "transport"))

SwitchedOnSuccess(s, outcome) ==
  IF outcome \in {"challenge", "no_challenge"} THEN [s EXCEPT !.protocol = "http"] ELSE s

\* _get_login_page_http
PageHttp(t) ==
  /\ At(t, "page_http")
  /\ \E outcome \in PageOutcomes(task[t]) :
       LET k == [task[t] EXCEPT !.again = FALSE]
           s == SwitchedOnSuccess(session, outcome)
       IN \/ outcome = "challenge" /\ SendResponse(t, s, k)
          \/ outcome = "no_challenge" /\ Answered(t, NoChallenge(s, k))
          \/ outcome = "dropped" /\ Answered(t, Raise(s, k, "transport"))
          \/ /\ outcome \in {"refused", "fallback_status", "status"}
             /\ IF task[t].again /\ session.protocol = "https"
                THEN Answered(t, Step(s, k))
                ELSE Answered(t, Raise(s, k, "transport"))

\* The login itself, by PBKDF2 and, when that did not work, by MD5
Post(t) ==
  /\ At(t, "post")
  /\ LET k == task[t] IN
     \E outcome \in LoginOutcomes(k) :
       \/ outcome = "sid" /\ Answered(t, WithSid([session EXCEPT !.sid = "good"], k))
       \/ outcome = "refused" /\ Answered(t, TransportError(session, k))
       \/ outcome = "dropped" /\ Answered(t, Raise(session, k, "transport"))
       \/ /\ outcome \in {"status", "no_sid"} /\ k.v2
          /\ Answered(t, Request(session, [k EXCEPT !.v2 = FALSE], "page"))
       \/ outcome = "status" /\ ~k.v2 /\ Answered(t, Raise(session, k, "login_status"))
       \/ outcome = "no_sid" /\ ~k.v2 /\ Answered(t, Raise(session, k, "refused"))

\* _fetch_vpn_connections_once, one request of it
List(t) ==
  /\ At(t, "list")
  /\ LET k == task[t] IN
     \E outcome \in ListOutcomes(k) :
       \/ outcome = "listing" /\ Answered(t, Listed(ModeFound(session, k), k, vpn))
       \/ outcome = "dropped" /\ Answered(t, Raise(session, k, "transport"))
       \/ outcome = "absent" /\ Answered(t, ListingAbsent(session, k))
       \/ outcome = "invalid_sid" /\ Answered(t, Raise(session, k, "invalid_sid"))
       \/ outcome \in {"refused", "status"} /\ Answered(t, TransportError(session, k))

Witnessed(state, h) ==
  [t \in Task |-> IF At(t, "idle") THEN h[t] ELSE [h[t] EXCEPT !.seen = @ \union {state}]]

\* The box takes the PUT; its answer may be lost, or be an error, all the same.
PutTaken(t) ==
  /\ At(t, "put")
  /\ Reachable(task[t].url) /\ ~Booting /\ task[t].sid = "good" /\ vpn # "gone"
  /\ vpn' = task[t].want
  /\ \E pc \in {"put_taken", "put_lost"} :
       /\ task' = [task EXCEPT ![t].pc = pc]
       /\ history' = [u \in Task |->
            LET h == Witnessed(vpn', history)[u] IN
            IF u = t THEN [h EXCEPT !.switches = @ + 1, !.calm = @ /\ pc = "put_taken"]
            ELSE [h EXCEPT !.calm = @ /\ (vpn' = vpn \/ At(u, "idle"))]]
  /\ UNCHANGED <<session, box, raced>>

\* Mutant: whatever answer is worth a retry.
RetryAnyStatus(k, outcome) == k.sid_retry

RetryPut(k, outcome) == outcome = "forbidden" /\ k.sid_retry

\* A 403 repeats the toggle once; any other failure ends it.
PutFailed(t, outcome) ==
  LET k == task[t] IN
  IF RetryPut(k, outcome)
  THEN Answered(t, GetSession(Invalidated,
         [k EXCEPT !.sid_retry = FALSE, !.phase = "first"]))
  ELSE Answered(t, Step(session, Idle("false")))

PutRejected(t) ==
  /\ At(t, "put")
  /\ \E outcome \in PutOutcomes(task[t]) : PutFailed(t, outcome)

PutAnswered(t) ==
  /\ At(t, "put_taken")
  /\ Answered(t, Step(session, [NoRequest(task[t]) EXCEPT !.pc = "delay", !.attempt = 1]))

PutLost(t) ==
  /\ At(t, "put_lost")
  /\ \E outcome \in {"status", "lost"} : PutFailed(t, outcome)

\* After VERIFICATION_DELAY
Verify(t) ==
  /\ At(t, "delay")
  /\ Answered(t, GetSession(session, [task[t] EXCEPT !.phase = "verify"]))

CallStep(t) ==
  \/ Unblocked(t) \/ Page(t) \/ PageHttp(t) \/ Post(t) \/ List(t)
  \/ PutTaken(t) \/ PutRejected(t) \/ PutAnswered(t) \/ PutLost(t) \/ Verify(t)

-----------------------------------------------------------------------------
(* The box and its user                                                    *)

Stale(sid) == IF sid = "good" THEN "stale" ELSE sid

\* The box forgets the SIDs it gave out.
SidsForgotten ==
  /\ session' = [session EXCEPT !.sid = Stale(@)]
  /\ task' = [t \in Task |-> [task[t] EXCEPT !.sid = Stale(@)]]

Disturbed(h) ==
  [t \in Task |-> IF At(t, "idle") THEN h[t] ELSE [h[t] EXCEPT !.calm = FALSE]]

\* A disturbance counts; what follows from one does not.
Counted == box.events < MaxEvents
Disturb(changed) ==
  /\ Counted
  /\ box' = [changed EXCEPT !.events = @ + 1]
  /\ history' = Disturbed(history)

GoesDown ==
  /\ box.power = "up"
  /\ Disturb([box EXCEPT !.power = "off"])
  /\ SidsForgotten
  /\ UNCHANGED <<vpn, raced>>

Boots ==
  /\ box.power = "off"
  /\ box' = [box EXCEPT !.power = "booting"]
  /\ history' = Disturbed(history)
  /\ UNCHANGED <<session, task, vpn, raced>>

\* It may have updated itself.
ComesUp ==
  /\ box.power = "booting"
  /\ \E firmware \in Modes \ {"none"} :
       box' = [box EXCEPT !.power = "up", !.firmware = firmware]
  /\ history' = Disturbed(history)
  /\ UNCHANGED <<session, task, vpn, raced>>

SidsExpire ==
  /\ box.power = "up"
  /\ Disturb(box)
  /\ SidsForgotten
  /\ UNCHANGED <<vpn, raced>>

PasswordChanges ==
  /\ Counted
  /\ box' = [box EXCEPT !.login = ~@, !.events = @ + 1]
  /\ history' = [t \in Task |->
       IF At(t, "idle") THEN history[t] ELSE [history[t] EXCEPT !.calm = FALSE, !.wrong = TRUE]]
  /\ UNCHANGED <<session, task, vpn, raced>>

UserChanges ==
  /\ Counted
  /\ box' = [box EXCEPT !.events = @ + 1]
  /\ vpn' \in {"on", "off", "gone"} \ {vpn}
  /\ history' = Disturbed(Witnessed(vpn', history))
  /\ UNCHANGED <<session, task, raced>>

Environment ==
  GoesDown \/ Boots \/ ComesUp \/ SidsExpire \/ PasswordChanges \/ UserChanges

-----------------------------------------------------------------------------

\* FritzBoxVPNSession.__init__, with no call made yet
Init ==
  /\ session = Invalidated
  /\ task = [t \in Task |-> Idle("outage")]
  /\ vpn \in {"on", "off", "gone"}
  /\ \E https \in BOOLEAN, firmware \in Modes \ {"none"} :
       box = [power |-> "up", https |-> https, firmware |-> firmware,
              login |-> TRUE, events |-> 0]
  /\ history = [t \in Task |-> Unwatched]
  /\ raced = FALSE

Next ==
  \/ \E t \in Task : \/ \E want \in {"list"} \union Wants : Begin(t, want)
                     \/ CallStep(t)
  \/ Environment

Spec == Init /\ [][Next]_vars

\* Every request has a timeout, so every await ends.
FairSpec == Spec /\ \A t \in Task : WF_vars(CallStep(t))

-----------------------------------------------------------------------------
(* Properties                                                              *)

Pcs == {"idle", "page", "page_http", "blocked", "post", "list", "put", "put_taken",
        "put_lost", "delay"}
Answers == {"outage", "denied", "false", "true", "on", "off", "gone"}

\* The session, the calls and the box have their types, and a running call has no
\* answer yet.
TypeOK ==
  /\ session \in [sid : Sids, protocol : Protocols, mode : Modes]
  /\ \A t \in Task : LET k == task[t] IN
       /\ k.pc \in Pcs /\ k.want \in {"list", "on", "off"}
       /\ IF k.pc = "idle" THEN k.answer \in Answers ELSE k.answer = "none"
       /\ k.phase \in {"first", "put", "verify"} /\ k.attempt \in {1, 2}
       /\ k.sid \in Sids /\ k.url \in Protocols /\ k.preferred \in Modes
       /\ k.pc = "list" => k.tries # <<>> /\ k.sid # "none"
  /\ vpn \in {"on", "off", "gone"}
  /\ box.events \in 0..MaxEvents

\* Whatever calls interleave and whatever happens to the box: a listing is one the
\* box had during the call, a toggle says "true" only if the VPN was as wanted,
\* and it switches the VPN at most once, also when a 403 made it start again.
ClientCall ==
  [t \in Task |-> [want |-> task[t].want, seen |-> history[t].seen,
                   switches |-> history[t].switches, answer |-> task[t].answer]]
Client == INSTANCE VpnClient WITH MaxSwitches <- 1, call <- ClientCall
KeepsClientContract == Client!Spec

Ends(t) == ~At(t, "idle") /\ At(t, "idle")'
Works(t) == history[t].calm /\ box.power = "up" /\ ~raced

\* A call on a box that is up, while nobody changes anything there, gets a listing
\* or the VPN as wanted, or learns that the password is wrong: it never ends in an
\* outage, whatever SID, protocol and listing mode earlier calls left behind and
\* whatever the other calls do to them meanwhile.  (Without HTTPS only as
\* long as no two calls have overlapped: see the README.)
WorkingCallsSucceed ==
  [][\A t \in Task : Ends(t) /\ Works(t) =>
       \/ task'[t].answer = (IF t = Poll THEN vpn ELSE IF vpn = "gone" THEN "false" ELSE "true")
       \/ ~box.login /\ task'[t].answer \in {"denied", "false"}]_vars

\* Every call ends: retries, probes and fallbacks are bounded, even on a box that
\* refuses every login or forgets SIDs as fast as it hands them out.
CallsEnd == \A t \in Task : ~At(t, "idle") ~> At(t, "idle")
=============================================================================
