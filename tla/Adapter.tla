------------------------------- MODULE Adapter -------------------------------
(***************************************************************************)
(* FritzConnectionVPNSession (fritzconnection_session.py) with the library *)
(* fritzconnection installed.  The calls of a poll and of the switches run *)
(* in threads of the executor, which share the client with each other and  *)
(* with the event loop; the handlers of the errors run in the event loop.  *)
(* An action of a thread reaches from one access of the shared client, or  *)
(* one request, to the next.                                               *)
(*                                                                         *)
(* Without the library the class hands every call on to the session that   *)
(* the module Session is about.                                            *)
(***************************************************************************)
EXTENDS Naturals

CONSTANTS
  Poll,       \* the coordinator's poll
  Toggles,    \* callers of async_toggle_vpn
  Wants,      \* what they ask for: "on", "off" or either
  MaxEvents   \* bound: how often the box is disturbed

ASSUME WantsAssumption == Wants \subseteq {"on", "off"}
ASSUME MaxEventsAssumption == MaxEvents \in Nat

Task == {Poll} \union Toggles

VARIABLES
  client,   \* _use_tls, and the protocols that _fc and _fwg were built for
  task,     \* where each call is, and its local variables
  box,      \* external: power, https, login, events so far
  vpn,      \* external: the VPN, "on", "off" or "gone"
  history   \* per call: what the VPN was, how often it switched, was it disturbed

vars == <<client, task, box, vpn, history>>

Protocols == {"https", "http"}

-----------------------------------------------------------------------------
(* The shared client                                                       *)

\* invalidate_session
Invalidated == [tls |-> TRUE, fc |-> "none", fwg |-> "none"]

Built == client.fc # "none" /\ client.fwg # "none"

\* A call that is not running, and what the last one answered
Idle(answer) ==
  [pc |-> "idle", want |-> "list", answer |-> answer,
   job |-> "prime", url |-> "none", error |-> "none"]

At(t, pc) == task[t].pc = pc

\* History of a call: the states of the VPN, how often it switched it, and calm
\* while nothing disturbs the box or the client.
Unwatched == [seen |-> {}, switches |-> 0, calm |-> TRUE]

Goto(t, k) ==
  /\ task' = [task EXCEPT ![t] = k]
  /\ UNCHANGED <<box, vpn, history>>

Fails(t, error) ==
  Goto(t, [task[t] EXCEPT !.pc = "failed", !.url = "none", !.error = error])

Ends(t, answer) ==
  /\ task' = [task EXCEPT ![t] = Idle(answer)]
  /\ history' = [history EXCEPT ![t] = Unwatched]
  /\ UNCHANGED <<box, vpn>>

-----------------------------------------------------------------------------
(* What the box may answer: "connect" is a ConnectionError of requests     *)
(* (refused or dropped; a box without HTTPS refuses it), "other" any other *)
(* error, such as a bad status.                                            *)

Reachable(protocol) == box.power # "off" /\ (protocol = "https" => box.https)
Unstable == box.power # "up"

Errors(protocol) ==
  (IF ~Reachable(protocol) THEN {"connect"} ELSE {})
  \union (IF Unstable THEN {"connect", "timeout"} ELSE {})
  \union (IF Reachable(protocol) /\ Unstable THEN {"other"} ELSE {})
  \union (IF Reachable(protocol) /\ ~box.login THEN {"denied"} ELSE {})

Answering(protocol) == Reachable(protocol) /\ box.login

-----------------------------------------------------------------------------
(* Steps of a call                                                         *)

\* Of a box that does without HTTPS the first call has to find that out.
Settled == box.https \/ (~client.tls /\ Built)

\* async_get_vpn_connections, async_toggle_vpn
Begin(t, want) ==
  /\ At(t, "idle")
  /\ want = "list" <=> t = Poll
  /\ task' = [task EXCEPT ![t].pc = "ensure", ![t].want = want, ![t].answer = "none"]
  /\ LET others == {u \in Task : ~At(u, "idle")}
         calm == ~Unstable /\ (\A u \in others : history[u].calm) /\ (others # {} => Settled)
     IN history' = [u \in Task |->
          IF u = t THEN [Unwatched EXCEPT !.seen = {vpn}, !.calm = calm]
          ELSE [history[u] EXCEPT !.calm = @ /\ (u \in others => Settled)]]
  /\ UNCHANGED <<client, box, vpn>>

\* The client is there: the first job ends and the next starts, another uses it.
Ensured(t, k) ==
  Goto(t, IF k.job = "prime" THEN [k EXCEPT !.pc = "ensure", !.url = "none", !.job = "sync"]
          ELSE [k EXCEPT !.pc = "use", !.url = "none"])

\* _ensure_client, which reads _use_tls when it has to build one
Ensure(t) ==
  /\ At(t, "ensure")
  /\ IF Built THEN Ensured(t, task[t])
     ELSE Goto(t, [task[t] EXCEPT !.pc = "build",
                                  !.url = IF client.tls THEN "https" ELSE "http"])
  /\ UNCHANGED client

\* FritzConnection(...), which reads the descriptions of the box
Build(t) ==
  /\ At(t, "build")
  /\ \/ /\ Answering(task[t].url)
        /\ client' = [client EXCEPT !.fc = task[t].url]
        /\ Goto(t, [task[t] EXCEPT !.pc = "wireguard"])
     \/ \E error \in Errors(task[t].url) : Fails(t, error) /\ UNCHANGED client

\* FritzWireguard(fc=self._fc).  Without a client the library makes itself one for
\* its default address, where there is no such box.
Wireguard(t) ==
  /\ At(t, "wireguard")
  /\ IF client.fc = "none" THEN \E error \in {"connect", "timeout", "other"} : Fails(t, error)
     ELSE Goto(t, [task[t] EXCEPT !.pc = "store", !.url = client.fc])
  /\ UNCHANGED client

Store(t) ==
  /\ At(t, "store")
  /\ client' = [client EXCEPT !.fwg = task[t].url]
  /\ Ensured(t, task[t])

\* Mutant: the client is used without a look at it.
UseUnchecked(t) ==
  /\ At(t, "use")
  /\ Goto(t, [task[t] EXCEPT !.pc = "request", !.url = client.fwg])
  /\ UNCHANGED client

\* The assertion, or the attribute of None, when the client is gone again
Use(t) ==
  /\ At(t, "use")
  /\ IF client.fwg = "none" THEN Fails(t, "crash")
     ELSE Goto(t, [task[t] EXCEPT !.pc = "request", !.url = client.fwg])
  /\ UNCHANGED client

\* The request of the library, unless the box takes a toggle
Request(t) ==
  /\ At(t, "request")
  /\ LET k == task[t] IN
     \/ k.want = "list" /\ Answering(k.url) /\ Ends(t, vpn)
     \/ /\ k.want # "list" /\ vpn = "gone" /\ Answering(k.url)
        /\ (Ends(t, "false") \/ Fails(t, "other"))
     \/ \E error \in Errors(k.url) : Fails(t, error)
  /\ UNCHANGED client

Witnessed(state, h) ==
  [t \in Task |-> IF At(t, "idle") THEN h[t] ELSE [h[t] EXCEPT !.seen = @ \union {state}]]

Disturbed(h) ==
  [t \in Task |-> IF At(t, "idle") THEN h[t] ELSE [h[t] EXCEPT !.calm = FALSE]]

\* The box takes the toggle; its answer may be lost, or be an error, all the same.
Switched(t) ==
  /\ At(t, "request")
  /\ task[t].want # "list" /\ vpn # "gone" /\ Answering(task[t].url)
  /\ vpn' = task[t].want
  /\ \E pc \in {"taken", "lost"} :
       /\ task' = [task EXCEPT ![t].pc = pc]
       /\ LET h == [Witnessed(vpn', history) EXCEPT ![t].switches = @ + 1]
          IN history' = IF pc = "lost" \/ (vpn' # vpn /\ \E u \in Task \ {t} : ~At(u, "idle"))
                        THEN Disturbed(h) ELSE h
  /\ UNCHANGED <<client, box>>

AnswerArrives(t) ==
  /\ UNCHANGED client
  /\ \/ At(t, "taken") /\ Ends(t, "true")
     \/ At(t, "lost") /\ \E error \in {"connect", "timeout", "other"} : Fails(t, error)

\* The coordinator invalidates the session after a poll that failed for any reason
\* but the credentials; a switch does not.
GivesUp(t, invalidated) ==
  /\ client' = IF invalidated \/ t = Poll THEN Invalidated ELSE client
  /\ Ends(t, "outage")

\* Mutant: a lost connection is tried again however often it was.
FallsBackAgain(k) == TRUE

\* Mutant: no second attempt.
FallsBackNever(k) == FALSE

FallsBack(k) == k.job # "retry" /\ client.tls

\* The handlers of _async_with_https_http_fallback
Handle(t) ==
  /\ At(t, "failed")
  /\ LET k == task[t] IN
     CASE k.error = "timeout" -> GivesUp(t, TRUE)
       [] k.error = "connect" ->
            IF FallsBack(k)
            THEN /\ client' = [client EXCEPT !.tls = FALSE]
                 /\ Goto(t, [k EXCEPT !.pc = "close", !.job = "retry", !.error = "none"])
            ELSE GivesUp(t, TRUE)
       [] k.error = "denied" -> Ends(t, "denied") /\ UNCHANGED client
       [] OTHER -> GivesUp(t, FALSE)

\* _close_sync, which looks at the client and then uses it
Close(t) ==
  /\ At(t, "close")
  /\ Goto(t, [task[t] EXCEPT !.pc = IF client.fc = "none" THEN "ensure" ELSE "closing"])
  /\ UNCHANGED client

Closing(t) ==
  /\ At(t, "closing")
  /\ IF client.fc = "none" THEN Fails(t, "crash") /\ UNCHANGED client
     ELSE /\ client' = [client EXCEPT !.fc = "none", !.fwg = "none"]
          /\ Goto(t, [task[t] EXCEPT !.pc = "ensure"])

CallStep(t) ==
  \/ Ensure(t) \/ Build(t) \/ Wireguard(t) \/ Store(t) \/ Use(t) \/ Request(t)
  \/ Switched(t) \/ AnswerArrives(t) \/ Handle(t) \/ Close(t) \/ Closing(t)

-----------------------------------------------------------------------------
(* The box and its user                                                    *)

\* A disturbance counts; what follows from one does not.
Counted == box.events < MaxEvents

GoesDown ==
  /\ box.power = "up" /\ Counted
  /\ box' = [box EXCEPT !.power = "off", !.events = @ + 1]
  /\ history' = Disturbed(history)
  /\ UNCHANGED <<client, task, vpn>>

Recovers ==
  /\ \/ box.power = "off" /\ box' = [box EXCEPT !.power = "booting"]
     \/ box.power = "booting" /\ box' = [box EXCEPT !.power = "up"]
  /\ UNCHANGED <<client, task, vpn, history>>

PasswordChanges ==
  /\ Counted
  /\ box' = [box EXCEPT !.login = ~@, !.events = @ + 1]
  /\ history' = Disturbed(history)
  /\ UNCHANGED <<client, task, vpn>>

UserChanges ==
  /\ Counted
  /\ box' = [box EXCEPT !.events = @ + 1]
  /\ vpn' \in {"on", "off", "gone"} \ {vpn}
  /\ history' = Disturbed(Witnessed(vpn', history))
  /\ UNCHANGED <<client, task>>

Environment == GoesDown \/ Recovers \/ PasswordChanges \/ UserChanges

-----------------------------------------------------------------------------

\* FritzConnectionVPNSession.__init__, with no call made yet
Init ==
  /\ client = Invalidated
  /\ task = [t \in Task |-> Idle("outage")]
  /\ vpn \in {"on", "off", "gone"}
  /\ \E https \in BOOLEAN :
       box = [power |-> "up", https |-> https, login |-> TRUE, events |-> 0]
  /\ history = [t \in Task |-> Unwatched]

Next ==
  \/ \E t \in Task : \/ \E want \in {"list"} \union Wants : Begin(t, want)
                     \/ CallStep(t)
  \/ Environment

Spec == Init /\ [][Next]_vars

\* Every request has a timeout, so every job of the executor ends.
FairSpec == Spec /\ \A t \in Task : WF_vars(CallStep(t))

-----------------------------------------------------------------------------
(* Properties                                                              *)

Pcs == {"idle", "ensure", "build", "wireguard", "store", "use", "request", "taken",
        "lost", "failed", "close", "closing"}
Answers == {"outage", "denied", "false", "true", "on", "off", "gone"}

\* The client, the calls and the box have their types, and every request goes to a
\* client that exists, whatever the other threads did to the shared one.
TypeOK ==
  /\ client \in [tls : BOOLEAN, fc : Protocols \union {"none"}, fwg : Protocols \union {"none"}]
  /\ \A t \in Task : LET k == task[t] IN
       /\ k.pc \in Pcs /\ k.want \in {"list", "on", "off"}
       /\ IF k.pc = "idle" THEN k.answer \in Answers ELSE k.answer = "none"
       /\ k.job \in {"prime", "sync", "retry"}
       /\ k.pc \in {"build", "wireguard", "store", "request", "taken", "lost"}
          <=> k.url \in Protocols
       /\ k.pc = "failed" <=> k.error \in {"connect", "timeout", "other", "denied", "crash"}
  /\ vpn \in {"on", "off", "gone"}
  /\ box.events \in 0..MaxEvents

\* The promise of VpnClient, with one difference from Session: a call whose answer
\* was lost is repeated over HTTP, so that it may switch the VPN twice, but no more.
ClientCall ==
  [t \in Task |-> [want |-> task[t].want, seen |-> history[t].seen,
                   switches |-> history[t].switches, answer |-> task[t].answer]]
Client == INSTANCE VpnClient WITH MaxSwitches <- 2, call <- ClientCall
KeepsClientContract == Client!Spec

Returns(t) == ~At(t, "idle") /\ At(t, "idle")'

\* A call on a box that is up gets a listing or the VPN as wanted, or learns that
\* the password is wrong, whatever client, protocol and half-built state earlier
\* calls left behind, provided that no call it overlaps met a disturbance.  That
\* leaves out calls whose client is taken away (_close_sync, invalidate_session) by one
\* that met a disturbance, and by Settled calls that overlap on a box without HTTPS
\* before a client was built for HTTP: two threads may then build it for two protocols.
WorkingCallsSucceed ==
  [][\A t \in Task : Returns(t) /\ history[t].calm =>
       \/ t = Poll /\ task'[t].answer = vpn
       \/ t # Poll /\ (IF vpn = "gone" THEN task'[t].answer \in {"false", "outage"}
                       ELSE task'[t].answer = "true")
       \/ ~box.login /\ task'[t].answer = "denied"]_vars

\* Every call ends: the second attempt over HTTP is the last.
CallsEnd == \A t \in Task : ~At(t, "idle") ~> At(t, "idle")
=============================================================================
