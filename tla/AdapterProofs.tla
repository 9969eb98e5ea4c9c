---------------------------- MODULE AdapterProofs ----------------------------
(***************************************************************************)
(* The adapter implements the client that the coordinator relies on, for   *)
(* any number of callers and disturbances.  The argument is about what a   *)
(* call has done so far: before its second attempt it has switched the VPN *)
(* once at most, and only in its last request; each attempt adds one.      *)
(* Calls that nothing disturbs succeed: no error but a wrong password is   *)
(* left for them, once the client is built for a protocol of the box.      *)
(***************************************************************************)
EXTENDS Adapter, TLAPS

VpnStates == {"on", "off", "gone"}
MaybeProtocols == {"https", "http", "none"}

Clients == [tls : BOOLEAN, fc : MaybeProtocols, fwg : MaybeProtocols]
Calls == [pc : Pcs, want : {"list", "on", "off"}, answer : Answers \union {"none"},
          job : {"prime", "sync", "retry"}, url : MaybeProtocols,
          error : {"none", "connect", "timeout", "other", "denied", "crash"}]
Histories == [seen : SUBSET VpnStates, switches : Nat, calm : BOOLEAN]
PowerStates == {"up", "off", "booting"}
States == [power : PowerStates, https : BOOLEAN, login : BOOLEAN, events : 0..MaxEvents]

Typed ==
  /\ client \in Clients
  /\ task \in [Task -> Calls]
  /\ history \in [Task -> Histories]
  /\ box \in States
  /\ vpn \in VpnStates

\* How a call stands: where it waits, what it waits for, and with which answer
WellFormed(k) ==
  /\ IF k.pc = "idle" THEN k.answer \in Answers ELSE k.answer = "none"
  /\ k.pc \in {"build", "wireguard", "store", "request", "taken", "lost"}
     <=> k.url \in Protocols
  /\ k.pc = "failed" <=> k.error \in {"connect", "timeout", "other", "denied", "crash"}

\* What it has done to the VPN, and what it has seen of it
Accounted(k, h) ==
  IF k.pc = "idle"
  THEN k.want = "list" /\ h.seen = {} /\ h.switches = 0
  ELSE /\ vpn \in h.seen
       /\ k.pc \in {"taken", "lost"} => k.want # "list"
       /\ k.pc = "taken" => k.want \in h.seen
       /\ h.switches <= 2
       /\ k.job # "retry" \/ k.pc \notin {"taken", "lost", "failed"} => h.switches <= 1
       /\ k.job # "retry" /\ k.pc \notin {"taken", "lost", "failed"} => h.switches = 0

IInv ==
  /\ Typed
  /\ \A t \in Task : WellFormed(task[t]) /\ Accounted(task[t], history[t])

-----------------------------------------------------------------------------

LEMMA InvImpliesTypeOK == IInv => TypeOK
<1> SUFFICES ASSUME IInv PROVE TypeOK
  OBVIOUS
<1>1. client \in [tls : BOOLEAN, fc : Protocols \union {"none"}, fwg : Protocols \union {"none"}]
  BY DEF IInv, Typed, Clients, MaybeProtocols, Protocols
<1>2. ASSUME NEW t \in Task
      PROVE  /\ task[t].pc \in Pcs /\ task[t].want \in {"list", "on", "off"}
             /\ task[t].job \in {"prime", "sync", "retry"}
             /\ WellFormed(task[t])
  BY DEF IInv, Typed, Calls
<1>3. vpn \in {"on", "off", "gone"} /\ box.events \in 0..MaxEvents
  BY DEF IInv, Typed, VpnStates, States
<1> QED
  BY <1>1, <1>2, <1>3 DEF TypeOK, WellFormed

LEMMA InitEstablishesInv == Init => IInv
<1> SUFFICES ASSUME Init PROVE IInv
  OBVIOUS
<1>1. Typed
  BY MaxEventsAssumption DEF Init, Typed, Clients, Calls, Histories, States, PowerStates, VpnStates,
     MaybeProtocols, Pcs, Answers, Invalidated, Idle, Unwatched
<1>2. ASSUME NEW t \in Task
      PROVE  WellFormed(task[t]) /\ Accounted(task[t], history[t])
  BY DEF Init, WellFormed, Accounted, Idle, Unwatched, Protocols, Answers
<1> QED
  BY <1>1, <1>2 DEF IInv

-----------------------------------------------------------------------------
(* Steps of one call, in general                                           *)

\* A call that goes on or fails without touching the VPN.
LEMMA GotoKeepsInv ==
  ASSUME IInv, NEW t \in Task, NEW k \in Calls, Goto(t, k), client' \in Clients,
         WellFormed(k), Accounted(k, history[t])
  PROVE  IInv'
<1>1. task' = [task EXCEPT ![t] = k] /\ box' = box /\ vpn' = vpn /\ history' = history
  BY DEF Goto
<1>2. Typed'
  BY <1>1 DEF IInv, Typed
<1>3. ASSUME NEW u \in Task
      PROVE  WellFormed(task[u])' /\ Accounted(task[u], history[u])'
  <2>1. task'[u] = IF u = t THEN k ELSE task[u]
    BY <1>1 DEF IInv, Typed
  <2> QED
    BY <1>1, <2>1 DEF IInv, WellFormed, Accounted
<1> QED
  BY <1>2, <1>3 DEF IInv

LEMMA FailsKeepsInv ==
  ASSUME IInv, NEW t \in Task, ~At(t, "idle"), client' \in Clients,
         NEW error \in {"connect", "timeout", "other", "denied", "crash"}, Fails(t, error)
  PROVE  IInv'
<1> DEFINE k == [task[t] EXCEPT !.pc = "failed", !.url = "none", !.error = error]
<1>0. task[t] \in Calls
  BY DEF IInv, Typed
<1>1. k \in Calls
  BY <1>0 DEF Calls, Pcs, MaybeProtocols
<1>2. WellFormed(task[t]) /\ Accounted(task[t], history[t]) /\ history[t] \in Histories
  BY DEF IInv, Typed
<1>3. WellFormed(k) /\ Accounted(k, history[t])
  BY <1>0, <1>2 DEF WellFormed, Accounted, At, Calls, Histories, Protocols
<1>4. Goto(t, k)
  BY DEF Fails
<1> HIDE DEF k
<1> QED
  BY <1>1, <1>3, <1>4, GotoKeepsInv

LEMMA EndsKeepsInv ==
  ASSUME IInv, NEW t \in Task, client' \in Clients,
         NEW answer \in Answers, Ends(t, answer)
  PROVE  IInv'
<1>1. /\ task' = [task EXCEPT ![t] = Idle(answer)] /\ box' = box /\ vpn' = vpn
      /\ history' = [history EXCEPT ![t] = Unwatched]
  BY DEF Ends
<1>2. Idle(answer) \in Calls /\ Unwatched \in Histories
  BY DEF Idle, Unwatched, Calls, Histories, Pcs, MaybeProtocols
<1>3. Typed'
  BY <1>1, <1>2 DEF IInv, Typed
<1>4. WellFormed(Idle(answer)) /\ Accounted(Idle(answer), Unwatched)'
  BY DEF WellFormed, Accounted, Idle, Unwatched, Protocols
<1>5. ASSUME NEW u \in Task
      PROVE  WellFormed(task[u])' /\ Accounted(task[u], history[u])'
  <2>1. /\ task'[u] = IF u = t THEN Idle(answer) ELSE task[u]
        /\ history'[u] = IF u = t THEN Unwatched ELSE history[u]
    BY <1>1 DEF IInv, Typed
  <2> QED
    BY <1>1, <1>4, <2>1 DEF IInv, WellFormed, Accounted
<1> QED
  BY <1>3, <1>5 DEF IInv

\* Where a call is neither at the end nor after its last request
Underway(k) == k.pc \notin {"idle", "taken", "lost", "failed"}

\* It may go on from there; after a failure it may, if that was its first attempt.
LEMMA GoesOnKeepsInv ==
  ASSUME IInv, NEW t \in Task, NEW k \in Calls, Goto(t, k), client' \in Clients,
         Underway(k), WellFormed(k), k.want = task[t].want,
         \/ Underway(task[t]) /\ (k.job = "retry" <=> task[t].job = "retry")
         \/ task[t].pc = "failed" /\ task[t].job # "retry" /\ k.job = "retry"
  PROVE  IInv'
<1>1. Accounted(task[t], history[t]) /\ task[t] \in Calls /\ history[t] \in Histories
  BY DEF IInv, Typed
<1>2. Accounted(k, history[t])
  BY <1>1 DEF Accounted, Underway, Histories
<1> QED
  BY <1>2, GotoKeepsInv

\* What the steps of a call start from
LEMMA CallFacts ==
  ASSUME IInv, NEW t \in Task
  PROVE  /\ task[t] \in Calls /\ WellFormed(task[t]) /\ Accounted(task[t], history[t])
         /\ history[t] \in Histories /\ client \in Clients
         /\ task \in [Task -> Calls] /\ history \in [Task -> Histories]
BY DEF IInv, Typed

LEMMA EnsuredKeepsInv ==
  ASSUME IInv, NEW t \in Task, Underway(task[t]), client' \in Clients, Ensured(t, task[t])
  PROVE  IInv'
<1>1. /\ task[t] \in Calls /\ WellFormed(task[t])
  BY CallFacts
<1>2. CASE task[t].job = "prime"
  <2> DEFINE k == [task[t] EXCEPT !.pc = "ensure", !.url = "none", !.job = "sync"]
  <2>1. Goto(t, k)
    BY <1>2 DEF Ensured
  <2>2. k \in Calls /\ Underway(k) /\ k.want = task[t].want /\ k.job = "sync"
    BY <1>1 DEF Calls, Pcs, MaybeProtocols, Underway
  <2>3. WellFormed(k)
    BY <1>1 DEF WellFormed, Calls, Protocols, Underway
  <2> HIDE DEF k
  <2> QED
    BY <1>2, <2>1, <2>2, <2>3, GoesOnKeepsInv
<1>3. CASE task[t].job # "prime"
  <2> DEFINE k == [task[t] EXCEPT !.pc = "use", !.url = "none"]
  <2>1. Goto(t, k)
    BY <1>3 DEF Ensured
  <2>2. k \in Calls /\ Underway(k) /\ k.want = task[t].want /\ k.job = task[t].job
    BY <1>1 DEF Calls, Pcs, MaybeProtocols, Underway
  <2>3. WellFormed(k)
    BY <1>1 DEF WellFormed, Calls, Protocols, Underway
  <2> HIDE DEF k
  <2> QED
    BY <2>1, <2>2, <2>3, GoesOnKeepsInv
<1> QED
  BY <1>2, <1>3

\* Any other step that only moves on
LEMMA MovesOnKeepsInv ==
  ASSUME IInv, NEW t \in Task, Underway(task[t]), client' \in Clients,
         NEW pc \in Pcs, NEW url \in MaybeProtocols,
         pc \in {"ensure", "closing"} \/ url # "none",
         pc \in {"ensure", "closing"} => url = "none",
         pc \in {"ensure", "closing", "build", "wireguard", "store", "request"},
         Goto(t, [task[t] EXCEPT !.pc = pc, !.url = url])
  PROVE  IInv'
<1> DEFINE k == [task[t] EXCEPT !.pc = pc, !.url = url]
<1>1. task[t] \in Calls /\ WellFormed(task[t])
  BY CallFacts
<1>2. k \in Calls /\ Underway(k) /\ k.want = task[t].want /\ k.job = task[t].job
  BY <1>1 DEF Calls, Underway
<1>3. WellFormed(k)
  BY <1>1 DEF WellFormed, Calls, Protocols, MaybeProtocols, Underway
<1> HIDE DEF k
<1> QED
  BY <1>2, <1>3, GoesOnKeepsInv DEF k

-----------------------------------------------------------------------------
(* The actions                                                             *)

LEMMA EnsureKeepsInv ==
  ASSUME IInv, NEW t \in Task, Ensure(t)
  PROVE  IInv'
<1>1. /\ task[t] \in Calls /\ WellFormed(task[t]) /\ task[t].pc = "ensure"
      /\ client' = client /\ client \in Clients
  BY CallFacts DEF Ensure, At
<1>2. CASE Built
  BY <1>1, <1>2, EnsuredKeepsInv DEF Ensure, Underway
<1>3. CASE ~Built
  <2> DEFINE url == IF client.tls THEN "https" ELSE "http"
  <2>1. Goto(t, [task[t] EXCEPT !.pc = "build", !.url = url])
    BY <1>3 DEF Ensure
  <2>2. url \in MaybeProtocols /\ url # "none"
    BY DEF MaybeProtocols
  <2> HIDE DEF url
  <2> QED
    BY <1>1, <2>1, <2>2, MovesOnKeepsInv DEF Underway, Pcs
<1> QED
  BY <1>2, <1>3

LEMMA BuildKeepsInv ==
  ASSUME IInv, NEW t \in Task, Build(t)
  PROVE  IInv'
<1>1. /\ task[t] \in Calls /\ WellFormed(task[t]) /\ task[t].pc = "build" /\ client \in Clients
  BY CallFacts DEF Build, At
<1>2. task[t].url \in Protocols
  BY <1>1 DEF WellFormed
<1>3. CASE client' = [client EXCEPT !.fc = task[t].url] /\ Goto(t, [task[t] EXCEPT !.pc = "wireguard"])
  <2>1. client' \in Clients
    BY <1>1, <1>2, <1>3 DEF Clients, Protocols, MaybeProtocols
  <2>2. [task[t] EXCEPT !.pc = "wireguard"] = [task[t] EXCEPT !.pc = "wireguard", !.url = task[t].url]
    BY <1>1 DEF Calls
  <2> QED
    BY <1>1, <1>2, <1>3, <2>1, <2>2, MovesOnKeepsInv DEF Underway, Pcs, Protocols, MaybeProtocols
<1>4. CASE \E error \in Errors(task[t].url) : Fails(t, error) /\ UNCHANGED client
  BY <1>1, <1>4, FailsKeepsInv DEF Errors, At
<1> QED
  BY <1>3, <1>4 DEF Build

LEMMA WireguardKeepsInv ==
  ASSUME IInv, NEW t \in Task, Wireguard(t)
  PROVE  IInv'
<1>1. /\ task[t] \in Calls /\ task[t].pc = "wireguard"
      /\ client' = client /\ client \in Clients
  BY CallFacts DEF Wireguard, At
<1>2. CASE client.fc = "none"
  BY <1>1, <1>2, FailsKeepsInv DEF Wireguard, At
<1>3. CASE client.fc # "none"
  <2>1. client.fc \in MaybeProtocols
    BY <1>1 DEF Clients
  <2> QED
    BY <1>1, <1>3, <2>1, MovesOnKeepsInv DEF Wireguard, Underway, Pcs
<1> QED
  BY <1>2, <1>3

LEMMA StoreKeepsInv ==
  ASSUME IInv, NEW t \in Task, Store(t)
  PROVE  IInv'
<1>1. /\ task[t] \in Calls /\ task[t].pc = "store" /\ client \in Clients
      /\ client' = [client EXCEPT !.fwg = task[t].url] /\ Ensured(t, task[t])
  BY CallFacts DEF Store, At
<1>2. client' \in Clients
  BY <1>1 DEF Clients, Calls
<1> QED
  BY <1>1, <1>2, EnsuredKeepsInv DEF Underway

LEMMA UseKeepsInv ==
  ASSUME IInv, NEW t \in Task, Use(t)
  PROVE  IInv'
<1>1. /\ task[t] \in Calls /\ task[t].pc = "use"
      /\ client' = client /\ client \in Clients
  BY CallFacts DEF Use, At
<1>2. CASE client.fwg = "none"
  BY <1>1, <1>2, FailsKeepsInv DEF Use, At
<1>3. CASE client.fwg # "none"
  <2>1. client.fwg \in MaybeProtocols
    BY <1>1 DEF Clients
  <2> QED
    BY <1>1, <1>3, <2>1, MovesOnKeepsInv DEF Use, Underway, Pcs
<1> QED
  BY <1>2, <1>3

LEMMA RequestKeepsInv ==
  ASSUME IInv, NEW t \in Task, Request(t)
  PROVE  IInv'
<1>1. /\ task[t] \in Calls /\ task[t].pc = "request" /\ vpn \in Answers
      /\ client' = client /\ client \in Clients
  BY CallFacts DEF Request, At, IInv, Typed, VpnStates, Answers
<1>2. CASE Ends(t, vpn)
  BY <1>1, <1>2, EndsKeepsInv
<1>3. CASE Ends(t, "false")
  BY <1>1, <1>3, EndsKeepsInv DEF Answers
<1>4. CASE Fails(t, "other")
  BY <1>1, <1>4, FailsKeepsInv DEF At
<1>5. CASE \E error \in Errors(task[t].url) : Fails(t, error)
  BY <1>1, <1>5, FailsKeepsInv DEF Errors, At
<1> QED
  BY <1>2, <1>3, <1>4, <1>5 DEF Request

LEMMA AnswerArrivesKeepsInv ==
  ASSUME IInv, NEW t \in Task, AnswerArrives(t)
  PROVE  IInv'
<1>1. client' = client /\ client \in Clients
  BY CallFacts DEF AnswerArrives
<1>2. CASE Ends(t, "true")
  BY <1>1, <1>2, EndsKeepsInv DEF Answers
<1>3. CASE At(t, "lost") /\ \E error \in {"connect", "timeout", "other"} : Fails(t, error)
  BY <1>1, <1>3, FailsKeepsInv DEF At
<1> QED
  BY <1>2, <1>3 DEF AnswerArrives

LEMMA HandleKeepsInv ==
  ASSUME IInv, NEW t \in Task, Handle(t)
  PROVE  IInv'
<1>1. /\ task[t] \in Calls /\ task[t].pc = "failed" /\ client \in Clients
      /\ WellFormed(task[t])
  BY CallFacts DEF Handle, At
<1>2. ASSUME NEW invalidated \in BOOLEAN, GivesUp(t, invalidated)
      PROVE  IInv'
  <2>1. client' \in Clients
    BY <1>1, <1>2 DEF GivesUp, Clients, Invalidated, MaybeProtocols
  <2> QED
    BY <1>2, <2>1, EndsKeepsInv DEF GivesUp, Answers
<1>3. CASE Ends(t, "denied") /\ UNCHANGED client
  BY <1>1, <1>3, EndsKeepsInv DEF Answers
<1> DEFINE k == [task[t] EXCEPT !.pc = "close", !.job = "retry", !.error = "none"]
<1>4. CASE /\ task[t].job # "retry"
           /\ client' = [client EXCEPT !.tls = FALSE]
           /\ Goto(t, k)
  <2>1. client' \in Clients
    BY <1>1, <1>4 DEF Clients
  <2>2. k \in Calls /\ Underway(k) /\ k.want = task[t].want /\ k.job = "retry"
    BY <1>1 DEF Calls, Pcs, Underway
  <2>3. WellFormed(k)
    BY <1>1 DEF WellFormed, Calls, Protocols
  <2>4. Goto(t, k)
    BY <1>4
  <2> HIDE DEF k
  <2> QED
    BY <1>1, <1>4, <2>1, <2>2, <2>3, <2>4, GoesOnKeepsInv
<1>5. \/ \E invalidated \in BOOLEAN : GivesUp(t, invalidated)
      \/ Ends(t, "denied") /\ UNCHANGED client
      \/ /\ task[t].job # "retry"
         /\ client' = [client EXCEPT !.tls = FALSE]
         /\ Goto(t, k)
  BY DEF Handle, FallsBack
<1> QED
  BY <1>2, <1>3, <1>4, <1>5

LEMMA CloseKeepsInv ==
  ASSUME IInv, NEW t \in Task, Close(t) \/ Closing(t)
  PROVE  IInv'
<1>1. /\ task[t] \in Calls /\ WellFormed(task[t]) /\ client \in Clients
      /\ task[t].pc \in {"close", "closing"}
  BY CallFacts DEF Close, Closing, At
<1>2. task[t].url = "none"
  BY <1>1 DEF WellFormed, Calls, MaybeProtocols, Protocols
<1>3. ASSUME NEW pc \in {"ensure", "closing"}, Goto(t, [task[t] EXCEPT !.pc = pc]),
             client' \in Clients
      PROVE  IInv'
  <2>1. [task[t] EXCEPT !.pc = pc] = [task[t] EXCEPT !.pc = pc, !.url = "none"]
    BY <1>1, <1>2 DEF Calls
  <2> QED
    BY <1>1, <1>3, <2>1, MovesOnKeepsInv DEF Underway, Pcs, MaybeProtocols
<1>4. CASE Close(t)
  <2>1. client' = client /\ \E pc \in {"ensure", "closing"} : Goto(t, [task[t] EXCEPT !.pc = pc])
    BY <1>4 DEF Close
  <2> QED
    BY <1>1, <1>3, <2>1
<1>5. CASE Closing(t) /\ client.fc = "none"
  BY <1>1, <1>5, FailsKeepsInv DEF Closing, At
<1>6. CASE Closing(t) /\ client.fc # "none"
  <2>1. client' = [client EXCEPT !.fc = "none", !.fwg = "none"]
        /\ Goto(t, [task[t] EXCEPT !.pc = "ensure"])
    BY <1>6 DEF Closing
  <2>2. client' \in Clients
    BY <1>1, <2>1 DEF Clients, MaybeProtocols
  <2> QED
    BY <1>3, <2>1, <2>2
<1> QED
  BY <1>4, <1>5, <1>6

LEMMA BeginKeepsInv ==
  ASSUME IInv, NEW t \in Task, NEW want \in {"list"} \union Wants, Begin(t, want)
  PROVE  IInv'
<1> DEFINE k == [task[t] EXCEPT !.pc = "ensure", !.want = want, !.answer = "none"]
<1>1. /\ task[t] \in Calls /\ WellFormed(task[t]) /\ task[t].pc = "idle"
      /\ client' = client /\ client \in Clients /\ box' = box /\ vpn' = vpn
      /\ task' = [task EXCEPT ![t] = k]
  BY CallFacts DEF Begin, At
<1>2. want \in {"list", "on", "off"}
  BY WantsAssumption
<1>3. k \in Calls /\ WellFormed(k)
  BY <1>1, <1>2 DEF Calls, Pcs, WellFormed, Protocols
<1>4. PICK calm \in BOOLEAN :
        history' = [u \in Task |->
          IF u = t THEN [Unwatched EXCEPT !.seen = {vpn}, !.calm = calm]
          ELSE [history[u] EXCEPT !.calm = @ /\ (u \in {w \in Task : ~At(w, "idle")} => Settled)]]
  BY DEF Begin
<1>5. ASSUME NEW u \in Task
      PROVE  /\ history'[u] \in Histories
             /\ u = t => history'[u].seen = {vpn} /\ history'[u].switches = 0
             /\ u # t => /\ history'[u].seen = history[u].seen
                         /\ history'[u].switches = history[u].switches
  <2>1. vpn \in VpnStates /\ history[u] \in Histories
    BY CallFacts DEF IInv, Typed
  <2> QED
    BY <1>4, <2>1 DEF Histories, Unwatched
<1>6. history' \in [Task -> Histories]
  BY <1>4, <1>5
<1>7. Typed'
  BY <1>1, <1>3, <1>6 DEF IInv, Typed
<1>8. ASSUME NEW u \in Task
      PROVE  WellFormed(task[u])' /\ Accounted(task[u], history[u])'
  <2>1. task'[u] = IF u = t THEN k ELSE task[u]
    BY <1>1, CallFacts
  <2>2. WellFormed(task[u]) /\ Accounted(task[u], history[u])
    BY CallFacts
  <2>3. k.pc = "ensure"
    BY <1>1 DEF Calls
  <2> HIDE DEF k
  <2> QED
    BY <1>1, <1>3, <1>5, <2>1, <2>2, <2>3 DEF WellFormed, Accounted
<1> QED
  BY <1>7, <1>8 DEF IInv

\* What running calls have seen when the VPN changes, by whoever's hand
WitnessedBy(state, h) ==
  /\ h \in [Task -> Histories]
  /\ \A u \in Task :
       h[u].seen = IF At(u, "idle") THEN history[u].seen ELSE history[u].seen \union {state}

LEMMA WitnessedFacts ==
  ASSUME IInv, NEW state \in VpnStates
  PROVE  /\ WitnessedBy(state, Witnessed(state, history))
         /\ \A u \in Task : Witnessed(state, history)[u].switches = history[u].switches
<1>1. ASSUME NEW u \in Task
      PROVE  /\ Witnessed(state, history)[u] \in Histories
             /\ Witnessed(state, history)[u].seen =
                  IF At(u, "idle") THEN history[u].seen ELSE history[u].seen \union {state}
             /\ Witnessed(state, history)[u].switches = history[u].switches
  <2>1. history[u] \in Histories
    BY CallFacts
  <2> QED
    BY <2>1 DEF Witnessed, Histories
<1> QED
  BY <1>1 DEF WitnessedBy, Witnessed

LEMMA DisturbedFacts ==
  ASSUME IInv, NEW h \in [Task -> Histories]
  PROVE  /\ Disturbed(h) \in [Task -> Histories]
         /\ \A u \in Task : Disturbed(h)[u].seen = h[u].seen /\ Disturbed(h)[u].switches = h[u].switches
<1>1. ASSUME NEW u \in Task
      PROVE  /\ Disturbed(h)[u] \in Histories
             /\ Disturbed(h)[u].seen = h[u].seen /\ Disturbed(h)[u].switches = h[u].switches
  BY DEF Disturbed, Histories
<1> QED
  BY <1>1 DEF Disturbed

LEMMA SwitchedFacts ==
  ASSUME IInv, NEW t \in Task, Switched(t)
  PROVE  /\ WitnessedBy(vpn', history')
         /\ history'[t].switches = history[t].switches + 1
         /\ \A u \in Task \ {t} : history'[u].switches = history[u].switches
         /\ vpn' \in VpnStates
<1>1. task[t] \in Calls /\ history[t] \in Histories /\ history \in [Task -> Histories]
  BY CallFacts
<1>2. vpn' \in VpnStates
  BY <1>1 DEF Switched, Calls, VpnStates
<1> DEFINE w == Witnessed(vpn', history)
           h == [w EXCEPT ![t].switches = @ + 1]
<1>3. /\ WitnessedBy(vpn', w)
      /\ \A u \in Task : w[u].switches = history[u].switches
  BY <1>2, WitnessedFacts
<1>4. history' = h \/ history' = Disturbed(h)
  BY DEF Switched
<1> HIDE DEF w
<1>5. ASSUME NEW u \in Task
      PROVE  /\ h[u] \in Histories /\ h[u].seen = w[u].seen
             /\ h[u].switches = IF u = t THEN history[u].switches + 1 ELSE history[u].switches
  BY <1>1, <1>3 DEF WitnessedBy, Histories
<1>6. h \in [Task -> Histories]
  BY <1>3, <1>5 DEF WitnessedBy
<1> HIDE DEF h
<1>7. WitnessedBy(vpn', h)
  BY <1>3, <1>5, <1>6 DEF WitnessedBy
<1>8. /\ history' \in [Task -> Histories]
      /\ \A u \in Task : history'[u].seen = h[u].seen /\ history'[u].switches = h[u].switches
  BY <1>4, <1>6, DisturbedFacts
<1>9. WitnessedBy(vpn', history')
  BY <1>7, <1>8 DEF WitnessedBy
<1> QED
  BY <1>2, <1>5, <1>8, <1>9

LEMMA SwitchedKeepsInv ==
  ASSUME IInv, NEW t \in Task, Switched(t)
  PROVE  IInv'
<1>1. /\ task[t] \in Calls /\ WellFormed(task[t]) /\ task[t].pc = "request"
      /\ task[t].want # "list" /\ vpn' = task[t].want
      /\ client' = client /\ box' = box
      /\ Accounted(task[t], history[t]) /\ history[t] \in Histories
  BY CallFacts DEF Switched, At
<1>2. PICK pc \in {"taken", "lost"} : task' = [task EXCEPT ![t].pc = pc]
  BY DEF Switched
<1> DEFINE k == [task[t] EXCEPT !.pc = pc]
<1>3. /\ k \in Calls /\ WellFormed(k) /\ k.pc \in {"taken", "lost"}
      /\ k.want = task[t].want /\ k.job = task[t].job
  BY <1>1 DEF Calls, Pcs, WellFormed, Protocols
<1>4. \A u \in Task : task'[u] = IF u = t THEN k ELSE task[u]
  BY <1>2, CallFacts
<1>5. task' \in [Task -> Calls]
  BY <1>2, <1>3, CallFacts
<1> HIDE DEF k
<1>6. WitnessedBy(vpn', history')
  BY SwitchedFacts
<1>7. Typed'
  BY <1>1, <1>5, <1>6, SwitchedFacts DEF IInv, Typed, WitnessedBy
<1>8. ASSUME NEW u \in Task
      PROVE  WellFormed(task[u])' /\ Accounted(task[u], history[u])'
  <2>1. /\ WellFormed(task[u]) /\ Accounted(task[u], history[u])
        /\ history'[u].seen = IF At(u, "idle") THEN history[u].seen ELSE history[u].seen \union {vpn'}
    BY <1>6, CallFacts DEF WitnessedBy
  <2>2. CASE u = t
    <3>1. /\ history'[t].switches = history[t].switches + 1 /\ vpn' \in history'[t].seen
          /\ history[t].switches \in Nat
      BY <1>1, <2>1, <2>2, SwitchedFacts DEF At, Histories
    <3>2. history[t].switches <= 1 /\ (task[t].job # "retry" => history[t].switches = 0)
      BY <1>1 DEF Accounted
    <3>3. Accounted(task[t], history[t])'
      BY <1>1, <1>3, <1>4, <3>1, <3>2 DEF Accounted
    <3>4. WellFormed(task[t])'
      BY <1>3, <1>4 DEF WellFormed
    <3> QED
      BY <2>2, <3>3, <3>4
  <2>3. CASE u # t
    <3>1. history'[u].switches = history[u].switches /\ task'[u] = task[u]
      BY <1>4, <2>3, SwitchedFacts
    <3> QED
      BY <2>1, <3>1 DEF WellFormed, Accounted, At
  <2> QED
    BY <2>2, <2>3
<1> QED
  BY <1>7, <1>8 DEF IInv

\* A step of the box or its user leaves the calls and the client alone.
LEMMA OutsideKeepsInv ==
  ASSUME IInv, UNCHANGED <<client, task>>, box' \in States, vpn' \in VpnStates,
         history' \in [Task -> Histories],
         \A u \in Task : /\ history'[u].switches = history[u].switches
                         /\ history[u].seen \subseteq history'[u].seen
                         /\ At(u, "idle") => history'[u].seen = history[u].seen
                         /\ ~At(u, "idle") => vpn' \in history'[u].seen
  PROVE  IInv'
<1>1. Typed'
  BY DEF IInv, Typed
<1>2. ASSUME NEW u \in Task
      PROVE  WellFormed(task[u])' /\ Accounted(task[u], history[u])'
  BY CallFacts DEF WellFormed, Accounted, At
<1> QED
  BY <1>1, <1>2 DEF IInv

LEMMA EnvironmentKeepsInv ==
  ASSUME IInv, Environment
  PROVE  IInv'
<1>1. /\ box \in States /\ vpn \in VpnStates /\ history \in [Task -> Histories]
      /\ \A u \in Task : ~At(u, "idle") => vpn \in history[u].seen
  BY CallFacts DEF IInv, Typed, Accounted, At
<1>2. \A n \in 0..MaxEvents : n < MaxEvents => n + 1 \in 0..MaxEvents
  BY MaxEventsAssumption
<1>3. CASE GoesDown
  <2>1. box' \in States
    BY <1>1, <1>2, <1>3 DEF GoesDown, Counted, States, PowerStates
  <2> QED
    BY <1>1, <1>3, <2>1, DisturbedFacts, OutsideKeepsInv DEF GoesDown
<1>4. CASE Recovers
  <2>1. box' \in States
    BY <1>1, <1>4 DEF Recovers, States, PowerStates
  <2> QED
    BY <1>1, <1>4, <2>1, OutsideKeepsInv DEF Recovers
<1>5. CASE PasswordChanges
  <2>1. box' \in States
    BY <1>1, <1>2, <1>5 DEF PasswordChanges, Counted, States, PowerStates
  <2> QED
    BY <1>1, <1>5, <2>1, DisturbedFacts, OutsideKeepsInv DEF PasswordChanges
<1>6. CASE UserChanges
  <2>1. box' \in States
    BY <1>1, <1>2, <1>6 DEF UserChanges, Counted, States, PowerStates
  <2>2. vpn' \in VpnStates /\ history' = Disturbed(Witnessed(vpn', history))
    BY <1>6 DEF UserChanges, VpnStates
  <2>3. /\ WitnessedBy(vpn', Witnessed(vpn', history))
        /\ \A u \in Task : Witnessed(vpn', history)[u].switches = history[u].switches
    BY <2>2, WitnessedFacts
  <2>4. /\ history' \in [Task -> Histories]
        /\ \A u \in Task : /\ history'[u].seen = Witnessed(vpn', history)[u].seen
                           /\ history'[u].switches = history[u].switches
    BY <2>2, <2>3, DisturbedFacts DEF WitnessedBy
  <2> QED
    BY <1>6, <2>1, <2>2, <2>3, <2>4, OutsideKeepsInv DEF UserChanges, WitnessedBy
<1> QED
  BY <1>3, <1>4, <1>5, <1>6 DEF Environment

LEMMA NextKeepsInv ==
  ASSUME IInv, [Next]_vars
  PROVE  IInv'
<1>1. CASE Next
  <2>1. CASE \E t \in Task : \E want \in {"list"} \union Wants : Begin(t, want)
    BY <2>1, BeginKeepsInv
  <2>2. CASE \E t \in Task : CallStep(t)
    BY <2>2, EnsureKeepsInv, BuildKeepsInv, WireguardKeepsInv, StoreKeepsInv, UseKeepsInv,
       RequestKeepsInv, SwitchedKeepsInv, AnswerArrivesKeepsInv, HandleKeepsInv, CloseKeepsInv
    DEF CallStep
  <2>3. CASE Environment
    BY <2>3, EnvironmentKeepsInv
  <2> QED
    BY <1>1, <2>1, <2>2, <2>3 DEF Next
<1>2. CASE UNCHANGED vars
  BY <1>2 DEF vars, IInv, Typed, WellFormed, Accounted
<1> QED
  BY <1>1, <1>2

\* The invariant of the steps of the adapter: what a call has done to the VPN, and
\* what it has seen of it, never exceeds what its place in the code accounts for.
THEOREM InvHolds == Spec => []IInv
BY InitEstablishesInv, NextKeepsInv, PTL DEF Spec

\* TypeOK in every execution: no thread sends a request to a client that another
\* one, or invalidate_session in the event loop, has taken away under it.
THEOREM TypeCorrect == Spec => []TypeOK
BY InvHolds, InvImpliesTypeOK, PTL

-----------------------------------------------------------------------------
(* The refinement: Begin starts a call of the client, Switched switches, a *)
(* call that ends returns, the user interferes; every other step stutters. *)

\* The call of one task, as VpnClient sees it
CallOf(k, h) == [want |-> k.want, seen |-> h.seen, switches |-> h.switches, answer |-> k.answer]

LEMMA ClientCallIs ==
  /\ ClientCall = [t \in Task |-> CallOf(task[t], history[t])]
  /\ ClientCall' = [t \in Task |-> CallOf(task'[t], history'[t])]
BY DEF ClientCall, CallOf

LEMMA RunningIs ==
  ASSUME IInv, NEW t \in Task
  PROVE  /\ ClientCall[t].answer = "none" <=> ~At(t, "idle")
         /\ Client!Running(t) <=> ~At(t, "idle")
<1>1. WellFormed(task[t]) /\ ClientCall[t].answer = task[t].answer
  BY CallFacts DEF ClientCall
<1> QED
  BY <1>1 DEF WellFormed, At, Answers, Client!Running

\* A step that only one call notices, if any
LEMMA OneCallChanges ==
  ASSUME IInv, NEW t \in Task,
         \A u \in Task \ {t} : /\ task'[u].want = task[u].want /\ task'[u].answer = task[u].answer
                               /\ history'[u].seen = history[u].seen
                               /\ history'[u].switches = history[u].switches
  PROVE  ClientCall' = [ClientCall EXCEPT ![t] = CallOf(task'[t], history'[t])]
BY DEF ClientCall, CallOf

\* A call goes on, and the client does not see it.
LEMMA GotoStutters ==
  ASSUME IInv, NEW t \in Task, NEW k, Goto(t, k),
         k.want = task[t].want, k.answer = task[t].answer
  PROVE  UNCHANGED <<vpn, ClientCall>>
<1>1. /\ vpn' = vpn /\ history' = history
      /\ \A u \in Task : task'[u] = IF u = t THEN k ELSE task[u]
  BY CallFacts DEF Goto
<1>2. \A u \in Task : CallOf(task'[u], history'[u]) = CallOf(task[u], history[u])
  BY <1>1 DEF CallOf
<1> QED
  BY <1>1, <1>2, ClientCallIs

LEMMA FailsStutters ==
  ASSUME IInv, NEW t \in Task, NEW error, Fails(t, error)
  PROVE  UNCHANGED <<vpn, ClientCall>>
<1> DEFINE k == [task[t] EXCEPT !.pc = "failed", !.url = "none", !.error = error]
<1>1. k.want = task[t].want /\ k.answer = task[t].answer
  BY CallFacts DEF Calls
<1>2. Goto(t, k)
  BY DEF Fails
<1> HIDE DEF k
<1> QED
  BY <1>1, <1>2, GotoStutters

LEMMA EndsReturns ==
  ASSUME IInv, NEW t \in Task, ~At(t, "idle"),
         NEW answer \in Client!Answers(ClientCall[t]), Ends(t, answer)
  PROVE  Client!Return(t)
<1>1. /\ vpn' = vpn /\ task' = [task EXCEPT ![t] = Idle(answer)]
      /\ history' = [history EXCEPT ![t] = Unwatched]
  BY DEF Ends
<1>2. /\ task'[t] = Idle(answer) /\ history'[t] = Unwatched
      /\ \A u \in Task \ {t} : task'[u] = task[u] /\ history'[u] = history[u]
  BY <1>1, CallFacts
<1>3. CallOf(task'[t], history'[t]) = Client!Idle(answer)
  BY <1>2 DEF CallOf, Idle, Unwatched, Client!Idle
<1>4. ClientCall' = [ClientCall EXCEPT ![t] = Client!Idle(answer)]
  BY <1>2, <1>3, OneCallChanges
<1> QED
  BY <1>1, <1>4, RunningIs DEF Client!Return

\* The answers a call may give, whatever it has seen and done
LEMMA FailuresAnswer ==
  ASSUME NEW t \in Task
  PROVE  {"outage", "denied", "false"} \subseteq Client!Answers(ClientCall[t])
BY DEF Client!Answers, Client!Failures

\* The steps of a call between its start and its end
LEMMA QuietStutters ==
  ASSUME IInv, NEW t \in Task,
         Ensure(t) \/ Build(t) \/ Wireguard(t) \/ Store(t) \/ Use(t)
  PROVE  UNCHANGED <<vpn, ClientCall>>
<1>1. task[t] \in Calls
  BY CallFacts
<1>2. ASSUME NEW k, Goto(t, k), k.want = task[t].want, k.answer = task[t].answer
      PROVE  UNCHANGED <<vpn, ClientCall>>
  BY <1>2, GotoStutters
<1>3. CASE Ensured(t, task[t])
  BY <1>1, <1>2, <1>3 DEF Ensured, Calls
<1>4. CASE \E error : Fails(t, error)
  BY <1>4, FailsStutters
<1>5. CASE \E pc, url : Goto(t, [task[t] EXCEPT !.pc = pc, !.url = url])
  BY <1>1, <1>2, <1>5 DEF Calls
<1>6. CASE Goto(t, [task[t] EXCEPT !.pc = "wireguard"])
  BY <1>1, <1>2, <1>6 DEF Calls
<1>7. CASE Ensure(t)
  BY <1>3, <1>5, <1>7 DEF Ensure
<1>8. CASE Build(t)
  BY <1>4, <1>6, <1>8 DEF Build
<1>9. CASE Wireguard(t)
  BY <1>4, <1>5, <1>9 DEF Wireguard
<1>10. CASE Store(t)
  BY <1>3, <1>10 DEF Store
<1>11. CASE Use(t)
  BY <1>4, <1>5, <1>11 DEF Use
<1> QED
  BY <1>7, <1>8, <1>9, <1>10, <1>11

LEMMA CloseStutters ==
  ASSUME IInv, NEW t \in Task, Close(t) \/ Closing(t)
  PROVE  UNCHANGED <<vpn, ClientCall>>
<1>1. task[t] \in Calls
  BY CallFacts
<1>2. CASE \E pc : Goto(t, [task[t] EXCEPT !.pc = pc])
  <2>1. PICK pc : Goto(t, [task[t] EXCEPT !.pc = pc])
    BY <1>2
  <2> DEFINE k == [task[t] EXCEPT !.pc = pc]
  <2>2. k.want = task[t].want /\ k.answer = task[t].answer /\ Goto(t, k)
    BY <1>1, <2>1 DEF Calls
  <2> HIDE DEF k
  <2> QED
    BY <2>2, GotoStutters
<1>3. CASE Fails(t, "crash")
  BY <1>3, FailsStutters
<1> QED
  BY <1>2, <1>3 DEF Close, Closing

LEMMA RequestReturns ==
  ASSUME IInv, NEW t \in Task, Request(t)
  PROVE  Client!Return(t) \/ UNCHANGED <<vpn, ClientCall>>
<1>1. /\ ~At(t, "idle") /\ vpn \in history[t].seen
      /\ ClientCall[t] = CallOf(task[t], history[t])
  BY CallFacts DEF Request, At, Accounted, ClientCall, CallOf
<1>2. CASE task[t].want = "list" /\ Ends(t, vpn)
  <2>1. vpn \in Client!Answers(ClientCall[t])
    BY <1>1, <1>2 DEF Client!Answers, CallOf
  <2> QED
    BY <1>1, <1>2, <2>1, EndsReturns
<1>3. CASE Ends(t, "false")
  BY <1>1, <1>3, FailuresAnswer, EndsReturns
<1>4. CASE \E error : Fails(t, error)
  BY <1>4, FailsStutters
<1> QED
  BY <1>2, <1>3, <1>4 DEF Request

LEMMA AnswerReturns ==
  ASSUME IInv, NEW t \in Task, AnswerArrives(t)
  PROVE  Client!Return(t) \/ UNCHANGED <<vpn, ClientCall>>
<1>1. CASE At(t, "taken") /\ Ends(t, "true")
  <2>1. /\ ~At(t, "idle") /\ task[t].want # "list" /\ task[t].want \in history[t].seen
        /\ ClientCall[t] = CallOf(task[t], history[t])
    BY <1>1, CallFacts DEF At, Accounted, ClientCall, CallOf
  <2>2. "true" \in Client!Answers(ClientCall[t])
    BY <2>1 DEF Client!Answers, CallOf
  <2> QED
    BY <1>1, <2>1, <2>2, EndsReturns
<1>2. CASE \E error : Fails(t, error)
  BY <1>2, FailsStutters
<1> QED
  BY <1>1, <1>2 DEF AnswerArrives

LEMMA HandleReturns ==
  ASSUME IInv, NEW t \in Task, Handle(t)
  PROVE  Client!Return(t) \/ UNCHANGED <<vpn, ClientCall>>
<1>1. ~At(t, "idle") /\ task[t] \in Calls
  BY CallFacts DEF Handle, At
<1>2. CASE Ends(t, "outage") \/ Ends(t, "denied")
  BY <1>1, <1>2, FailuresAnswer, EndsReturns
<1> DEFINE k == [task[t] EXCEPT !.pc = "close", !.job = "retry", !.error = "none"]
<1>3. CASE Goto(t, k)
  <2>1. k.want = task[t].want /\ k.answer = task[t].answer
    BY <1>1 DEF Calls
  <2> HIDE DEF k
  <2> QED
    BY <1>3, <2>1, GotoStutters
<1> QED
  BY <1>2, <1>3 DEF Handle, GivesUp

LEMMA SwitchedSwitches ==
  ASSUME IInv, NEW t \in Task, Switched(t)
  PROVE  Client!Switch(t)
<1>1. /\ ~At(t, "idle") /\ task[t] \in Calls /\ vpn # "gone" /\ vpn' = task[t].want
      /\ task[t].want # "list" /\ history[t].switches <= 1
      /\ history \in [Task -> Histories]
  BY CallFacts DEF Switched, At, Accounted
<1>2. \A u \in Task : task'[u].want = task[u].want /\ task'[u].answer = task[u].answer
  BY CallFacts DEF Switched, Calls
<1>3. \A u \in Task :
        /\ history'[u].seen = IF At(u, "idle") THEN history[u].seen ELSE history[u].seen \union {vpn'}
        /\ history'[u].switches = IF u = t THEN history[u].switches + 1 ELSE history[u].switches
  BY SwitchedFacts DEF WitnessedBy
<1> DEFINE calls == [ClientCall EXCEPT ![t].switches = @ + 1]
<1>4. ASSUME NEW u \in Task
      PROVE  CallOf(task'[u], history'[u]) =
               IF calls[u].answer = "none" THEN [calls[u] EXCEPT !.seen = @ \union {vpn'}] ELSE calls[u]
  <2>1. ClientCall[u] = CallOf(task[u], history[u])
    BY DEF ClientCall, CallOf
  <2>2. calls[u] = [want |-> task[u].want, seen |-> history[u].seen,
                    switches |-> history'[u].switches, answer |-> task[u].answer]
    BY <1>3, <2>1 DEF CallOf, ClientCall
  <2>3. calls[u].answer = "none" <=> ~At(u, "idle")
    BY <2>1, <2>2, RunningIs DEF CallOf
  <2> HIDE DEF calls
  <2> QED
    BY <1>2, <1>3, <2>2, <2>3 DEF CallOf
<1>5. ClientCall' = Client!Witnessed(vpn', calls)
  BY <1>4, ClientCallIs DEF Client!Witnessed
<1>6. /\ Client!Running(t) /\ ClientCall[t].want = task[t].want
      /\ ClientCall[t].switches = history[t].switches
  BY <1>1, RunningIs DEF ClientCall
<1>7. ClientCall[t].switches < 2
  BY <1>1, <1>6 DEF Histories
<1> QED
  BY <1>1, <1>5, <1>6, <1>7 DEF Client!Switch

LEMMA BeginStarts ==
  ASSUME IInv, NEW t \in Task, NEW want \in {"list"} \union Wants, Begin(t, want)
  PROVE  Client!Start(t, want)
<1>1. /\ vpn' = vpn /\ At(t, "idle") /\ task[t] \in Calls
      /\ task' = [task EXCEPT ![t].pc = "ensure", ![t].want = want, ![t].answer = "none"]
  BY CallFacts DEF Begin
<1>2. /\ task'[t].want = want /\ task'[t].answer = "none"
      /\ \A u \in Task \ {t} : task'[u] = task[u]
  BY <1>1, CallFacts DEF Calls
<1>3. PICK calm \in BOOLEAN :
        history' = [u \in Task |->
          IF u = t THEN [Unwatched EXCEPT !.seen = {vpn}, !.calm = calm]
          ELSE [history[u] EXCEPT !.calm = @ /\ (u \in {w \in Task : ~At(w, "idle")} => Settled)]]
  BY DEF Begin
<1>4. history'[t].seen = {vpn} /\ history'[t].switches = 0
  BY <1>3 DEF Unwatched
<1>5. \A u \in Task \ {t} : /\ history'[u].seen = history[u].seen
                            /\ history'[u].switches = history[u].switches
  BY <1>3, CallFacts DEF Histories
<1>6. ClientCall' = [ClientCall EXCEPT ![t] = CallOf(task'[t], history'[t])]
  BY <1>2, <1>5, OneCallChanges
<1>7. CallOf(task'[t], history'[t]) = [want |-> want, seen |-> {vpn}, switches |-> 0, answer |-> "none"]
  BY <1>2, <1>4 DEF CallOf
<1> QED
  BY <1>1, <1>6, <1>7, RunningIs DEF Client!Start

LEMMA OutsideInterferes ==
  ASSUME IInv, Environment
  PROVE  Client!Interfere \/ UNCHANGED <<vpn, ClientCall>>
<1>1. /\ task' = task /\ history \in [Task -> Histories]
  BY DEF IInv, Typed, Environment, GoesDown, Recovers, PasswordChanges, UserChanges
<1>2. CASE GoesDown \/ PasswordChanges \/ Recovers
  <2>1. \A u \in Task : history'[u].seen = history[u].seen /\ history'[u].switches = history[u].switches
    BY <1>1, <1>2, DisturbedFacts DEF GoesDown, PasswordChanges, Recovers
  <2>2. \A u \in Task : CallOf(task'[u], history'[u]) = CallOf(task[u], history[u])
    BY <1>1, <2>1 DEF CallOf
  <2> QED
    BY <1>2, <2>2, ClientCallIs DEF GoesDown, PasswordChanges, Recovers
<1>3. CASE UserChanges
  <2>1. vpn' \in VpnStates /\ history' = Disturbed(Witnessed(vpn', history))
    BY <1>3 DEF UserChanges, VpnStates
  <2>2. \A u \in Task :
          /\ history'[u].seen = IF At(u, "idle") THEN history[u].seen ELSE history[u].seen \union {vpn'}
          /\ history'[u].switches = history[u].switches
    BY <2>1, WitnessedFacts, DisturbedFacts DEF WitnessedBy
  <2>3. ASSUME NEW u \in Task
        PROVE  CallOf(task'[u], history'[u]) =
                 IF ClientCall[u].answer = "none"
                 THEN [ClientCall[u] EXCEPT !.seen = @ \union {vpn'}] ELSE ClientCall[u]
    <3>1. ClientCall[u] = [want |-> task[u].want, seen |-> history[u].seen,
                           switches |-> history[u].switches, answer |-> task[u].answer]
      BY DEF ClientCall
    <3>2. CASE At(u, "idle")
      <4>1. history'[u].seen = history[u].seen /\ history'[u].switches = history[u].switches
        BY <2>2, <3>2
      <4>2. CallOf(task'[u], history'[u]) = ClientCall[u]
        BY <1>1, <3>1, <4>1 DEF CallOf
      <4> QED
        BY <3>2, <4>2, RunningIs
    <3>3. CASE ~At(u, "idle")
      <4>1. /\ history'[u].seen = history[u].seen \union {vpn'}
            /\ history'[u].switches = history[u].switches
        BY <2>2, <3>3
      <4>2. CallOf(task'[u], history'[u]) = [ClientCall[u] EXCEPT !.seen = @ \union {vpn'}]
        BY <1>1, <3>1, <4>1 DEF CallOf
      <4> QED
        BY <3>3, <4>2, RunningIs
    <3> QED
      BY <3>2, <3>3
  <2>4. ClientCall' = Client!Witnessed(vpn', ClientCall)
    BY <2>3, ClientCallIs DEF Client!Witnessed
  <2> QED
    BY <2>1, <2>4 DEF Client!Interfere, Client!VpnStates, VpnStates
<1> QED
  BY <1>2, <1>3 DEF Environment

LEMMA InitMaps == Init => Client!Init
<1> SUFFICES ASSUME Init PROVE Client!Init
  OBVIOUS
<1>1. \A t \in Task : CallOf(task[t], history[t]) = Client!Idle("outage")
  BY DEF Init, CallOf, Idle, Unwatched, Client!Idle
<1>2. ClientCall = [t \in Task |-> Client!Idle("outage")]
  BY <1>1, ClientCallIs
<1> QED
  BY <1>2 DEF Init, Client!Init, Client!VpnStates

LEMMA NextMaps ==
  ASSUME IInv, [Next]_vars
  PROVE  [Client!Next]_<<vpn, ClientCall>>
<1>1. ASSUME NEW t \in Task, NEW want \in {"list"} \union Wants, Begin(t, want)
      PROVE  Client!Next
  <2>1. want \in {"list", "on", "off"}
    BY WantsAssumption
  <2> QED
    BY <1>1, <2>1, BeginStarts DEF Client!Next
<1>2. ASSUME NEW t \in Task, CallStep(t)
      PROVE  Client!Next \/ UNCHANGED <<vpn, ClientCall>>
  BY <1>2, QuietStutters, CloseStutters, RequestReturns, AnswerReturns, HandleReturns,
     SwitchedSwitches DEF CallStep, Client!Next
<1>3. CASE Environment
  BY <1>3, OutsideInterferes DEF Client!Next
<1>4. CASE UNCHANGED vars
  BY <1>4 DEF vars, ClientCall
<1> QED
  BY <1>1, <1>2, <1>3, <1>4 DEF Next

\* KeepsClientContract in every execution: whatever threads and event loop do to the
\* shared client, a listing is one the box had while the call ran, "true" means that
\* the VPN was as wanted, and a call switches the VPN twice at most.
THEOREM Implements == Spec => KeepsClientContract
<1>1. Init => Client!Init
  BY InitMaps
<1>2. IInv /\ [Next]_vars => [Client!Next]_<<vpn, ClientCall>>
  BY NextMaps
<1> QED
  BY <1>1, <1>2, InvHolds, PTL DEF Spec, KeepsClientContract, Client!Spec

-----------------------------------------------------------------------------
(* A calm call succeeds.  A box with HTTPS never refuses it.  Without      *)
(* HTTPS either the client is built for HTTP already, or the call is the   *)
(* only one and finds that out with its second attempt.                    *)

Works(t) == ~At(t, "idle") /\ history[t].calm
Alone == \A t, u \in Task : ~At(t, "idle") /\ ~At(u, "idle") => t = u
Complete(c) == c.fc # "none" /\ c.fwg # "none"

\* The errors a calm call may meet, and the client c that its place relies on, with
\* the VPN being v
Calm(k, c, v) ==
  /\ k.pc # "lost" /\ k.error \notin {"timeout", "crash"}
  /\ k.error = "denied" => ~box.login
  /\ k.error = "other" => v = "gone" /\ k.want # "list"
  /\ k.error = "connect" \/ k.pc \in {"close", "closing"} => ~box.https
  /\ k.pc = "taken" => v # "gone"
  /\ k.pc = "wireguard" => c.fc # "none"
  /\ k.pc = "use" => c.fwg # "none"

\* The way from HTTPS to HTTP: whoever refuses to go on has no client yet.
Probing(k, c) ==
  /\ k.pc \in {"build", "close", "closing"} \/ k.error = "connect" => ~Complete(c)
  /\ k.job = "retry" => ~c.tls
  /\ (k.pc = "build" /\ k.url = "https") \/ k.error = "connect" => c.tls
  /\ k.pc \in {"close", "closing"} => k.job = "retry"
  /\ k.pc = "closing" => c.fc # "none"

Fit(t) ==
  /\ box.power = "up"
  /\ Calm(task[t], client, vpn)
  /\ ~box.https => (Alone \/ Settled) /\ Probing(task[t], client)

\* Only the poll lists, and every call starts with its first job.
Assigned ==
  \A t \in Task : IF At(t, "idle") THEN task[t].job = "prime"
                  ELSE task[t].want = "list" <=> t = Poll

\* Clients and urls of a box without HTTPS, but for an attempt to build one
OverHttp(c) == c.fc # "https" /\ c.fwg # "https"
Plain(k) == k.pc \in {"wireguard", "store", "request"} => k.url # "https"

CInv ==
  /\ Assigned
  /\ ~box.https => OverHttp(client) /\ \A t \in Task : Plain(task[t])
  /\ \A t, u \in Task : Works(t) /\ ~At(u, "idle") => Works(u)
  /\ \A t \in Task : Works(t) => Fit(t)

-----------------------------------------------------------------------------

LEMMA InitEstablishesCalm == Init => CInv
BY DEF Init, CInv, Assigned, OverHttp, Plain, Works, At, Idle, Invalidated

\* No step takes away what others rely on, but the way to HTTP of one that is alone.
Kept(c, d) ==
  /\ d.tls = c.tls
  /\ c.fc # "none" => d.fc # "none"
  /\ c.fwg # "none" => d.fwg # "none"

Leaves(d) == Kept(client, d) \/ (~box.https /\ ~Built)

LEMMA OthersStayFit ==
  ASSUME CInv, NEW t \in Task, NEW u \in Task, u # t, Works(t), Works(u),
         box' = box, vpn' = vpn, task'[u] = task[u], Leaves(client')
  PROVE  Fit(u)'
<1>1. Fit(u) /\ Fit(t)
  BY DEF CInv
<1>2. ~Alone
  BY DEF Alone, Works
<1>3. ~box.https => Settled /\ ~client.tls /\ Complete(client)
  BY <1>1, <1>2 DEF Fit, Settled, Built, Complete
<1>4. Kept(client, client')
  BY <1>1, <1>3 DEF Leaves, Built, Complete, Kept
<1>5. Calm(task[u], client, vpn)'
  BY <1>1, <1>4 DEF Fit, Calm, Kept
<1>6. ASSUME ~box.https PROVE Settled' /\ Probing(task[u], client)'
  <2>1. ~client'.tls /\ Complete(client')
    BY <1>3, <1>4, <1>6 DEF Kept, Complete
  <2>2. Probing(task[u], client)
    BY <1>1, <1>6 DEF Fit
  <2> QED
    BY <1>3, <1>4, <1>6, <2>1, <2>2 DEF Probing, Settled, Built, Complete, Kept
<1> QED
  BY <1>1, <1>5, <1>6 DEF Fit

\* What holds of the call itself carries over to where it goes.
LEMMA GotoKeepsCalm ==
  ASSUME IInv, CInv, NEW t \in Task, NEW k \in Calls, Goto(t, k),
         ~At(t, "idle"), k.pc # "idle", k.want = task[t].want,
         ~box.https => OverHttp(client') /\ Plain(k),
         Works(t) => /\ Leaves(client')
                     /\ Calm(k, client', vpn)
                     /\ ~box.https => Probing(k, client')
  PROVE  CInv'
<1>1. /\ box' = box /\ vpn' = vpn /\ history' = history
      /\ \A u \in Task : task'[u] = IF u = t THEN k ELSE task[u]
  BY CallFacts DEF Goto
<1>2. \A u \in Task : (At(u, "idle")' <=> At(u, "idle")) /\ (Works(u)' <=> Works(u))
  BY <1>1 DEF At, Works
<1>3. Assigned'
  BY <1>1, <1>2 DEF CInv, Assigned, At
<1>4. (~box.https => OverHttp(client) /\ \A u \in Task : Plain(task[u]))'
  BY <1>1 DEF CInv, OverHttp, Plain
<1>5. (\A v, u \in Task : Works(v) /\ ~At(u, "idle") => Works(u))'
  BY <1>2 DEF CInv
<1>6. ASSUME NEW u \in Task, Works(u)'
      PROVE  Fit(u)'
  <2>1. Works(u) /\ Works(t) /\ Fit(t)
    BY <1>2, <1>6 DEF CInv
  <2>2. CASE u # t
    BY <1>1, <2>1, <2>2, OthersStayFit
  <2>3. CASE u = t
    <3>1. task'[t] = k
      BY <1>1
    <3>2. Calm(task[t], client, vpn)'
      BY <1>1, <2>1, <3>1 DEF Calm
    <3>3. ~box.https => Probing(task[t], client)'
      BY <1>1, <2>1, <3>1 DEF Probing, Complete
    <3>4. ASSUME ~box.https PROVE (Alone \/ Settled)'
      <4>1. Alone \/ Settled
        BY <2>1, <3>4 DEF Fit
      <4>2. CASE Alone
        BY <1>2, <4>2 DEF Alone
      <4>3. CASE Settled
        <5>1. Kept(client, client')
          BY <2>1, <3>4, <4>3 DEF Leaves, Settled
        <5> QED
          BY <1>1, <3>4, <4>3, <5>1 DEF Settled, Built, Kept
      <4> QED
        BY <4>1, <4>2, <4>3
    <3> QED
      BY <1>1, <2>1, <2>3, <3>2, <3>3, <3>4 DEF Fit
  <2> QED
    BY <2>2, <2>3
<1> QED
  BY <1>3, <1>4, <1>5, <1>6 DEF CInv

\* The errors that a calm call may fail with
LEMMA FailsKeepsCalm ==
  ASSUME IInv, CInv, NEW t \in Task, ~At(t, "idle"), client' = client,
         NEW error \in {"connect", "timeout", "other", "denied", "crash"}, Fails(t, error),
         Works(t) => /\ error \notin {"timeout", "crash"}
                     /\ error = "denied" => ~box.login
                     /\ error = "other" => vpn = "gone" /\ task[t].want # "list"
                     /\ error = "connect" => ~box.https /\ ~Built /\ client.tls
  PROVE  CInv'
<1> DEFINE k == [task[t] EXCEPT !.pc = "failed", !.url = "none", !.error = error]
<1>0. task[t] \in Calls
  BY CallFacts
<1>1. /\ k \in Calls /\ k.pc = "failed" /\ k.error = error
      /\ k.want = task[t].want /\ k.job = task[t].job
  BY <1>0 DEF Calls, Pcs, MaybeProtocols
<1>2. Goto(t, k)
  BY DEF Fails
<1> HIDE DEF k
<1>3. ~box.https => OverHttp(client') /\ Plain(k)
  BY <1>1 DEF CInv, OverHttp, Plain
<1>4. ASSUME Works(t)
      PROVE  /\ Leaves(client') /\ Calm(k, client', vpn)
             /\ ~box.https => Probing(k, client')
  <2>1. Fit(t)
    BY <1>4 DEF CInv
  <2>2. Leaves(client')
    BY DEF Leaves, Kept
  <2>3. Calm(k, client', vpn)
    BY <1>1, <1>4 DEF Calm
  <2>4. ~box.https => Probing(k, client')
    BY <1>1, <1>4, <2>1 DEF Fit, Probing, Built, Complete
  <2> QED
    BY <2>2, <2>3, <2>4
<1> QED
  BY <1>1, <1>2, <1>3, <1>4, GotoKeepsCalm

LEMMA EndsKeepsCalm ==
  ASSUME IInv, CInv, NEW t \in Task, ~At(t, "idle"),
         NEW answer \in Answers, Ends(t, answer),
         ~box.https => OverHttp(client'),
         Works(t) => client' = client
  PROVE  CInv'
<1>1. /\ box' = box /\ vpn' = vpn
      /\ \A u \in Task : /\ task'[u] = IF u = t THEN Idle(answer) ELSE task[u]
                         /\ history'[u] = IF u = t THEN Unwatched ELSE history[u]
  BY CallFacts DEF Ends
<1>2. /\ At(t, "idle")' /\ task'[t].job = "prime" /\ task'[t].pc = "idle"
      /\ \A u \in Task \ {t} : (At(u, "idle")' <=> At(u, "idle")) /\ (Works(u)' <=> Works(u))
  BY <1>1 DEF At, Works, Idle
<1>3. Assigned'
  BY <1>1, <1>2 DEF CInv, Assigned, At
<1>4. (~box.https => OverHttp(client) /\ \A u \in Task : Plain(task[u]))'
  BY <1>1, <1>2 DEF CInv, OverHttp, Plain
<1>5. (\A v, u \in Task : Works(v) /\ ~At(u, "idle") => Works(u))'
  BY <1>2 DEF CInv, Works
<1>6. ASSUME NEW u \in Task, Works(u)'
      PROVE  Fit(u)'
  <2>1. u # t /\ Works(u) /\ Works(t)
    BY <1>2, <1>6 DEF CInv, Works
  <2>2. Leaves(client')
    BY <2>1 DEF Leaves, Kept
  <2> QED
    BY <1>1, <2>1, <2>2, OthersStayFit
<1> QED
  BY <1>3, <1>4, <1>5, <1>6 DEF CInv

-----------------------------------------------------------------------------
(* The actions                                                             *)

\* What a box that is up answers with, where it does not answer
LEMMA CalmErrors ==
  ASSUME box.power = "up", NEW protocol \in Protocols, NEW error \in Errors(protocol)
  PROVE  \/ error = "denied" /\ ~box.login
         \/ error = "connect" /\ ~box.https /\ protocol = "https"
BY DEF Errors, Reachable, Unstable, Protocols

\* What the steps of a call start from
LEMMA CalmFacts ==
  ASSUME CInv, NEW t \in Task
  PROVE  /\ ~box.https => OverHttp(client) /\ Plain(task[t])
         /\ ~At(t, "idle") => (task[t].want = "list" <=> t = Poll)
         /\ Works(t) => /\ box.power = "up" /\ Calm(task[t], client, vpn)
                        /\ ~box.https => (Alone \/ Settled) /\ Probing(task[t], client)
BY DEF CInv, Assigned, Fit

LEMMA EnsuredKeepsCalm ==
  ASSUME IInv, CInv, NEW t \in Task, task[t].pc \in {"ensure", "store"}, client' \in Clients,
         Kept(client, client'), client'.fwg # "none", ~box.https => OverHttp(client'),
         Ensured(t, task[t])
  PROVE  CInv'
<1>1. /\ task[t] \in Calls /\ WellFormed(task[t]) /\ ~At(t, "idle")
      /\ task[t].error = "none"
  BY CallFacts DEF At, WellFormed, Calls
<1>2. Leaves(client')
  BY DEF Leaves
<1>3. ASSUME NEW k \in Calls, Goto(t, k), k.pc \in {"ensure", "use"}, k.want = task[t].want,
             k.error = "none", k.job = "retry" => task[t].job = "retry"
      PROVE  CInv'
  <2>1. ASSUME Works(t)
        PROVE  Calm(k, client', vpn) /\ (~box.https => Probing(k, client'))
    BY <1>3, <2>1, CalmFacts DEF Calm, Probing, Kept
  <2>2. Plain(k)
    BY <1>3 DEF Plain
  <2> QED
    BY <1>1, <1>2, <1>3, <2>1, <2>2, GotoKeepsCalm
<1>4. CASE task[t].job = "prime"
  <2> DEFINE k == [task[t] EXCEPT !.pc = "ensure", !.url = "none", !.job = "sync"]
  <2>1. /\ k \in Calls /\ k.pc = "ensure" /\ k.want = task[t].want /\ k.job = "sync"
        /\ k.error = "none" /\ Goto(t, k)
    BY <1>1, <1>4 DEF Ensured, Calls, Pcs, MaybeProtocols
  <2> HIDE DEF k
  <2> QED
    BY <1>3, <2>1
<1>5. CASE task[t].job # "prime"
  <2> DEFINE k == [task[t] EXCEPT !.pc = "use", !.url = "none"]
  <2>1. /\ k \in Calls /\ k.pc = "use" /\ k.want = task[t].want /\ k.job = task[t].job
        /\ k.error = "none" /\ Goto(t, k)
    BY <1>1, <1>5 DEF Ensured, Calls, Pcs, MaybeProtocols
  <2> HIDE DEF k
  <2> QED
    BY <1>3, <2>1
<1> QED
  BY <1>4, <1>5

\* Any other step that only moves on
LEMMA MovesOnKeepsCalm ==
  ASSUME IInv, CInv, NEW t \in Task, ~At(t, "idle"), client' \in Clients,
         NEW pc \in Pcs \ {"idle", "failed", "lost", "taken", "use"}, NEW url \in MaybeProtocols,
         task[t].error = "none",
         Goto(t, [task[t] EXCEPT !.pc = pc, !.url = url]),
         ~box.https => OverHttp(client') /\ (url = "https" => pc = "build"),
         Works(t) =>
           /\ Leaves(client')
           /\ pc = "wireguard" => client'.fc # "none"
           /\ pc \in {"close", "closing"} => ~box.https
           /\ ~box.https =>
                /\ pc \in {"build", "close", "closing"} => ~Complete(client')
                /\ task[t].job = "retry" => ~client'.tls
                /\ pc = "build" /\ url = "https" => client'.tls
                /\ pc \in {"close", "closing"} => task[t].job = "retry"
                /\ pc = "closing" => client'.fc # "none"
  PROVE  CInv'
<1> DEFINE k == [task[t] EXCEPT !.pc = pc, !.url = url]
<1>1. task[t] \in Calls
  BY CallFacts
<1>2. /\ k \in Calls /\ k.pc = pc /\ k.url = url /\ k.error = "none"
      /\ k.want = task[t].want /\ k.job = task[t].job
  BY <1>1 DEF Calls
<1>3. Goto(t, k)
  OBVIOUS
<1> HIDE DEF k
<1>4. ~box.https => OverHttp(client') /\ Plain(k)
  BY <1>2 DEF Plain
<1>5. ASSUME Works(t)
      PROVE  Calm(k, client', vpn) /\ (~box.https => Probing(k, client'))
  BY <1>2, <1>5 DEF Calm, Probing
<1> QED
  BY <1>2, <1>3, <1>4, <1>5, GotoKeepsCalm

LEMMA EnsureKeepsCalm ==
  ASSUME IInv, CInv, NEW t \in Task, Ensure(t)
  PROVE  CInv'
<1>1. /\ task[t] \in Calls /\ WellFormed(task[t]) /\ task[t].pc = "ensure"
      /\ client' = client /\ client \in Clients /\ ~At(t, "idle") /\ task[t].error = "none"
  BY CallFacts DEF Ensure, At, WellFormed, Calls
<1>2. Leaves(client') /\ Kept(client, client')
  BY <1>1 DEF Leaves, Kept
<1>3. CASE Built
  <2>1. Ensured(t, task[t]) /\ client'.fwg # "none"
    BY <1>1, <1>3 DEF Ensure, Built
  <2> QED
    BY <1>1, <1>2, <2>1, CalmFacts, EnsuredKeepsCalm
<1>4. CASE ~Built
  <2> DEFINE url == IF client.tls THEN "https" ELSE "http"
  <2>1. Goto(t, [task[t] EXCEPT !.pc = "build", !.url = url])
    BY <1>4 DEF Ensure
  <2>2. url \in MaybeProtocols /\ (url = "https" => client.tls)
    BY DEF MaybeProtocols
  <2>3. ~Complete(client')
    BY <1>1, <1>4 DEF Built, Complete
  <2> HIDE DEF url
  <2>4. Works(t) /\ ~box.https /\ task[t].job = "retry" => ~client'.tls
    BY <1>1, CalmFacts DEF Probing
  <2>5. "build" \in Pcs \ {"idle", "failed", "lost", "taken", "use"}
    BY DEF Pcs
  <2> QED
    BY <1>1, <1>2, <2>1, <2>2, <2>3, <2>4, <2>5, CalmFacts, MovesOnKeepsCalm
<1> QED
  BY <1>3, <1>4

LEMMA BuildKeepsCalm ==
  ASSUME IInv, CInv, NEW t \in Task, Build(t)
  PROVE  CInv'
<1>1. /\ task[t] \in Calls /\ WellFormed(task[t]) /\ task[t].pc = "build" /\ client \in Clients
      /\ ~At(t, "idle") /\ task[t].error = "none"
  BY CallFacts DEF Build, At, WellFormed, Calls
<1>2. task[t].url \in Protocols /\ task[t].url \in MaybeProtocols /\ task[t].url # "none"
  BY <1>1 DEF WellFormed, Protocols, MaybeProtocols
<1>3. ASSUME Answering(task[t].url), client' = [client EXCEPT !.fc = task[t].url],
             Goto(t, [task[t] EXCEPT !.pc = "wireguard"])
      PROVE  CInv'
  <2>1. /\ client' \in Clients /\ client'.fc = task[t].url /\ client'.fwg = client.fwg
        /\ client'.tls = client.tls
    BY <1>1, <1>2, <1>3 DEF Clients
  <2>2. Leaves(client')
    BY <1>2, <2>1 DEF Leaves, Kept
  <2>3. ~box.https => task[t].url # "https"
    BY <1>3 DEF Answering, Reachable
  <2>4. ~box.https => OverHttp(client')
    BY <2>1, <2>3, CalmFacts DEF OverHttp
  <2>5. [task[t] EXCEPT !.pc = "wireguard"] = [task[t] EXCEPT !.pc = "wireguard", !.url = task[t].url]
    BY <1>1 DEF Calls
  <2>6. Works(t) /\ ~box.https /\ task[t].job = "retry" => ~client'.tls
    BY <2>1, CalmFacts DEF Probing
  <2>7. "wireguard" \in Pcs \ {"idle", "failed", "lost", "taken", "use"}
    BY DEF Pcs
  <2>8. Goto(t, [task[t] EXCEPT !.pc = "wireguard", !.url = task[t].url])
    BY <1>3, <2>5
  <2> QED
    BY <1>1, <1>2, <2>1, <2>2, <2>3, <2>4, <2>6, <2>7, <2>8, MovesOnKeepsCalm
<1>4. ASSUME NEW error \in Errors(task[t].url), Fails(t, error), client' = client
      PROVE  CInv'
  <2>1. error \in {"connect", "timeout", "other", "denied", "crash"}
    BY DEF Errors
  <2>2. ASSUME Works(t)
        PROVE  \/ error = "denied" /\ ~box.login
               \/ error = "connect" /\ ~box.https /\ ~Built /\ client.tls
    <3>1. \/ error = "denied" /\ ~box.login
          \/ error = "connect" /\ ~box.https /\ task[t].url = "https"
      BY <1>2, <2>2, CalmFacts, CalmErrors
    <3> QED
      BY <1>1, <2>2, <3>1, CalmFacts DEF Probing, Built, Complete
  <2> QED
    BY <1>1, <1>4, <2>1, <2>2, FailsKeepsCalm
<1> QED
  BY <1>3, <1>4 DEF Build

LEMMA WireguardKeepsCalm ==
  ASSUME IInv, CInv, NEW t \in Task, Wireguard(t)
  PROVE  CInv'
<1>1. /\ task[t] \in Calls /\ task[t].pc = "wireguard" /\ client' = client /\ client \in Clients
      /\ ~At(t, "idle") /\ task[t].error = "none"
  BY CallFacts DEF Wireguard, At, WellFormed, Calls
<1>2. CASE client.fc = "none"
  <2>1. ~Works(t)
    BY <1>1, <1>2, CalmFacts DEF Calm
  <2> QED
    BY <1>1, <1>2, <2>1, FailsKeepsCalm DEF Wireguard
<1>3. CASE client.fc # "none"
  <2>1. Goto(t, [task[t] EXCEPT !.pc = "store", !.url = client.fc])
    BY <1>3 DEF Wireguard
  <2>2. client.fc \in MaybeProtocols /\ Leaves(client')
    BY <1>1 DEF Clients, Leaves, Kept
  <2>3. ~box.https => OverHttp(client') /\ client.fc # "https"
    BY <1>1, CalmFacts DEF OverHttp
  <2>4. Works(t) /\ ~box.https /\ task[t].job = "retry" => ~client'.tls
    BY <1>1, CalmFacts DEF Probing
  <2>5. "store" \in Pcs \ {"idle", "failed", "lost", "taken", "use"}
    BY DEF Pcs
  <2> QED
    BY <1>1, <2>1, <2>2, <2>3, <2>4, <2>5, MovesOnKeepsCalm
<1> QED
  BY <1>2, <1>3

LEMMA StoreKeepsCalm ==
  ASSUME IInv, CInv, NEW t \in Task, Store(t)
  PROVE  CInv'
<1>1. /\ task[t] \in Calls /\ WellFormed(task[t]) /\ task[t].pc = "store" /\ client \in Clients
      /\ client' = [client EXCEPT !.fwg = task[t].url] /\ Ensured(t, task[t])
  BY CallFacts DEF Store, At
<1>2. /\ client' \in Clients /\ client'.fwg = task[t].url /\ client'.fwg # "none"
      /\ client'.fc = client.fc /\ client'.tls = client.tls
  BY <1>1 DEF Clients, Calls, WellFormed, Protocols
<1>3. ~box.https => OverHttp(client')
  BY <1>1, <1>2, CalmFacts DEF OverHttp, Plain
<1>4. Kept(client, client')
  BY <1>2 DEF Kept
<1> QED
  BY <1>1, <1>2, <1>3, <1>4, EnsuredKeepsCalm

LEMMA UseKeepsCalm ==
  ASSUME IInv, CInv, NEW t \in Task, Use(t)
  PROVE  CInv'
<1>1. /\ task[t] \in Calls /\ task[t].pc = "use" /\ client' = client /\ client \in Clients
      /\ ~At(t, "idle") /\ task[t].error = "none"
  BY CallFacts DEF Use, At, WellFormed, Calls
<1>2. CASE client.fwg = "none"
  <2>1. ~Works(t)
    BY <1>1, <1>2, CalmFacts DEF Calm
  <2> QED
    BY <1>1, <1>2, <2>1, FailsKeepsCalm DEF Use
<1>3. CASE client.fwg # "none"
  <2>1. Goto(t, [task[t] EXCEPT !.pc = "request", !.url = client.fwg])
    BY <1>3 DEF Use
  <2>2. client.fwg \in MaybeProtocols /\ Leaves(client')
    BY <1>1 DEF Clients, Leaves, Kept
  <2>3. ~box.https => OverHttp(client') /\ client.fwg # "https"
    BY <1>1, CalmFacts DEF OverHttp
  <2>4. Works(t) /\ ~box.https /\ task[t].job = "retry" => ~client'.tls
    BY <1>1, CalmFacts DEF Probing
  <2>5. "request" \in Pcs \ {"idle", "failed", "lost", "taken", "use"}
    BY DEF Pcs
  <2> QED
    BY <1>1, <2>1, <2>2, <2>3, <2>4, <2>5, MovesOnKeepsCalm
<1> QED
  BY <1>2, <1>3

LEMMA RequestKeepsCalm ==
  ASSUME IInv, CInv, NEW t \in Task, Request(t)
  PROVE  CInv'
<1>1. /\ task[t] \in Calls /\ WellFormed(task[t]) /\ task[t].pc = "request" /\ ~At(t, "idle")
      /\ client' = client /\ client \in Clients /\ vpn \in Answers
  BY CallFacts DEF Request, At, IInv, Typed, VpnStates, Answers
<1>2. task[t].url \in Protocols /\ (~box.https => task[t].url # "https" /\ OverHttp(client'))
  BY <1>1, CalmFacts DEF WellFormed, Plain
<1>3. CASE Ends(t, vpn)
  BY <1>1, <1>2, <1>3, EndsKeepsCalm
<1>4. CASE Ends(t, "false")
  BY <1>1, <1>2, <1>4, EndsKeepsCalm DEF Answers
<1>5. CASE task[t].want # "list" /\ vpn = "gone" /\ Fails(t, "other")
  BY <1>1, <1>5, FailsKeepsCalm
<1>6. ASSUME NEW error \in Errors(task[t].url), Fails(t, error)
      PROVE  CInv'
  <2>1. error \in {"connect", "timeout", "other", "denied", "crash"}
    BY DEF Errors
  <2>2. Works(t) => error = "denied" /\ ~box.login
    BY <1>2, CalmFacts, CalmErrors
  <2> QED
    BY <1>1, <1>6, <2>1, <2>2, FailsKeepsCalm
<1> QED
  BY <1>3, <1>4, <1>5, <1>6 DEF Request

LEMMA AnswerArrivesKeepsCalm ==
  ASSUME IInv, CInv, NEW t \in Task, AnswerArrives(t)
  PROVE  CInv'
<1>1. client' = client /\ client \in Clients /\ (~box.https => OverHttp(client'))
  BY CallFacts, CalmFacts DEF AnswerArrives
<1>2. CASE At(t, "taken") /\ Ends(t, "true")
  BY <1>1, <1>2, EndsKeepsCalm DEF Answers, At
<1>3. CASE At(t, "lost") /\ \E error \in {"connect", "timeout", "other"} : Fails(t, error)
  <2>1. ~Works(t)
    BY <1>3, CalmFacts DEF Calm, At
  <2> QED
    BY <1>1, <1>3, <2>1, FailsKeepsCalm DEF At
<1> QED
  BY <1>2, <1>3 DEF AnswerArrives

\* A calm call that failed learns that its password is wrong, or that its VPN is
\* gone, or goes on over HTTP.
LEMMA CalmHandling ==
  ASSUME IInv, CInv, NEW t \in Task, Handle(t), Works(t)
  PROVE  \/ Ends(t, "denied") /\ client' = client /\ ~box.login
         \/ Ends(t, "outage") /\ client' = client /\ vpn = "gone" /\ t # Poll
         \/ /\ ~box.https /\ ~Built /\ client' = [client EXCEPT !.tls = FALSE]
            /\ Goto(t, [task[t] EXCEPT !.pc = "close", !.job = "retry", !.error = "none"])
<1>1. /\ task[t] \in Calls /\ WellFormed(task[t]) /\ task[t].pc = "failed" /\ ~At(t, "idle")
      /\ task[t].error \in {"connect", "other", "denied"}
  BY CallFacts, CalmFacts DEF Handle, At, WellFormed, Calm
<1>2. CASE task[t].error = "connect"
  <2>1. ~box.https /\ ~Built /\ client.tls /\ task[t].job # "retry"
    BY <1>2, CalmFacts DEF Calm, Probing, Built, Complete
  <2> QED
    BY <1>2, <2>1 DEF Handle, FallsBack
<1>3. CASE task[t].error = "other"
  <2>1. vpn = "gone" /\ t # Poll
    BY <1>1, <1>3, CalmFacts DEF Calm
  <2> QED
    BY <1>3, <2>1 DEF Handle, GivesUp
<1>4. CASE task[t].error = "denied"
  BY <1>4, CalmFacts DEF Handle, Calm
<1> QED
  BY <1>1, <1>2, <1>3, <1>4

LEMMA HandleKeepsCalm ==
  ASSUME IInv, CInv, NEW t \in Task, Handle(t)
  PROVE  CInv'
<1>1. /\ task[t] \in Calls /\ WellFormed(task[t]) /\ task[t].pc = "failed" /\ ~At(t, "idle")
      /\ client \in Clients
  BY CallFacts DEF Handle, At
<1>2. \/ \E invalidated \in BOOLEAN : GivesUp(t, invalidated)
      \/ Ends(t, "denied") /\ client' = client
      \/ /\ client' = [client EXCEPT !.tls = FALSE]
         /\ Goto(t, [task[t] EXCEPT !.pc = "close", !.job = "retry", !.error = "none"])
  BY DEF Handle
<1>3. client' \in Clients /\ (~box.https => OverHttp(client'))
  <2>1. CASE client' = client
    BY <1>1, <2>1, CalmFacts
  <2>2. CASE client' = Invalidated
    BY <2>2 DEF Clients, Invalidated, MaybeProtocols, OverHttp
  <2>3. CASE client' = [client EXCEPT !.tls = FALSE]
    BY <1>1, <2>3, CalmFacts DEF Clients, OverHttp
  <2> QED
    BY <1>2, <2>1, <2>2, <2>3 DEF GivesUp
<1>4. CASE \E answer \in {"outage", "denied"} : Ends(t, answer)
  <2>1. PICK answer \in {"outage", "denied"} : Ends(t, answer)
    BY <1>4
  <2>2. task'[t] = Idle(answer)
    BY <2>1, CallFacts DEF Ends
  <2>3. Works(t) => client' = client
    <3>1. ASSUME Goto(t, [task[t] EXCEPT !.pc = "close", !.job = "retry", !.error = "none"])
          PROVE  FALSE
      BY <1>1, <2>2, <3>1, CallFacts DEF Goto, Idle, Calls
    <3> QED
      BY <3>1, CalmHandling
  <2> QED
    BY <1>1, <1>3, <2>1, <2>3, EndsKeepsCalm DEF Answers
<1> DEFINE k == [task[t] EXCEPT !.pc = "close", !.job = "retry", !.error = "none"]
<1>5. CASE client' = [client EXCEPT !.tls = FALSE] /\ Goto(t, k)
  <2>1. /\ k \in Calls /\ k.pc = "close" /\ k.want = task[t].want /\ k.job = "retry"
        /\ k.error = "none"
    BY <1>1 DEF Calls, Pcs
  <2>2. task'[t] = k
    BY <1>5, CallFacts DEF Goto
  <2>3. /\ ~client'.tls
        /\ Complete(client') <=> Built
    BY <1>1, <1>5 DEF Clients, Complete, Built
  <2>4. Works(t) => ~box.https /\ ~Built
    <3>1. ASSUME NEW answer, Ends(t, answer)
          PROVE  FALSE
      BY <2>1, <2>2, <3>1, CallFacts DEF Ends, Idle
    <3> QED
      BY <3>1, CalmHandling
  <2>5. Goto(t, k) /\ Plain(k)
    BY <1>5, <2>1 DEF Plain
  <2> HIDE DEF k
  <2>6. Works(t) => /\ Leaves(client') /\ Calm(k, client', vpn)
                    /\ ~box.https => Probing(k, client')
    BY <2>1, <2>3, <2>4 DEF Leaves, Calm, Probing
  <2> QED
    BY <1>1, <1>3, <2>1, <2>5, <2>6, GotoKeepsCalm
<1> QED
  BY <1>2, <1>4, <1>5 DEF GivesUp

LEMMA CloseKeepsCalm ==
  ASSUME IInv, CInv, NEW t \in Task, Close(t) \/ Closing(t)
  PROVE  CInv'
<1>1. /\ task[t] \in Calls /\ WellFormed(task[t]) /\ client \in Clients
      /\ task[t].pc \in {"close", "closing"} /\ ~At(t, "idle") /\ task[t].error = "none"
      /\ task[t].url = "none"
  BY CallFacts DEF Close, Closing, At, WellFormed, Calls, MaybeProtocols, Protocols
<1>2. Works(t) => ~box.https /\ ~Built /\ task[t].job = "retry" /\ ~client.tls
  BY <1>1, CalmFacts DEF Calm, Probing, Built, Complete
<1>3. {"ensure", "closing"} \subseteq Pcs \ {"idle", "failed", "lost", "taken", "use"}
  BY DEF Pcs
<1>4. ASSUME NEW pc \in {"ensure", "closing"}, Goto(t, [task[t] EXCEPT !.pc = pc]),
             client' \in Clients, client'.tls = client.tls, ~box.https => OverHttp(client'),
             pc = "closing" => client'.fc # "none" /\ client' = client
      PROVE  CInv'
  <2>1. [task[t] EXCEPT !.pc = pc] = [task[t] EXCEPT !.pc = pc, !.url = "none"]
    BY <1>1 DEF Calls
  <2>2. Goto(t, [task[t] EXCEPT !.pc = pc, !.url = "none"])
    BY <1>4, <2>1
  <2>3. Works(t) => Leaves(client') /\ (pc = "closing" => ~Complete(client'))
    BY <1>2, <1>4 DEF Leaves, Built, Complete
  <2>4. pc \in Pcs \ {"idle", "failed", "lost", "taken", "use"} /\ "none" \in MaybeProtocols
    BY <1>3 DEF MaybeProtocols
  <2> QED
    BY <1>1, <1>2, <1>4, <2>2, <2>3, <2>4, MovesOnKeepsCalm
<1>5. CASE Close(t)
  <2>1. /\ client' = client
        /\ Goto(t, [task[t] EXCEPT !.pc = IF client.fc = "none" THEN "ensure" ELSE "closing"])
    BY <1>5 DEF Close
  <2>2. CASE client.fc = "none"
    BY <1>1, <1>4, <2>1, <2>2, CalmFacts
  <2>3. CASE client.fc # "none"
    BY <1>1, <1>4, <2>1, <2>3, CalmFacts
  <2> QED
    BY <2>2, <2>3
<1>6. CASE Closing(t) /\ client.fc = "none"
  <2>1. ~Works(t) \/ box.https
    BY <1>1, <1>6, CalmFacts DEF Closing, Probing, At
  <2>2. ~Works(t)
    BY <1>2, <2>1
  <2> QED
    BY <1>1, <1>6, <2>2, FailsKeepsCalm DEF Closing
<1>7. CASE Closing(t) /\ client.fc # "none"
  <2>1. client' = [client EXCEPT !.fc = "none", !.fwg = "none"]
        /\ Goto(t, [task[t] EXCEPT !.pc = "ensure"])
    BY <1>7 DEF Closing
  <2>2. /\ client' \in Clients /\ client'.tls = client.tls
        /\ OverHttp(client')
    BY <1>1, <2>1 DEF Clients, MaybeProtocols, OverHttp
  <2> QED
    BY <1>4, <2>1, <2>2
<1> QED
  BY <1>5, <1>6, <1>7

\* What becomes of the calm of running calls
LEMMA DisturbedCalms ==
  ASSUME NEW h \in [Task -> Histories], NEW u \in Task, ~At(u, "idle")
  PROVE  ~Disturbed(h)[u].calm
BY DEF Disturbed, Histories

LEMMA WitnessedCalms ==
  ASSUME IInv, NEW state, NEW u \in Task
  PROVE  Witnessed(state, history)[u].calm = history[u].calm
BY CallFacts DEF Witnessed, Histories

LEMMA SwitchedCalms ==
  ASSUME IInv, NEW t \in Task, Switched(t)
  PROVE  \/ \A u \in Task : ~At(u, "idle") => ~history'[u].calm
         \/ /\ \A u \in Task : history'[u].calm = history[u].calm
            /\ task' = [task EXCEPT ![t].pc = "taken"]
            /\ vpn' = vpn \/ \A u \in Task : ~At(u, "idle") => u = t
<1>1. task[t] \in Calls /\ history \in [Task -> Histories]
  BY CallFacts
<1>2. vpn' \in VpnStates
  BY <1>1 DEF Switched, Calls, VpnStates
<1> DEFINE w == Witnessed(vpn', history)
           h == [w EXCEPT ![t].switches = @ + 1]
<1>3. /\ w \in [Task -> Histories]
      /\ \A u \in Task : w[u].calm = history[u].calm
  BY <1>2, WitnessedFacts, WitnessedCalms DEF WitnessedBy
<1>4. PICK pc \in {"taken", "lost"} :
        /\ task' = [task EXCEPT ![t].pc = pc]
        /\ history' = IF pc = "lost" \/ (vpn' # vpn /\ \E u \in Task \ {t} : ~At(u, "idle"))
                      THEN Disturbed(h) ELSE h
  BY DEF Switched
<1> HIDE DEF w
<1>5. ASSUME NEW u \in Task
      PROVE  h[u] \in Histories /\ h[u].calm = history[u].calm
  BY <1>3, <1>5 DEF Histories
<1>6. h \in [Task -> Histories]
  BY <1>3, <1>5
<1> HIDE DEF h
<1> QED
  BY <1>4, <1>5, <1>6, DisturbedCalms

LEMMA SwitchedKeepsCalm ==
  ASSUME IInv, CInv, NEW t \in Task, Switched(t)
  PROVE  CInv'
<1>1. /\ task[t] \in Calls /\ WellFormed(task[t]) /\ task[t].pc = "request" /\ ~At(t, "idle")
      /\ task[t].want # "list" /\ vpn' = task[t].want /\ task[t].error = "none"
      /\ client' = client /\ box' = box
  BY CallFacts DEF Switched, At, WellFormed, Calls
<1>2. PICK pc \in {"taken", "lost"} : task' = [task EXCEPT ![t].pc = pc]
  BY DEF Switched
<1> DEFINE k == [task[t] EXCEPT !.pc = pc]
<1>3. /\ k.pc = pc /\ k.want = task[t].want /\ k.job = task[t].job /\ k.error = "none"
      /\ \A u \in Task : task'[u] = IF u = t THEN k ELSE task[u]
  BY <1>1, <1>2, CallFacts DEF Calls
<1> HIDE DEF k
<1>4. \A u \in Task : At(u, "idle")' <=> At(u, "idle")
  BY <1>1, <1>3 DEF At
<1>5. Assigned'
  BY <1>1, <1>3, <1>4 DEF CInv, Assigned
<1>6. (~box.https => OverHttp(client) /\ \A u \in Task : Plain(task[u]))'
  BY <1>1, <1>3 DEF CInv, OverHttp, Plain
<1>7. CASE \A u \in Task : ~At(u, "idle") => ~history'[u].calm
  <2>1. \A u \in Task : ~Works(u)'
    BY <1>4, <1>7 DEF Works
  <2> QED
    BY <1>5, <1>6, <2>1 DEF CInv
<1>8. CASE /\ \A u \in Task : history'[u].calm = history[u].calm
           /\ task' = [task EXCEPT ![t].pc = "taken"]
           /\ vpn' = vpn \/ \A u \in Task : ~At(u, "idle") => u = t
  <2>1. \A u \in Task : Works(u)' <=> Works(u)
    BY <1>4, <1>8 DEF Works
  <2>2. (\A v, u \in Task : Works(v) /\ ~At(u, "idle") => Works(u))'
    BY <1>4, <2>1 DEF CInv
  <2>3. task'[t].pc = "taken"
    BY <1>8, CallFacts DEF Calls
  <2>4. ASSUME NEW u \in Task, Works(u)'
        PROVE  Fit(u)'
    <3>1. Works(u) /\ Works(t)
      BY <1>1, <2>1, <2>4 DEF CInv
    <3>2. CASE u # t
      <4>1. vpn' = vpn
        BY <1>8, <3>1, <3>2 DEF Works
      <4>2. Leaves(client')
        BY <1>1 DEF Leaves, Kept
      <4> QED
        BY <1>1, <1>3, <3>1, <3>2, <4>1, <4>2, OthersStayFit
    <3>3. CASE u = t
      <4>1. vpn' # "gone"
        BY <1>1 DEF Calls
      <4>2. Calm(task[t], client, vpn)'
        BY <1>3, <2>3, <4>1 DEF Calm
      <4>3. ASSUME ~box.https PROVE (Alone \/ Settled)' /\ Probing(task[t], client)'
        BY <1>1, <1>3, <1>4, <2>3, <3>1, <4>3, CalmFacts DEF Alone, Settled, Built, Probing
      <4> QED
        BY <1>1, <3>1, <3>3, <4>2, <4>3, CalmFacts DEF Fit
    <3> QED
      BY <3>2, <3>3
  <2> QED
    BY <1>5, <1>6, <2>2, <2>4 DEF CInv
<1> QED
  BY <1>7, <1>8, SwitchedCalms

\* A call that begins beside calm ones is calm if the client is settled; if not, none is.
LEMMA BeginKeepsCalm ==
  ASSUME IInv, CInv, NEW t \in Task, NEW want \in {"list"} \union Wants, Begin(t, want)
  PROVE  CInv'
<1> DEFINE k == [task[t] EXCEPT !.pc = "ensure", !.want = want, !.answer = "none"]
           others == {u \in Task : ~At(u, "idle")}
           calm == ~Unstable /\ (\A u \in others : history[u].calm) /\ (others # {} => Settled)
<1>1. /\ task[t] \in Calls /\ WellFormed(task[t]) /\ task[t].pc = "idle" /\ At(t, "idle")
      /\ client' = client /\ box' = box /\ vpn' = vpn /\ task' = [task EXCEPT ![t] = k]
      /\ want = "list" <=> t = Poll
  BY CallFacts DEF Begin, At
<1>2. /\ k.pc = "ensure" /\ k.want = want /\ k.job = "prime" /\ k.error = "none"
  BY <1>1 DEF Calls, WellFormed, CInv, Assigned
<1>3. \A u \in Task : task'[u] = IF u = t THEN k ELSE task[u]
  BY <1>1, CallFacts
<1>4. history' = [u \in Task |->
          IF u = t THEN [Unwatched EXCEPT !.seen = {vpn}, !.calm = calm]
          ELSE [history[u] EXCEPT !.calm = @ /\ (u \in others => Settled)]]
  BY DEF Begin
<1>5. /\ history'[t].calm = calm
      /\ \A u \in Task \ {t} : history'[u].calm = (history[u].calm /\ (u \in others => Settled))
  BY <1>4, CallFacts DEF Unwatched, Histories
<1> HIDE DEF k
<1>6. ~At(t, "idle")' /\ \A u \in Task \ {t} : At(u, "idle")' <=> At(u, "idle")
  BY <1>2, <1>3 DEF At
<1>7. Assigned'
  BY <1>1, <1>2, <1>3, <1>6 DEF CInv, Assigned
<1>8. (~box.https => OverHttp(client) /\ \A u \in Task : Plain(task[u]))'
  BY <1>1, <1>2, <1>3 DEF CInv, OverHttp, Plain
<1>9. ASSUME NEW u \in Task, Works(u)'
      PROVE  calm /\ \A x \in Task \ {t} : Works(x)' <=> Works(x)
  <2>1. CASE u = t
    BY <1>5, <1>6, <1>9, <2>1 DEF Works
  <2>2. CASE u # t
    <3>1. Works(u) /\ Settled
      BY <1>5, <1>6, <1>9, <2>2 DEF Works
    <3>2. box.power = "up" /\ \A x \in others : history[x].calm
      BY <3>1 DEF CInv, Fit, Works
    <3> QED
      BY <1>5, <1>6, <3>1, <3>2 DEF Works, Unstable
  <2> QED
    BY <2>1, <2>2
<1>10. calm => Works(t)'
  BY <1>5, <1>6 DEF Works
<1>11. ASSUME NEW v \in Task, NEW u \in Task, Works(v)', ~At(u, "idle")'
       PROVE  Works(u)'
  BY <1>6, <1>9, <1>10, <1>11 DEF Works
<1>12. ASSUME NEW u \in Task, Works(u)'
       PROVE  Fit(u)'
  <2>1. ~Unstable /\ (others # {} => Settled)
    BY <1>9, <1>12
  <2>2. (Alone \/ Settled)' \/ box.https
    <3>1. CASE others = {}
      BY <1>6, <3>1 DEF Alone
    <3>2. CASE Settled
      BY <1>1, <3>2 DEF Settled, Built
    <3> QED
      BY <2>1, <3>1, <3>2
  <2>3. CASE u = t
    <3>1. Calm(task[t], client, vpn)' /\ Probing(task[t], client)'
      BY <1>2, <1>3 DEF Calm, Probing
    <3> QED
      BY <1>1, <2>1, <2>2, <2>3, <3>1 DEF Fit, Unstable
  <2>4. CASE u # t
    <3>1. Works(u) /\ Fit(u)
      BY <1>9, <1>12, <2>4 DEF CInv
    <3>2. Calm(task[u], client, vpn)' /\ (~box.https => Probing(task[u], client)')
      BY <1>1, <1>3, <2>4, <3>1 DEF Fit, Calm, Probing, Complete
    <3> QED
      BY <1>1, <2>2, <3>1, <3>2 DEF Fit
  <2> QED
    BY <2>3, <2>4
<1> QED
  BY <1>7, <1>8, <1>11, <1>12 DEF CInv

LEMMA EnvironmentKeepsCalm ==
  ASSUME IInv, CInv, Environment
  PROVE  CInv'
<1>1. client' = client /\ task' = task /\ box'.https = box.https
  BY DEF Environment, GoesDown, Recovers, PasswordChanges, UserChanges, IInv, Typed, States
<1>2. \A u \in Task : ~Works(u)'
  <2>1. history \in [Task -> Histories]
    BY DEF IInv, Typed
  <2>2. CASE GoesDown \/ PasswordChanges
    BY <1>1, <2>1, <2>2, DisturbedCalms DEF GoesDown, PasswordChanges, Works, At
  <2>3. CASE UserChanges
    <3>1. vpn' \in VpnStates /\ history' = Disturbed(Witnessed(vpn', history))
      BY <2>3 DEF UserChanges, VpnStates
    <3>2. Witnessed(vpn', history) \in [Task -> Histories]
      BY <3>1, WitnessedFacts DEF WitnessedBy
    <3> QED
      BY <1>1, <3>1, <3>2, DisturbedCalms DEF Works, At
  <2>4. CASE Recovers
    BY <1>1, <2>4 DEF Recovers, CInv, Fit, Works, At
  <2> QED
    BY <2>2, <2>3, <2>4 DEF Environment
<1> QED
  BY <1>1, <1>2 DEF CInv, Assigned, OverHttp, Plain, At

LEMMA NextKeepsCalm ==
  ASSUME IInv, CInv, [Next]_vars
  PROVE  CInv'
<1>1. CASE Next
  <2>1. CASE \E t \in Task : \E want \in {"list"} \union Wants : Begin(t, want)
    BY <2>1, BeginKeepsCalm
  <2>2. CASE \E t \in Task : CallStep(t)
    BY <2>2, EnsureKeepsCalm, BuildKeepsCalm, WireguardKeepsCalm, StoreKeepsCalm, UseKeepsCalm,
       RequestKeepsCalm, SwitchedKeepsCalm, AnswerArrivesKeepsCalm, HandleKeepsCalm, CloseKeepsCalm
    DEF CallStep
  <2>3. CASE Environment
    BY <2>3, EnvironmentKeepsCalm
  <2> QED
    BY <1>1, <2>1, <2>2, <2>3 DEF Next
<1>2. CASE UNCHANGED vars
  BY <1>2 DEF vars, CInv, Assigned, OverHttp, Plain, Works, At, Fit, Calm, Probing, Complete,
     Alone, Settled, Built
<1> QED
  BY <1>1, <1>2

LEMMA CalmHolds == Spec => []CInv
BY InitEstablishesCalm, NextKeepsCalm, InvHolds, PTL DEF Spec

-----------------------------------------------------------------------------
(* The answers of calm calls                                               *)

Fares(t, answer) ==
  \/ t = Poll /\ answer = vpn
  \/ t # Poll /\ (IF vpn = "gone" THEN answer \in {"false", "outage"} ELSE answer = "true")
  \/ ~box.login /\ answer = "denied"

LEMMA EndsWith ==
  ASSUME IInv, NEW t \in Task, NEW answer, Ends(t, answer), Fares(t, answer)
  PROVE  Fares(t, task'[t].answer)
BY CallFacts DEF Ends, Idle

LEMMA GotoGoesOn ==
  ASSUME IInv, NEW t \in Task, NEW k, Goto(t, k), k.pc # "idle"
  PROVE  ~At(t, "idle")'
BY CallFacts DEF Goto, At

LEMMA FailsGoesOn ==
  ASSUME IInv, NEW t \in Task, NEW error, Fails(t, error)
  PROVE  ~At(t, "idle")'
<1> DEFINE k == [task[t] EXCEPT !.pc = "failed", !.url = "none", !.error = error]
<1>1. k.pc = "failed" /\ Goto(t, k)
  BY CallFacts DEF Calls, Fails
<1> HIDE DEF k
<1> QED
  BY <1>1, GotoGoesOn

\* An ending calm call fares well; a call that does not end has nothing to show.
LEMMA StepFares ==
  ASSUME IInv, CInv, NEW t \in Task, CallStep(t), Works(t), At(t, "idle")'
  PROVE  Fares(t, task'[t].answer)
<1>1. /\ task[t] \in Calls /\ Works(t) /\ ~At(t, "idle")
      /\ task[t].want = "list" <=> t = Poll
  BY CallFacts, CalmFacts DEF Works
<1>2. ASSUME NEW k, Goto(t, k), k.pc # "idle"
      PROVE  FALSE
  BY <1>2, GotoGoesOn
<1>3. ASSUME NEW error, Fails(t, error)
      PROVE  FALSE
  BY <1>3, FailsGoesOn
<1>4. CASE Ensured(t, task[t])
  BY <1>1, <1>2, <1>4 DEF Ensured, Calls
<1>5. CASE Ensure(t)
  BY <1>1, <1>2, <1>4, <1>5 DEF Ensure, Calls
<1>6. CASE Build(t)
  BY <1>1, <1>2, <1>3, <1>6 DEF Build, Calls
<1>7. CASE Wireguard(t)
  BY <1>1, <1>2, <1>3, <1>7 DEF Wireguard, Calls
<1>8. CASE Store(t)
  BY <1>4, <1>8 DEF Store
<1>9. CASE Use(t)
  BY <1>1, <1>2, <1>3, <1>9 DEF Use, Calls
<1>10. CASE Request(t)
  <2>1. CASE task[t].want = "list" /\ Ends(t, vpn)
    BY <1>1, <2>1, EndsWith DEF Fares
  <2>2. CASE task[t].want # "list" /\ vpn = "gone" /\ Ends(t, "false")
    BY <1>1, <2>2, EndsWith DEF Fares
  <2> QED
    BY <1>3, <1>10, <2>1, <2>2 DEF Request
<1>11. CASE Switched(t)
  BY <1>1, <1>11, CallFacts DEF Switched, At, Calls
<1>12. CASE AnswerArrives(t)
  <2>1. CASE At(t, "taken") /\ Ends(t, "true")
    <3>1. t # Poll /\ vpn # "gone"
      BY <1>1, <2>1, CallFacts, CalmFacts DEF At, Accounted, Calm
    <3> QED
      BY <2>1, <3>1, EndsWith DEF Fares
  <2> QED
    BY <1>3, <1>12, <2>1 DEF AnswerArrives
<1>13. CASE Handle(t)
  <2>1. CASE Ends(t, "denied") /\ ~box.login
    BY <2>1, EndsWith DEF Fares
  <2>2. CASE Ends(t, "outage") /\ vpn = "gone" /\ t # Poll
    BY <2>2, EndsWith DEF Fares
  <2> DEFINE k == [task[t] EXCEPT !.pc = "close", !.job = "retry", !.error = "none"]
  <2>3. CASE Goto(t, k)
    <3>1. k.pc = "close"
      BY <1>1 DEF Calls
    <3> HIDE DEF k
    <3> QED
      BY <1>2, <2>3, <3>1
  <2> QED
    BY <1>13, <2>1, <2>2, <2>3, CalmHandling
<1>14. CASE Close(t)
  BY <1>1, <1>2, <1>14 DEF Close, Calls
<1>15. CASE Closing(t)
  BY <1>1, <1>2, <1>3, <1>15 DEF Closing, Calls
<1> QED
  BY <1>5, <1>6, <1>7, <1>8, <1>9, <1>10, <1>11, <1>12, <1>13, <1>14, <1>15 DEF CallStep

\* What other steps leave of a running call
LEMMA OthersGoOn ==
  ASSUME IInv, NEW t \in Task, ~At(t, "idle"), At(t, "idle")', [Next]_vars
  PROVE  CallStep(t)
<1>1. task \in [Task -> Calls]
  BY CallFacts
<1>2. ASSUME NEW u \in Task, NEW k, task' = [task EXCEPT ![u] = k]
      PROVE  u = t
  BY <1>1, <1>2 DEF At
<1>3. ASSUME NEW u \in Task, NEW want, Begin(u, want)
      PROVE  FALSE
  <2>1. task' = [task EXCEPT ![u] = [task[u] EXCEPT !.pc = "ensure", !.want = want, !.answer = "none"]]
    BY <1>3 DEF Begin
  <2>2. u = t /\ At(u, "idle")
    BY <1>2, <1>3, <2>1 DEF Begin
  <2> QED
    BY <2>2
<1>4. ASSUME NEW u \in Task, CallStep(u)
      PROVE  u = t
  <2>1. \E k : task' = [task EXCEPT ![u] = k]
    <3>1. CASE Ensure(u) \/ Build(u) \/ Wireguard(u) \/ Store(u) \/ Use(u) \/ Request(u)
      BY <3>1 DEF Ensure, Build, Wireguard, Store, Use, Request, Ensured, Goto, Fails, Ends
    <3>2. CASE AnswerArrives(u) \/ Handle(u) \/ Close(u) \/ Closing(u)
      BY <3>2 DEF AnswerArrives, Handle, GivesUp, Close, Closing, Goto, Fails, Ends
    <3>3. CASE Switched(u)
      <4>1. PICK pc : task' = [task EXCEPT ![u] = [task[u] EXCEPT !.pc = pc]]
        BY <3>3 DEF Switched
      <4> QED
        BY <4>1
    <3> QED
      BY <1>4, <3>1, <3>2, <3>3 DEF CallStep
  <2> QED
    BY <1>2, <2>1
<1>5. task' = task => FALSE
  BY DEF At
<1> QED
  BY <1>3, <1>4, <1>5 DEF Next, vars, Environment, GoesDown, Recovers, PasswordChanges, UserChanges

\* WorkingCallsSucceed in every execution: on a box that is up a call that nothing
\* disturbed gets its listing or the VPN as wanted, or learns that the password is
\* wrong, for any number of callers that share the client, half-built or not.
THEOREM WorkingCallsSucceedHolds == Spec => WorkingCallsSucceed
<1> DEFINE Succeeds == \A t \in Task : Returns(t) /\ history[t].calm => Fares(t, task'[t].answer)
<1>1. IInv /\ CInv /\ [Next]_vars => [Succeeds]_vars
  BY OthersGoOn, StepFares DEF Returns, Works
<1>2. Succeeds <=> \A t \in Task : Returns(t) /\ history[t].calm =>
        \/ t = Poll /\ task'[t].answer = vpn
        \/ t # Poll /\ (IF vpn = "gone" THEN task'[t].answer \in {"false", "outage"}
                        ELSE task'[t].answer = "true")
        \/ ~box.login /\ task'[t].answer = "denied"
  BY DEF Fares
<1> HIDE DEF Succeeds
<1>3. IInv /\ CInv /\ [Next]_vars =>
        [\A t \in Task : Returns(t) /\ history[t].calm =>
           \/ t = Poll /\ task'[t].answer = vpn
           \/ t # Poll /\ (IF vpn = "gone" THEN task'[t].answer \in {"false", "outage"}
                           ELSE task'[t].answer = "true")
           \/ ~box.login /\ task'[t].answer = "denied"]_vars
  BY <1>1, <1>2
<1> QED
  BY <1>3, InvHolds, CalmHolds, PTL DEF Spec, WorkingCallsSucceed
==============================================================================
