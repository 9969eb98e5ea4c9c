------------------------ MODULE CoordinatorHistory ------------------------
(***************************************************************************)
(* Coordinator together with what really happened, so that its decisions   *)
(* can be held against the documentation of reboots and outages.  The      *)
(* history is read by no action.                                           *)
(***************************************************************************)
EXTENDS Coordinator

VARIABLES
  quiet,         \* ticks since the last poll that ended in an outage, up to RecoveryMax
  missed,        \* per UID: accepted lists in a row without it, up to OrphanConfirmPolls
  nonempty_run,  \* accepted non-empty lists in a row, up to StablePolls
  reauths        \* reauth flows started since the last accepted list, up to 2

history == <<quiet, missed, nonempty_run, reauths>>
hvars == <<vars, history>>

UpTo(bound, n) == IF n > bound THEN bound ELSE n

\* A poll that brought no usable list breaks every run.
ForgetRuns ==
  /\ missed' = NoMisses
  /\ nonempty_run' = 0

RecordList ==
  /\ missed' = [u \in Uid |-> IF u \in Listed(listing) THEN 0
                              ELSE UpTo(OrphanConfirmPolls, missed[u] + 1)]
  /\ nonempty_run' = IF Listed(listing) = {} THEN 0
                     ELSE UpTo(StablePolls, nonempty_run + 1)
  /\ reauths' = 0
  /\ UNCHANGED quiet

RecordReauth ==
  /\ reauths' = IF StartsReauth THEN UpTo(2, reauths + 1) ELSE reauths
  /\ UNCHANGED <<quiet, missed, nonempty_run>>

HInit ==
  /\ Init
  /\ quiet = RecoveryMax
  /\ missed = [u \in Uid |-> IF u \in Listed(listing) THEN 0 ELSE 1]
  /\ nonempty_run = IF Listed(listing) = {} THEN 0 ELSE 1
  /\ reauths = 0

HPollOutage == PollOutage /\ quiet' = 0 /\ ForgetRuns /\ UNCHANGED reauths
HPollEmptyRefused == PollEmptyRefused /\ ForgetRuns /\ UNCHANGED <<quiet, reauths>>
HPollEmptyAccepted == PollEmptyAccepted /\ RecordList
HPollRecovering == (\E moved \in SUBSET Uid : PollRecovering(moved)) /\ RecordList
HPollNormal == PollNormal /\ RecordList
HPollDenied == PollDenied /\ RecordReauth
HToggleDenied == ToggleDenied /\ RecordReauth
HTick ==
  /\ Tick
  /\ quiet' = UpTo(RecoveryMax, quiet + 1)
  /\ UNCHANGED <<missed, nonempty_run, reauths>>
HBoxChanges == BoxChanges /\ UNCHANGED history

HNext ==
  \/ HPollOutage
  \/ HPollEmptyRefused
  \/ HPollEmptyAccepted
  \/ HPollRecovering
  \/ HPollNormal
  \/ HPollDenied
  \/ HToggleDenied
  \/ HTick
  \/ HBoxChanges

HSpec == HInit /\ [][HNext]_hvars

-----------------------------------------------------------------------------
(* Properties                                                              *)

HTypeOK ==
  /\ TypeOK
  /\ quiet \in 0 .. RecoveryMax
  /\ missed \in [Uid -> 0 .. OrphanConfirmPolls]
  /\ nonempty_run \in 0 .. StablePolls
  /\ reauths \in 0 .. 2

\* _recovering_until is always one window after the last outage poll: however
\* outages and answers interleave, no extension is lost and none is invented.
WindowFollowsOutage ==
  recovering => window_left = (IF quiet < RecoveryWindow THEN RecoveryWindow - quiet ELSE 0)

\* A UID is confirmed as removed only after OrphanConfirmPolls usable lists in
\* a row without it (README: "only after several consecutive misses"; const.py:
\* "Consecutive successful polls").  Refused credentials neither count nor
\* break the run.
OrphansHaveEvidence ==
  [][\A u \in confirmed_orphan_uids' \ confirmed_orphan_uids :
       missed'[u] >= OrphanConfirmPolls]_hvars

\* Recovery ends for one of two reasons (README): the minimum window since the
\* last outage has elapsed and the last StablePolls lists were non-empty; or
\* the list is empty and the cap has elapsed since recovery began.
RecoveryEndsOnEvidence ==
  [][recovering /\ ~recovering' =>
       \/ quiet >= RecoveryWindow /\ nonempty_run' >= StablePolls
       \/ Listed(data') = {} /\ recovery_age >= RecoveryMax]_hvars

\* One refusal of the credentials starts one reauthentication flow, whether
\* polls or toggles meet it, until a list is accepted again.
OneReauthPerCycle == reauths <= 1
=============================================================================
