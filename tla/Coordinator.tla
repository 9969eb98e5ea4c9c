---------------------------- MODULE Coordinator ----------------------------
(***************************************************************************)
(* FritzBoxVPNCoordinator (coordinator.py): polls the Fritz!Box for its    *)
(* VPN listing and decides what a missing UID means.                       *)
(*                                                                         *)
(* A poll is one step.  The only await of _async_update_data is the fetch  *)
(* at its head, Home Assistant never runs two refreshes of a coordinator   *)
(* at once, and nothing read before the fetch is used after it.            *)
(*                                                                         *)
(* Time passes in ticks.  The deadlines the code compares with             *)
(* time.monotonic() are kept as the time left until _recovering_until and  *)
(* the time since _recovery_started_at.  A poll may happen at any moment:  *)
(* besides the schedule, toggles and the update_entity service ask for     *)
(* one, so no spacing of polls is assumed.                                 *)
(***************************************************************************)
EXTENDS Naturals, FiniteSets, UidIdentity

CONSTANTS
  Answers,            \* the listings the box may answer with
  UpdateInterval,     \* ticks between scheduled polls
  RetryAfter,         \* RETRY_AFTER_SECONDS in ticks
  MinIntervalFactor,  \* RECOVERY_MIN_INTERVAL_FACTOR
  MaxWindowFactor,    \* RECOVERY_MAX_WINDOW_FACTOR
  StablePolls,        \* RECOVERY_STABLE_POLLS
  OrphanConfirmPolls  \* ORPHAN_CONFIRM_POLLS

ASSUME AnswersAssumption == Answers \subseteq Listing
ASSUME TimesAssumption ==
  /\ UpdateInterval \in Nat \ {0} /\ RetryAfter \in Nat \ {0}
  /\ MinIntervalFactor \in Nat \ {0} /\ MaxWindowFactor \in Nat \ {0}
ASSUME PollsAssumption == StablePolls \in Nat \ {0} /\ OrphanConfirmPolls \in Nat \ {0, 1}

Larger(m, n) == IF m >= n THEN m ELSE n
RecoveryWindow ==
  Larger(MinIntervalFactor * UpdateInterval, MinIntervalFactor * RetryAfter)
RecoveryMax == MaxWindowFactor * RecoveryWindow

VARIABLES
  link,                   \* external: how a request to the box ends now
  listing,                \* external: what the box lists now
  data,                   \* coordinator.data, the last accepted listing
  last_update_success,
  seen_uids,              \* _seen_uids
  missing_uid_counts,     \* _missing_uid_counts, up to OrphanConfirmPolls
  confirmed_orphan_uids,  \* _confirmed_orphan_uids
  uid_names,              \* _uid_names, NoName for a UID not in it
  uid_remap,              \* _uid_remap, a UID not in it maps to itself
  recovering,             \* _recovering_until is not None
  window_left,            \* time until _recovering_until
  recovery_age,           \* time since _recovery_started_at, up to RecoveryMax
  recovery_stable_polls,  \* _recovery_stable_polls
  reauth_scheduled        \* _reauth_scheduled

box == <<link, listing>>
recovery == <<recovering, window_left, recovery_age, recovery_stable_polls>>
tracking == <<seen_uids, missing_uid_counts, confirmed_orphan_uids>>
vars == <<box, data, last_update_success, tracking, uid_names, uid_remap,
          recovery, reauth_scheduled>>

Links == {"up", "outage", "denied"}

-----------------------------------------------------------------------------
(* Helpers                                                                 *)

NoMisses == [u \in Uid |-> 0]

\* Mutant: misses counted before stay.
KeepMissStreaks == UNCHANGED missing_uid_counts

ResetMissStreaks == missing_uid_counts' = NoMisses

\* _remember_connection_names: a listed name replaces the cached one, a blank one too.
Remember(names, conns) ==
  [u \in Uid |-> IF conns[u] \in Name \union {BlankName} THEN conns[u] ELSE names[u]]

\* resolve_connection_uid: follow remaps, stopping where the walk would repeat.
ResolveUid(uid) ==
  LET walk[visited \in SUBSET Uid] ==
        [u \in Uid |-> IF uid_remap[u] = u \/ u \in visited THEN u
                       ELSE walk[visited \union {u}][uid_remap[u]]]
  IN walk[{}][uid]

ClearRecovery ==
  /\ recovering' = FALSE
  /\ window_left' = 0
  /\ recovery_age' = 0
  /\ recovery_stable_polls' = 0

\* Mutants: the new window is added to what is left of the old one, or a window
\* still open is not extended.
WindowAdded == window_left + RecoveryWindow
WindowKept == IF recovering THEN window_left ELSE RecoveryWindow

WindowExtended == RecoveryWindow

\* _arm_recovery: extends the window; the age counts from the first arming.
ArmRecovery ==
  /\ recovering' = TRUE
  /\ window_left' = WindowExtended
  /\ recovery_age' = IF recovering THEN recovery_age ELSE 0
  /\ recovery_stable_polls' = 0
  /\ seen_uids' = seen_uids \union Listed(data)
  /\ uid_names' = Remember(uid_names, data)
  /\ ResetMissStreaks
  /\ UNCHANGED confirmed_orphan_uids

\* Mutant: lists count as stable before the window has elapsed.
StableAnytime(conns) == Listed(conns) # {}

Stable(conns) == Listed(conns) # {} /\ window_left = 0

\* _note_successful_poll, while recovering
NoteSuccessfulPoll(conns) ==
  IF Stable(conns) /\ recovery_stable_polls + 1 >= StablePolls
  THEN ClearRecovery
  ELSE /\ recovery_stable_polls' = IF Stable(conns) THEN recovery_stable_polls + 1 ELSE 0
       /\ UNCHANGED <<recovering, window_left, recovery_age>>

SeenWith(conns) == seen_uids \union Listed(data) \union Listed(conns)

MissedOnceMore(u) ==
  IF missing_uid_counts[u] < OrphanConfirmPolls
  THEN missing_uid_counts[u] + 1 ELSE missing_uid_counts[u]

\* Mutants: a UID that is listed again keeps its misses, or only the previous
\* list is looked at for what is missing now.
MissesForGood(conns, u) ==
  IF u \in SeenWith(conns) \ Listed(conns)
  THEN MissedOnceMore(u) ELSE missing_uid_counts[u]
MissesSincePrevious(conns, u) ==
  IF u \in Listed(conns) THEN 0
  ELSE IF u \in Listed(data) THEN MissedOnceMore(u) ELSE missing_uid_counts[u]

Misses(conns, u) ==
  IF u \in Listed(conns) THEN 0
  ELSE IF u \in SeenWith(conns) THEN MissedOnceMore(u) ELSE missing_uid_counts[u]

\* _track_missing_uids
TrackMissing(conns) ==
  /\ seen_uids' = SeenWith(conns)
  /\ missing_uid_counts' = [u \in Uid |-> Misses(conns, u)]
  /\ confirmed_orphan_uids' =
       (confirmed_orphan_uids \ Listed(conns))
         \union {u \in SeenWith(conns) \ Listed(conns) :
                   Misses(conns, u) >= OrphanConfirmPolls}
  /\ uid_names' = Remember(Remember(uid_names, conns), data)

-----------------------------------------------------------------------------
(* UID remap during recovery                                               *)

Removed(conns) == seen_uids \ Listed(conns)
Added(conns) == Listed(conns) \ seen_uids

\* Mutant: when one UID is new, everything missing is taken for it.
RemapToTheNewOne(conns) ==
  IF Cardinality(Added(conns)) = 1
  THEN [u \in Removed(conns) |-> CHOOSE v \in Added(conns) : TRUE]
  ELSE [u \in {} |-> u]

\* What _apply_uid_remap_if_needed asks the registry to rename.
RemapProposed(conns) ==
  LET names == Remember(uid_names, conns) IN
  IF RemapAccepted(Removed(conns), Added(conns), names, conns)
  THEN NameRemap(Removed(conns), Added(conns), names, conns)
  ELSE [u \in {} |-> u]

\* Mutant: what the registry refused is forgotten too.
SeenWithoutProposed(conns, moved) ==
  LET remap == RemapProposed(conns) IN
  (SeenWith(conns) \ DOMAIN remap) \union {remap[u] : u \in moved}

\* The applied part leaves, its targets come in, and both lists are tracked.
SeenRemapped(conns, moved) ==
  LET remap == RemapProposed(conns) IN
  (seen_uids \ moved) \union {remap[u] : u \in moved}
    \union Listed(data) \union Listed(conns)

\* Mutant: the entities are not told.
NotRedirected(conns, moved) == uid_remap

Redirected(conns, moved) ==
  [u \in Uid |-> IF u \in moved THEN RemapProposed(conns)[u] ELSE uid_remap[u]]

\* The part of it the registry applied: the old UIDs in moved.
ApplyUidRemap(conns, moved) ==
  /\ uid_remap' = Redirected(conns, moved)
  /\ uid_names' = [u \in Uid |-> IF u \in moved THEN NoName
                                 ELSE Remember(uid_names, conns)[u]]
  /\ confirmed_orphan_uids' = confirmed_orphan_uids \ moved
  /\ seen_uids' = SeenRemapped(conns, moved)

-----------------------------------------------------------------------------
(* Polls (_async_update_data)                                              *)

PollSucceeds ==
  /\ data' = listing
  /\ last_update_success' = TRUE
  /\ reauth_scheduled' = FALSE
  /\ UNCHANGED box

PollFails ==
  /\ last_update_success' = FALSE
  /\ UNCHANGED <<box, data>>

\* The box cannot be reached, times out or answers something unusable.
PollOutage ==
  /\ link = "outage"
  /\ PollFails
  /\ ArmRecovery
  /\ UNCHANGED <<uid_remap, reauth_scheduled>>

\* _schedule_reauth, of a loaded entry: once per authentication failure cycle
StartsReauth == ~reauth_scheduled
\* Mutant: the flag is never set.
ScheduleReauthAgain == UNCHANGED reauth_scheduled

ScheduleReauth == reauth_scheduled' = TRUE

\* The box refuses the credentials.
PollDenied ==
  /\ link = "denied"
  /\ PollFails
  /\ ScheduleReauth
  /\ UNCHANGED <<tracking, uid_names, uid_remap, recovery>>

\* Mutant: the cap is ignored.
AlwaysElapsed == TRUE

RecoveryMaxElapsed == recovery_age >= RecoveryMax

\* Mutant: an empty list is refused only until the window has elapsed.
EmptyInWindow ==
  /\ link = "up" /\ recovering /\ window_left > 0
  /\ Listed(listing) = {}
  /\ seen_uids # {} \/ Listed(data) # {}

EmptyWhileRecovering ==
  /\ link = "up" /\ recovering
  /\ Listed(listing) = {}
  /\ seen_uids # {} \/ Listed(data) # {}

\* Mutant: an empty list starts the recovery anew.
RestartRecovery ==
  /\ window_left' = RecoveryWindow
  /\ recovery_age' = 0
  /\ recovery_stable_polls' = 0
  /\ UNCHANGED recovering

GoOnRecovering ==
  /\ recovery_stable_polls' = 0
  /\ UNCHANGED <<recovering, window_left, recovery_age>>

\* An empty list while recovering counts as one more failure ...
PollEmptyRefused ==
  /\ EmptyWhileRecovering
  /\ ~RecoveryMaxElapsed
  /\ PollFails
  /\ ResetMissStreaks
  /\ GoOnRecovering
  /\ UNCHANGED <<seen_uids, confirmed_orphan_uids, uid_names, uid_remap, reauth_scheduled>>

\* ... until the cap has elapsed: then recovery ends and the list is tracked.
PollEmptyAccepted ==
  /\ EmptyWhileRecovering
  /\ RecoveryMaxElapsed
  /\ ClearRecovery
  /\ TrackMissing(listing)
  /\ PollSucceeds
  /\ UNCHANGED uid_remap

\* A list accepted while recovering: renamed UIDs are remapped, nothing is
\* counted as missing.  moved is the registry's part of the decision.
PollRecovering(moved) ==
  /\ link = "up" /\ recovering
  /\ ~EmptyWhileRecovering
  /\ moved \subseteq DOMAIN RemapProposed(listing)
  /\ ApplyUidRemap(listing, moved)
  /\ ResetMissStreaks
  /\ NoteSuccessfulPoll(listing)
  /\ PollSucceeds

\* A list accepted outside recovery: missing UIDs are counted.
PollNormal ==
  /\ link = "up" /\ ~recovering
  /\ TrackMissing(listing)
  /\ PollSucceeds
  /\ UNCHANGED <<uid_remap, recovery>>

Poll ==
  \/ PollOutage
  \/ PollDenied
  \/ PollEmptyRefused
  \/ PollEmptyAccepted
  \/ \E moved \in SUBSET Uid : PollRecovering(moved)
  \/ PollNormal

-----------------------------------------------------------------------------
(* The rest of the world                                                   *)

\* toggle_vpn refused by the box; any other toggle leaves this state alone.
ToggleDenied ==
  /\ link = "denied"
  /\ ScheduleReauth
  /\ UNCHANGED <<box, data, last_update_success, tracking, uid_names, uid_remap,
                 recovery>>

Tick ==
  /\ window_left' = IF window_left > 0 THEN window_left - 1 ELSE 0
  /\ recovery_age' = IF recovering /\ recovery_age < RecoveryMax
                     THEN recovery_age + 1 ELSE recovery_age
  /\ UNCHANGED <<box, data, last_update_success, tracking, uid_names, uid_remap,
                 recovering, recovery_stable_polls, reauth_scheduled>>

BoxChanges ==
  /\ link' \in Links
  /\ listing' \in Answers
  /\ UNCHANGED <<data, last_update_success, tracking, uid_names, uid_remap,
                 recovery, reauth_scheduled>>

\* The first refresh of the entry's setup succeeded.
FirstRefreshed ==
  /\ link = "up"
  /\ data = listing
  /\ last_update_success = TRUE
  /\ seen_uids = Listed(listing)
  /\ missing_uid_counts = NoMisses
  /\ confirmed_orphan_uids = {}
  /\ uid_names = Remember([u \in Uid |-> NoName], listing)
  /\ uid_remap = [u \in Uid |-> u]
  /\ recovering = FALSE
  /\ window_left = 0
  /\ recovery_age = 0
  /\ recovery_stable_polls = 0
  /\ reauth_scheduled = FALSE

Init == listing \in Answers /\ FirstRefreshed

Next == Poll \/ ToggleDenied \/ Tick \/ BoxChanges

Spec == Init /\ [][Next]_vars

\* Time passes, and while entities listen Home Assistant keeps polling.
\* Nothing is assumed of the box.
FairSpec == Spec /\ WF_vars(Tick) /\ WF_vars(Poll)

-----------------------------------------------------------------------------
(* Properties                                                              *)

TypeOK ==
  /\ link \in Links
  /\ listing \in Listing
  /\ data \in Listing
  /\ last_update_success \in BOOLEAN
  /\ seen_uids \subseteq Uid
  /\ missing_uid_counts \in [Uid -> 0 .. OrphanConfirmPolls]
  /\ confirmed_orphan_uids \subseteq Uid
  /\ uid_names \in UidNames
  /\ uid_remap \in [Uid -> Uid]
  /\ recovering \in BOOLEAN
  /\ window_left \in 0 .. RecoveryWindow
  /\ recovery_age \in 0 .. RecoveryMax
  /\ recovery_stable_polls \in 0 .. StablePolls
  /\ reauth_scheduled \in BOOLEAN

\* No UID is on its way to being confirmed as removed while the box recovers
\* (README: a list that is incomplete then is not "connections deleted").
NoMissesWhileRecovering == recovering => missing_uid_counts = NoMisses

\* What entities are built from is always tracked: a listed UID can neither
\* vanish unnoticed nor be taken for a new one later.
ListedAreSeen == Listed(data) \subseteq seen_uids

\* A recovering coordinator confirms no removal, whatever it is answered, not
\* even in the step that ends the recovery.
RecoveryConfirmsNothing ==
  [][recovering => confirmed_orphan_uids' \subseteq confirmed_orphan_uids]_vars

\* The last good listing is replaced by an empty one during recovery only once
\* the hard cap has elapsed (README: a "temporarily empty" list).
LastListingKept ==
  [][recovering /\ Listed(data) # {} /\ Listed(data') = {}
       => recovery_age >= RecoveryMax]_vars

\* A remap leads from a UID that is gone to one that was not known before, is
\* listed, and carries the display name cached for the old one.
RemapKeepsName ==
  [][\A u \in Uid : uid_remap'[u] # uid_remap[u] =>
       /\ u \in seen_uids \ Listed(data')
       /\ uid_remap'[u] \in Listed(data') \ seen_uids
       /\ uid_names[u] \in Name /\ data'[uid_remap'[u]] = uid_names[u]]_vars

\* Two remapped UIDs never land on the same connection in one poll.
RemapKeepsApart ==
  [][\A u, v \in Uid :
       (u # v /\ uid_remap'[u] # uid_remap[u] /\ uid_remap'[v] # uid_remap[v])
         => uid_remap'[u] # uid_remap'[v]]_vars

\* A UID once seen is forgotten only by being remapped to one that is tracked
\* in its place, so no removal can go unreported.
SeenUntilRemapped ==
  [][\A u \in seen_uids \ seen_uids' :
       uid_remap'[u] # u /\ uid_remap'[u] \in seen_uids']_vars

\* Recovery ends once the box answers for good, whatever it lists (docstring of
\* recovery_max_seconds: "recovery cannot stick forever on a permanently empty
\* list"), provided some connection was ever seen: had_connections guards the cap,
\* and an empty list is no stable poll, so without one recovery does go on.
RecoveryEndsIfSeen ==
  (<>[](link = "up") /\ []<>(seen_uids # {})) => <>[](~recovering)

\* Once the box answers for good every UID ever seen keeps being settled:
\* listed, confirmed as removed, or replaced.
SeenUidsSettle ==
  <>[](link = "up") =>
    \A u \in Uid :
      (u \in seen_uids)
        ~> (u \in Listed(data) \union confirmed_orphan_uids \/ u \notin seen_uids)
=============================================================================
