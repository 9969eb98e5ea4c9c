----------------------- MODULE CoordinatorHistoryProofs -----------------------
(***************************************************************************)
(* Theorems that hold the coordinator's decisions against what happened.   *)
(***************************************************************************)
EXTENDS CoordinatorHistory, CoordinatorProofs

\* The counters of the code never claim more than the history shows: a miss was
\* a list without the UID, a stable poll a non-empty list after the window.
HInv ==
  /\ HTypeOK
  /\ WindowFollowsOutage
  /\ reauths = (IF reauth_scheduled THEN 1 ELSE 0)
  /\ \A u \in Uid : missing_uid_counts[u] <= missed[u]
  /\ recovery_stable_polls <= nonempty_run

LEMMA MaxCoversWindow == RecoveryWindow <= RecoveryMax
<1>1. \A w \in Nat, n \in Nat \ {0} : w <= n * w
  OBVIOUS
<1> QED
  BY <1>1, WindowsAreNat, TimesAssumption DEF RecoveryMax

\* Without its history a behaviour is one of the coordinator.
LEMMA HistoryIsCoordinator == HSpec => Spec
<1>1. HInit => Init
  BY DEF HInit
<1>2. [HNext]_hvars => [Next]_vars
  BY DEF HNext, hvars, Next, Poll, HPollOutage, HPollEmptyRefused, HPollEmptyAccepted,
         HPollRecovering, HPollNormal, HPollDenied, HToggleDenied, HTick, HBoxChanges
<1> QED
  BY <1>1, <1>2, PTL DEF HSpec, Spec

LEMMA HInitInv == HInit => HInv
<1> SUFFICES ASSUME HInit PROVE HInv
  OBVIOUS
<1> USE WindowsAreNat, PollsAssumption
<1>1. Inv
  BY InitInv DEF HInit
<1>2. missed \in [Uid -> 0 .. OrphanConfirmPolls] /\ nonempty_run \in 0 .. StablePolls
  BY DEF HInit
<1>3. quiet \in 0 .. RecoveryMax /\ reauths = 0
  BY DEF HInit
<1>4. HTypeOK
  BY <1>1, <1>2, <1>3 DEF HTypeOK, Inv
<1>5. /\ ~recovering /\ ~reauth_scheduled /\ recovery_stable_polls = 0
      /\ missing_uid_counts = NoMisses
  BY DEF HInit, Init, FirstRefreshed
<1>6. \A u \in Uid : missing_uid_counts[u] <= missed[u]
  BY <1>2, <1>5 DEF NoMisses
<1>7. recovery_stable_polls <= nonempty_run
  BY <1>2, <1>5
<1> QED
  BY <1>3, <1>4, <1>5, <1>6, <1>7 DEF HInv, WindowFollowsOutage

\* An accepted list, recorded, stays in range.
LEMMA RecordListType ==
  ASSUME HInv, RecordList
  PROVE  /\ missed' \in [Uid -> 0 .. OrphanConfirmPolls]
         /\ nonempty_run' \in 0 .. StablePolls
         /\ reauths' = 0 /\ quiet' = quiet
         /\ \A u \in Uid :
              missed'[u] = IF u \in Listed(listing) THEN 0
                           ELSE UpTo(OrphanConfirmPolls, missed[u] + 1)
         /\ nonempty_run' = IF Listed(listing) = {} THEN 0
                            ELSE UpTo(StablePolls, nonempty_run + 1)
<1> USE PollsAssumption DEF RecordList
<1>1. \A u \in Uid : UpTo(OrphanConfirmPolls, missed[u] + 1) \in 0 .. OrphanConfirmPolls
  BY DEF HInv, HTypeOK, UpTo
<1>2. missed' \in [Uid -> 0 .. OrphanConfirmPolls]
  BY <1>1
<1>3. UpTo(StablePolls, nonempty_run + 1) \in 0 .. StablePolls
  BY DEF HInv, HTypeOK, UpTo
<1> QED
  BY <1>2, <1>3

\* A miss the code counts is a miss that was recorded.
LEMMA CountedMissesWereRecorded ==
  ASSUME Inv, HInv, TrackMissing(listing), RecordList
  PROVE  \A u \in Uid : missing_uid_counts'[u] <= missed'[u]
<1> USE PollsAssumption
<1> SUFFICES ASSUME NEW u \in Uid
             PROVE  missing_uid_counts'[u] <= missed'[u]
  OBVIOUS
<1>1. /\ missing_uid_counts[u] \in 0 .. OrphanConfirmPolls
      /\ missed[u] \in 0 .. OrphanConfirmPolls
      /\ missing_uid_counts[u] <= missed[u]
  BY DEF Inv, TypeOK, HInv, HTypeOK
<1>2. /\ u \in Listed(listing) => missing_uid_counts'[u] = 0
      /\ u \notin Listed(listing) =>
           \/ missing_uid_counts'[u] = missing_uid_counts[u]
           \/ missing_uid_counts[u] < OrphanConfirmPolls
                /\ missing_uid_counts'[u] = missing_uid_counts[u] + 1
  BY DEF TrackMissing, Misses, MissedOnceMore
<1>3. missed'[u] = IF u \in Listed(listing) THEN 0
                   ELSE UpTo(OrphanConfirmPolls, missed[u] + 1)
  BY RecordListType
<1> QED
  BY <1>1, <1>2, <1>3 DEF UpTo

LEMMA HStepInv == Inv /\ Inv' /\ HInv /\ [HNext]_hvars => HInv'
<1> SUFFICES ASSUME Inv, Inv', HInv, [HNext]_hvars
             PROVE  HInv'
  OBVIOUS
<1> USE WindowsAreNat, PollsAssumption, MaxCoversWindow
<1>1. CASE HPollOutage
  <2>1. /\ quiet' = 0 /\ missed' = NoMisses /\ nonempty_run' = 0 /\ reauths' = reauths
        /\ missing_uid_counts' = NoMisses /\ recovery_stable_polls' = 0
        /\ reauth_scheduled' = reauth_scheduled /\ window_left' = RecoveryWindow
    BY <1>1 DEF HPollOutage, PollOutage, ArmRecovery, WindowExtended, ResetMissStreaks, ForgetRuns
  <2>2. missed' \in [Uid -> 0 .. OrphanConfirmPolls]
    BY <2>1 DEF NoMisses
  <2>3. HTypeOK'
    BY <2>1, <2>2 DEF HTypeOK, HInv, Inv
  <2>4. WindowFollowsOutage'
    BY <2>1 DEF WindowFollowsOutage
  <2>5. \A u \in Uid : missing_uid_counts'[u] <= missed'[u]
    BY <2>1 DEF NoMisses
  <2> QED
    BY <2>1, <2>3, <2>4, <2>5 DEF HInv
<1>2. CASE HPollEmptyRefused
  <2>1. /\ missed' = NoMisses /\ nonempty_run' = 0
        /\ UNCHANGED <<quiet, reauths, reauth_scheduled, window_left, recovering>>
        /\ missing_uid_counts' = NoMisses /\ recovery_stable_polls' = 0
    BY <1>2 DEF HPollEmptyRefused, PollEmptyRefused, ResetMissStreaks, GoOnRecovering, ForgetRuns
  <2>2. missed' \in [Uid -> 0 .. OrphanConfirmPolls]
    BY <2>1 DEF NoMisses
  <2>3. HTypeOK'
    BY <2>1, <2>2 DEF HTypeOK, HInv, Inv
  <2>4. WindowFollowsOutage'
    BY <2>1 DEF WindowFollowsOutage, HInv
  <2>5. \A u \in Uid : missing_uid_counts'[u] <= missed'[u]
    BY <2>1 DEF NoMisses
  <2> QED
    BY <2>1, <2>3, <2>4, <2>5 DEF HInv
<1>3. CASE HPollEmptyAccepted
  <2>1. /\ TrackMissing(listing) /\ RecordList /\ ~recovering'
        /\ ~reauth_scheduled' /\ recovery_stable_polls' = 0
    BY <1>3 DEF HPollEmptyAccepted, PollEmptyAccepted, PollSucceeds, ClearRecovery
  <2>2. HTypeOK'
    BY <2>1, RecordListType DEF HTypeOK, HInv, Inv
  <2>3. WindowFollowsOutage'
    BY <2>1 DEF WindowFollowsOutage
  <2>4. recovery_stable_polls' <= nonempty_run' /\ reauths' = 0
    BY <2>1, RecordListType
  <2> QED
    BY <2>1, <2>2, <2>3, <2>4, CountedMissesWereRecorded DEF HInv
<1>4. CASE HPollRecovering
  <2>1. /\ recovering /\ RecordList /\ missing_uid_counts' = NoMisses
        /\ NoteSuccessfulPoll(listing) /\ ~reauth_scheduled'
    BY <1>4 DEF HPollRecovering, PollRecovering, ResetMissStreaks, PollSucceeds
  <2>2. HTypeOK'
    BY <2>1, RecordListType DEF HTypeOK, HInv, Inv
  <2>3. \/ ~recovering' /\ recovery_stable_polls' = 0
        \/ /\ window_left' = window_left /\ quiet' = quiet
           /\ recovery_stable_polls' = 0 \/
                (Listed(listing) # {} /\ recovery_stable_polls' = recovery_stable_polls + 1)
    BY <2>1, RecordListType DEF NoteSuccessfulPoll, Stable, ClearRecovery
  <2>4. WindowFollowsOutage'
    BY <2>1, <2>3 DEF WindowFollowsOutage, HInv
  <2>5. recovery_stable_polls' <= nonempty_run'
    <3>1. /\ recovery_stable_polls \in 0 .. StablePolls
          /\ recovery_stable_polls' \in 0 .. StablePolls
          /\ nonempty_run \in 0 .. StablePolls
          /\ recovery_stable_polls <= nonempty_run
      BY DEF Inv, TypeOK, HInv, HTypeOK
    <3> QED
      BY <2>1, <2>3, <3>1, RecordListType DEF UpTo
  <2>6. \A u \in Uid : missing_uid_counts'[u] <= missed'[u]
    BY <2>1, RecordListType DEF NoMisses
  <2>7. reauths' = 0
    BY <2>1, RecordListType
  <2> QED
    BY <2>1, <2>2, <2>4, <2>5, <2>6, <2>7 DEF HInv
<1>5. CASE HPollNormal
  <2>1. /\ TrackMissing(listing) /\ RecordList /\ ~recovering /\ ~recovering'
        /\ ~reauth_scheduled' /\ recovery_stable_polls' = recovery_stable_polls
    BY <1>5 DEF HPollNormal, PollNormal, PollSucceeds, recovery
  <2>2. HTypeOK'
    BY <2>1, RecordListType DEF HTypeOK, HInv, Inv
  <2>3. WindowFollowsOutage'
    BY <2>1 DEF WindowFollowsOutage
  <2>4. recovery_stable_polls' = 0
    BY <2>1 DEF Inv, RecoveryReset
  <2>5. recovery_stable_polls' <= nonempty_run' /\ reauths' = 0
    BY <2>1, <2>4, RecordListType
  <2> QED
    BY <2>1, <2>2, <2>3, <2>5, CountedMissesWereRecorded DEF HInv
<1>6. CASE HPollDenied \/ HToggleDenied
  <2>1. /\ RecordReauth /\ reauth_scheduled'
        /\ UNCHANGED <<missing_uid_counts, recovering, window_left, recovery_stable_polls>>
    BY <1>6 DEF HPollDenied, PollDenied, HToggleDenied, ToggleDenied, ScheduleReauth,
                tracking, recovery
  <2>2. reauths' = 1
    BY <2>1 DEF RecordReauth, StartsReauth, HInv, UpTo
  <2> QED
    BY <2>1, <2>2 DEF RecordReauth, HInv, HTypeOK, Inv, WindowFollowsOutage
<1>7. CASE HTick
  <2>1. /\ window_left' = IF window_left > 0 THEN window_left - 1 ELSE 0
        /\ quiet' = UpTo(RecoveryMax, quiet + 1)
        /\ UNCHANGED <<missed, nonempty_run, reauths, missing_uid_counts, recovering,
                       recovery_stable_polls, reauth_scheduled>>
    BY <1>7 DEF HTick, Tick, tracking
  <2>2. quiet' \in 0 .. RecoveryMax /\ WindowFollowsOutage'
    BY <2>1 DEF HInv, HTypeOK, WindowFollowsOutage, UpTo, Inv, TypeOK
  <2> QED
    BY <2>1, <2>2 DEF HInv, HTypeOK, Inv
<1>8. CASE HBoxChanges
  BY <1>8 DEF HBoxChanges, BoxChanges, history, tracking, recovery,
              HInv, HTypeOK, Inv, WindowFollowsOutage
<1>9. CASE UNCHANGED hvars
  BY <1>9 DEF hvars, vars, history, tracking, recovery,
              HInv, HTypeOK, Inv, WindowFollowsOutage
<1> QED
  BY <1>1, <1>2, <1>3, <1>4, <1>5, <1>6, <1>7, <1>8, <1>9 DEF HNext

\* The history bounds the counters throughout.
THEOREM HInvHolds == HSpec => [](Inv /\ HInv)
<1>1. HSpec => []Inv
  BY HistoryIsCoordinator, InvHolds, PTL
<1> QED
  BY <1>1, HInitInv, HStepInv, PTL DEF HSpec

-----------------------------------------------------------------------------
\* Code and history keep their types, and with them every bound of a counter.
THEOREM HTypeCorrect == HSpec => []HTypeOK
<1>1. HInv => HTypeOK
  BY DEF HInv
<1> QED
  BY <1>1, HInvHolds, PTL

\* The recovery window always ends one window after the last outage.
THEOREM WindowFollowsOutageHolds == HSpec => []WindowFollowsOutage
<1>1. HInv => WindowFollowsOutage
  BY DEF HInv
<1> QED
  BY <1>1, HInvHolds, PTL

\* Credentials refused any number of times start one reauthentication flow.
THEOREM OneReauthPerCycleHolds == HSpec => []OneReauthPerCycle
<1>1. HInv => OneReauthPerCycle
  BY DEF HInv, OneReauthPerCycle
<1> QED
  BY <1>1, HInvHolds, PTL

\* A removal is confirmed only after enough lists in a row without the UID.
THEOREM OrphansHaveEvidenceHolds == HSpec => OrphansHaveEvidence
<1> DEFINE Evidence(u) == missed'[u] >= OrphanConfirmPolls
<1>1. Inv /\ HInv /\ HInv' /\ [HNext]_hvars
        => [\A u \in confirmed_orphan_uids' \ confirmed_orphan_uids : Evidence(u)]_hvars
  <2> SUFFICES ASSUME Inv, HInv, HInv', HNext,
                      NEW u \in confirmed_orphan_uids' \ confirmed_orphan_uids
               PROVE  Evidence(u)
    OBVIOUS
  <2>1. [Next]_vars
    BY DEF HNext, Next, Poll, HPollOutage, HPollEmptyRefused, HPollEmptyAccepted,
           HPollRecovering, HPollNormal, HPollDenied, HToggleDenied, HTick, HBoxChanges
  <2>2. TrackMissing(listing)
    BY <2>1, StepKinds, PollRecoveringRemaps
  <2>3. u \in Uid /\ missing_uid_counts'[u] >= OrphanConfirmPolls
    BY <2>2, ListedType DEF TrackMissing, SeenWith, Inv, TypeOK
  <2>4. /\ missing_uid_counts'[u] <= missed'[u]
        /\ missed'[u] \in 0 .. OrphanConfirmPolls
        /\ missing_uid_counts'[u] \in 0 .. OrphanConfirmPolls
    BY <2>3 DEF HInv, HTypeOK, TypeOK
  <2> QED
    BY <2>3, <2>4, PollsAssumption
<1> QED
  BY <1>1, HInvHolds, PTL DEF HSpec, OrphansHaveEvidence

\* Recovery ends after quiet and stable answers, or by the cap on an empty list.
THEOREM RecoveryEndsOnEvidenceHolds == HSpec => RecoveryEndsOnEvidence
<1>1. Inv /\ HInv /\ HInv' /\ [HNext]_hvars
        => [recovering /\ ~recovering' =>
              \/ quiet >= RecoveryWindow /\ nonempty_run' >= StablePolls
              \/ Listed(data') = {} /\ recovery_age >= RecoveryMax]_hvars
  <2> SUFFICES ASSUME Inv, HInv, HInv', HNext, recovering, ~recovering'
               PROVE  \/ quiet >= RecoveryWindow /\ nonempty_run' >= StablePolls
                      \/ Listed(data') = {} /\ recovery_age >= RecoveryMax
    OBVIOUS
  <2>1. HPollEmptyAccepted \/ HPollRecovering
    BY DEF HNext, HPollOutage, PollOutage, ArmRecovery, HPollEmptyRefused,
           PollEmptyRefused, GoOnRecovering, HPollNormal, PollNormal, HPollDenied, PollDenied,
           HToggleDenied, ToggleDenied, HTick, Tick, HBoxChanges, BoxChanges, recovery
  <2>2. CASE HPollEmptyAccepted
    BY <2>2 DEF HPollEmptyAccepted, PollEmptyAccepted, RecoveryMaxElapsed, EmptyWhileRecovering, PollSucceeds
  <2>3. CASE HPollRecovering
    <3>1. RecordList /\ NoteSuccessfulPoll(listing)
      BY <2>3 DEF HPollRecovering, PollRecovering
    <3>2. /\ Listed(listing) # {} /\ window_left = 0
          /\ recovery_stable_polls + 1 >= StablePolls
      BY <3>1 DEF NoteSuccessfulPoll, Stable
    <3>3. quiet >= RecoveryWindow
      BY <3>2, WindowsAreNat DEF HInv, HTypeOK, WindowFollowsOutage
    <3>4. nonempty_run' >= StablePolls
      BY <3>1, <3>2, RecordListType, PollsAssumption
         DEF HInv, HTypeOK, TypeOK, UpTo
    <3> QED
      BY <3>3, <3>4
  <2> QED
    BY <2>1, <2>2, <2>3
<1> QED
  BY <1>1, HInvHolds, PTL DEF HSpec, RecoveryEndsOnEvidence
===============================================================================
