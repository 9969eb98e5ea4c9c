-------------------------- MODULE CoordinatorProofs --------------------------
(***************************************************************************)
(* Theorems about the coordinator, for every set of UIDs, names and        *)
(* answers of the box and every interval, window and threshold.            *)
(***************************************************************************)
EXTENDS Coordinator, TLAPS

-----------------------------------------------------------------------------
(* What every accepted remap is: the one pairing of the old UIDs with the  *)
(* new ones that keeps the display names.                                  *)

\* The pairings a remap may choose from: old UIDs one to one onto new ones, each
\* under its own name.
Pairing(f, old, new, oldNames, conns) ==
  /\ f \in [old -> new]
  /\ \A u \in old : conns[f[u]] = oldNames[u]
  /\ \A u, v \in old : f[u] = f[v] => u = v
  /\ \A v \in new : \E u \in old : f[u] = v

\* name_bijection_uid_remap returns a pairing whenever it returns a mapping: no
\* old UID is left out, none leads to a VPN of another name, no two are merged.
THEOREM RemapIsPairing ==
  ASSUME NEW old, NEW new, NEW oldNames, NEW conns,
         RemapAccepted(old, new, oldNames, conns)
  PROVE  Pairing(NameRemap(old, new, oldNames, conns), old, new, oldNames, conns)
<1> DEFINE f == NameRemap(old, new, oldNames, conns)
<1>1. ASSUME NEW u \in old
      PROVE  f[u] \in new /\ conns[f[u]] = oldNames[u]
  <2>1. \E v \in new : conns[v] = oldNames[u]
    BY DEF RemapAccepted
  <2>2. f[u] = CHOOSE v \in new : conns[v] = oldNames[u]
    BY DEF NameRemap
  <2> QED
    BY <2>1, <2>2
<1>2. f \in [old -> new]
  BY <1>1 DEF NameRemap
<1>3. ASSUME NEW u \in old, NEW v \in old, f[u] = f[v]
      PROVE  u = v
  BY <1>1, <1>3 DEF RemapAccepted, NamedApart
<1>4. ASSUME NEW v \in new
      PROVE  \E u \in old : f[u] = v
  <2>1. PICK u \in old : oldNames[u] = conns[v]
    BY DEF RemapAccepted
  <2>2. conns[f[u]] = conns[v] /\ f[u] \in new
    BY <1>1, <2>1
  <2> QED
    BY <2>2 DEF RemapAccepted, NamedApart
<1> QED
  BY <1>1, <1>2, <1>3, <1>4 DEF Pairing

\* There is no other pairing, so the code never chooses between two readings of
\* what the box did (docstring: "no silent guessing").
THEOREM RemapIsOnlyPairing ==
  ASSUME NEW old, NEW new, NEW oldNames, NEW conns, NEW g,
         RemapAccepted(old, new, oldNames, conns),
         Pairing(g, old, new, oldNames, conns)
  PROVE  g = NameRemap(old, new, oldNames, conns)
<1> DEFINE f == NameRemap(old, new, oldNames, conns)
<1>1. f \in [old -> new] /\ \A u \in old : conns[f[u]] = oldNames[u]
  BY RemapIsPairing DEF Pairing
<1>2. g \in [old -> new] /\ \A u \in old : conns[g[u]] = oldNames[u]
  BY DEF Pairing
<1>3. ASSUME NEW u \in old
      PROVE  g[u] = f[u]
  BY <1>1, <1>2 DEF RemapAccepted, NamedApart
<1> HIDE DEF f
<1> QED
  <2>1. g = f
    BY <1>1, <1>2, <1>3
  <2> QED
    BY <2>1 DEF f

-----------------------------------------------------------------------------
(* The coordinator                                                         *)

RecoveryReset == window_left = 0 /\ recovery_age = 0 /\ recovery_stable_polls = 0

\* TypeOK and NoMissesWhileRecovering are not inductive without the last line:
\* a recovery that starts must find its counters reset.
Inv ==
  /\ TypeOK
  /\ NoMissesWhileRecovering
  /\ ListedAreSeen
  /\ recovering \/ RecoveryReset

-----------------------------------------------------------------------------
(* Lemmas about the helpers                                                *)

LEMMA WindowsAreNat == RecoveryWindow \in Nat /\ RecoveryMax \in Nat
<1>1. /\ MinIntervalFactor * UpdateInterval \in Nat
      /\ MinIntervalFactor * RetryAfter \in Nat
  BY TimesAssumption
<1>2. RecoveryWindow \in Nat
  BY <1>1 DEF RecoveryWindow, Larger
<1> QED
  BY <1>2, TimesAssumption DEF RecoveryMax

LEMMA RememberType ==
  ASSUME NEW names \in UidNames, NEW conns
  PROVE  Remember(names, conns) \in UidNames
BY DEF Remember, UidNames

LEMMA ListedType ==
  ASSUME NEW conns
  PROVE  Listed(conns) \subseteq Uid
BY DEF Listed

\* What is proposed leads from removed UIDs, one to one, to added ones of the
\* name that is cached for the old one.
LEMMA ProposedRemap ==
  ASSUME TypeOK, NEW conns \in Listing
  PROVE  LET remap == RemapProposed(conns) IN
         /\ \A u \in DOMAIN remap :
              /\ u \in Removed(conns) /\ remap[u] \in Added(conns)
              /\ uid_names[u] \in Name /\ conns[remap[u]] = uid_names[u]
         /\ \A u, v \in DOMAIN remap : remap[u] = remap[v] => u = v
<1> DEFINE names == Remember(uid_names, conns)
           remap == RemapProposed(conns)
<1>1. CASE RemapAccepted(Removed(conns), Added(conns), names, conns)
  <2>1. remap = NameRemap(Removed(conns), Added(conns), names, conns)
    BY <1>1 DEF RemapProposed
  <2>2. Pairing(remap, Removed(conns), Added(conns), names, conns)
    BY <1>1, <2>1, RemapIsPairing
  <2>3. DOMAIN remap = Removed(conns)
    BY <2>2 DEF Pairing
  <2>4. ASSUME NEW u \in Removed(conns)
        PROVE  names[u] = uid_names[u] /\ names[u] \in Name
    <3>1. u \in Uid /\ conns[u] = Absent
      BY DEF Removed, TypeOK, Listed
    <3>2. names[u] = uid_names[u]
      BY <3>1, NameAssumption DEF Remember
    <3> QED
      BY <1>1, <3>2 DEF RemapAccepted, NamedApart
  <2> HIDE DEF names, remap
  <2>5. \A u \in DOMAIN remap :
          /\ u \in Removed(conns) /\ remap[u] \in Added(conns)
          /\ uid_names[u] \in Name /\ conns[remap[u]] = uid_names[u]
    BY <2>2, <2>3, <2>4 DEF Pairing
  <2>6. \A u, v \in DOMAIN remap : remap[u] = remap[v] => u = v
    BY <2>2, <2>3 DEF Pairing
  <2> QED
    BY <2>5, <2>6 DEF remap
<1>2. CASE ~RemapAccepted(Removed(conns), Added(conns), names, conns)
  BY <1>2 DEF RemapProposed
<1> QED
  BY <1>1, <1>2

\* Tracking keeps the types, and a first miss confirms nothing.
LEMMA TrackMissingType ==
  ASSUME Inv, TrackMissing(listing)
  PROVE  /\ seen_uids' \subseteq Uid
         /\ missing_uid_counts' \in [Uid -> 0 .. OrphanConfirmPolls]
         /\ confirmed_orphan_uids' \subseteq Uid
         /\ uid_names' \in UidNames
         /\ Listed(listing) \subseteq seen_uids'
         /\ recovering => confirmed_orphan_uids' \subseteq confirmed_orphan_uids
<1> USE PollsAssumption
<1> DEFINE current == Listed(listing)
           seen == SeenWith(listing)
           count(u) == Misses(listing, u)
<1>1. /\ seen_uids' = seen
      /\ missing_uid_counts' = [u \in Uid |-> count(u)]
      /\ confirmed_orphan_uids' =
           (confirmed_orphan_uids \ current)
             \union {u \in seen \ current : count(u) >= OrphanConfirmPolls}
      /\ uid_names' = Remember(Remember(uid_names, listing), data)
  BY DEF TrackMissing
<1>2. seen \subseteq Uid /\ current \subseteq seen
  BY ListedType DEF SeenWith, Inv, TypeOK
<1>3. ASSUME NEW u \in Uid
      PROVE  /\ count(u) \in 0 .. OrphanConfirmPolls
             /\ recovering => count(u) < OrphanConfirmPolls
  <2>1. missing_uid_counts[u] \in 0 .. OrphanConfirmPolls
    BY DEF Inv, TypeOK
  <2>2. recovering => missing_uid_counts[u] = 0
    BY DEF Inv, NoMissesWhileRecovering, NoMisses
  <2> QED
    BY <2>1, <2>2 DEF Misses, MissedOnceMore
<1>4. uid_names' \in UidNames
  BY <1>1, RememberType DEF Inv, TypeOK
<1> HIDE DEF count, seen
<1>5. recovering => confirmed_orphan_uids' \subseteq confirmed_orphan_uids
  <2> SUFFICES ASSUME recovering, NEW u \in seen \ current
               PROVE  ~(count(u) >= OrphanConfirmPolls)
    BY <1>1
  <2>1. count(u) \in 0 .. OrphanConfirmPolls /\ count(u) < OrphanConfirmPolls
    BY <1>2, <1>3
  <2> QED
    BY <2>1
<1>6. missing_uid_counts' \in [Uid -> 0 .. OrphanConfirmPolls]
  BY <1>1, <1>3
<1>7. confirmed_orphan_uids' \subseteq Uid
  BY <1>1, <1>2 DEF Inv, TypeOK
<1> QED
  BY <1>1, <1>2, <1>4, <1>5, <1>6, <1>7

RecoveryType ==
  /\ recovering \in BOOLEAN
  /\ window_left \in 0 .. RecoveryWindow
  /\ recovery_age \in 0 .. RecoveryMax
  /\ recovery_stable_polls \in 0 .. StablePolls

LEMMA ClearRecoveryType ==
  ASSUME ClearRecovery
  PROVE  RecoveryType' /\ RecoveryReset'
<1>1. recovering' \in BOOLEAN
  BY DEF ClearRecovery
<1>2. RecoveryReset'
  BY DEF ClearRecovery, RecoveryReset
<1> QED
  BY <1>1, <1>2, WindowsAreNat, PollsAssumption DEF RecoveryType, RecoveryReset

\* Clearing and counting keep the recovery's timers in range.
LEMMA NoteSuccessfulPollType ==
  ASSUME Inv, recovering, NoteSuccessfulPoll(listing)
  PROVE  RecoveryType' /\ (recovering' \/ RecoveryReset')
<1>1. CASE ClearRecovery
  BY <1>1, ClearRecoveryType
<1>2. CASE ~ClearRecovery
  <2>1. /\ recovering' = recovering /\ window_left' = window_left
        /\ recovery_age' = recovery_age
    BY <1>2 DEF NoteSuccessfulPoll
  <2>2. recovery_stable_polls' = 0 \/
          (recovery_stable_polls' = recovery_stable_polls + 1
             /\ ~(recovery_stable_polls + 1 >= StablePolls))
    BY <1>2 DEF NoteSuccessfulPoll
  <2>3. recovery_stable_polls' \in 0 .. StablePolls
    BY <2>2, PollsAssumption DEF Inv, TypeOK
  <2>4. RecoveryType'
    BY <2>1, <2>3 DEF RecoveryType, Inv, TypeOK
  <2> QED
    BY <2>1, <2>4
<1> QED
  BY <1>1, <1>2

-----------------------------------------------------------------------------
(* The inductive invariant                                                 *)

LEMMA FirstRefreshedInv ==
  ASSUME listing \in Listing, FirstRefreshed
  PROVE  Inv
<1> USE WindowsAreNat, PollsAssumption DEF FirstRefreshed
<1>1. missing_uid_counts \in [Uid -> 0 .. OrphanConfirmPolls]
  BY DEF NoMisses
<1>2. uid_names \in UidNames
  BY RememberType DEF UidNames
<1>3. uid_remap \in [Uid -> Uid] /\ seen_uids \subseteq Uid
  BY ListedType
<1>4. RecoveryType /\ RecoveryReset
  <2>1. recovering \in BOOLEAN
    OBVIOUS
  <2>2. RecoveryReset
    BY DEF RecoveryReset
  <2> QED
    BY ONLY <2>1, <2>2, WindowsAreNat, PollsAssumption DEF RecoveryType, RecoveryReset
<1>5. TypeOK
  BY <1>1, <1>2, <1>3, <1>4 DEF TypeOK, RecoveryType, Links
<1> QED
  BY <1>4, <1>5 DEF Inv, NoMissesWhileRecovering, ListedAreSeen, RecoveryReset, RecoveryType

LEMMA InitInv == Init => Inv
BY FirstRefreshedInv, AnswersAssumption DEF Init

LEMMA StepInv == Inv /\ [Next]_vars => Inv'
<1> SUFFICES ASSUME Inv, [Next]_vars PROVE Inv'
  OBVIOUS
<1> USE WindowsAreNat, PollsAssumption
<1>1. CASE PollOutage
  <2>1. /\ seen_uids' \subseteq Uid /\ uid_names' \in UidNames
        /\ Listed(data') \subseteq seen_uids'
    BY <1>1, ListedType, RememberType
       DEF PollOutage, PollFails, ArmRecovery, Inv, TypeOK
  <2>2. missing_uid_counts' = NoMisses
        /\ missing_uid_counts' \in [Uid -> 0 .. OrphanConfirmPolls]
    BY <1>1 DEF PollOutage, ArmRecovery, ResetMissStreaks, NoMisses
  <2>3. /\ recovering' = TRUE
        /\ window_left' \in 0 .. RecoveryWindow
        /\ recovery_age' \in 0 .. RecoveryMax
        /\ recovery_stable_polls' \in 0 .. StablePolls
    BY <1>1 DEF PollOutage, ArmRecovery, WindowExtended, Inv, TypeOK
  <2>4. TypeOK'
    BY <1>1, <2>1, <2>2, <2>3
       DEF PollOutage, PollFails, ArmRecovery, box, Inv, TypeOK
  <2> QED
    BY <2>1, <2>2, <2>3, <2>4 DEF Inv, NoMissesWhileRecovering, ListedAreSeen, RecoveryReset, RecoveryType
<1>2. CASE PollDenied
  BY <1>2 DEF PollDenied, PollFails, ScheduleReauth, box, tracking, recovery,
              Inv, TypeOK, NoMissesWhileRecovering, ListedAreSeen, RecoveryReset, RecoveryType
<1>3. CASE PollEmptyRefused
  <2>1. missing_uid_counts' = NoMisses
        /\ missing_uid_counts' \in [Uid -> 0 .. OrphanConfirmPolls]
    BY <1>3 DEF PollEmptyRefused, ResetMissStreaks, NoMisses
  <2>2. /\ recovery_stable_polls' = 0
        /\ UNCHANGED <<data, seen_uids, recovering, window_left, recovery_age>>
    BY <1>3 DEF PollEmptyRefused, GoOnRecovering, PollFails
  <2>3. TypeOK'
    <3>1. last_update_success' \in BOOLEAN
      BY <1>3 DEF PollEmptyRefused, PollFails
    <3>2. UNCHANGED <<box, confirmed_orphan_uids, uid_names, uid_remap, reauth_scheduled>>
      BY <1>3 DEF PollEmptyRefused, PollFails
    <3> QED
      BY <2>1, <2>2, <3>1, <3>2 DEF box, Inv, TypeOK
  <2> QED
    BY <2>1, <2>2, <2>3 DEF Inv, NoMissesWhileRecovering, ListedAreSeen, RecoveryReset
<1>4. CASE PollEmptyAccepted
  <2>1. /\ TrackMissing(listing) /\ PollSucceeds /\ ClearRecovery
        /\ UNCHANGED uid_remap
    BY <1>4 DEF PollEmptyAccepted
  <2>2. TypeOK'
    BY <2>1, TrackMissingType, ClearRecoveryType DEF PollSucceeds, box, RecoveryType, Inv, TypeOK
  <2> QED
    BY <2>1, <2>2, TrackMissingType, ClearRecoveryType DEF PollSucceeds, ClearRecovery,
       Inv, NoMissesWhileRecovering, ListedAreSeen, RecoveryReset, RecoveryType
<1>5. ASSUME NEW moved \in SUBSET Uid, PollRecovering(moved)
      PROVE  Inv'
  <2> DEFINE remap == RemapProposed(listing)
  <2>1. /\ recovering /\ moved \subseteq DOMAIN remap
        /\ ApplyUidRemap(listing, moved) /\ missing_uid_counts' = NoMisses
        /\ NoteSuccessfulPoll(listing) /\ PollSucceeds
    BY <1>5 DEF PollRecovering, ResetMissStreaks
  <2>2. \A u \in moved : remap[u] \in Uid
    BY <2>1, ProposedRemap, ListedType DEF Added, Inv, TypeOK
  <2>3. uid_remap' \in [Uid -> Uid]
    BY <2>1, <2>2 DEF ApplyUidRemap, Redirected, Inv, TypeOK
  <2>4. uid_names' \in UidNames
    BY <2>1, RememberType DEF ApplyUidRemap, UidNames, Inv, TypeOK
  <2>5. /\ seen_uids' \subseteq Uid /\ Listed(listing) \subseteq seen_uids'
        /\ confirmed_orphan_uids' \subseteq Uid
    BY <2>1, <2>2, ListedType DEF ApplyUidRemap, SeenRemapped, Inv, TypeOK
  <2>6. missing_uid_counts' \in [Uid -> 0 .. OrphanConfirmPolls]
    BY <2>1 DEF NoMisses
  <2>7. TypeOK'
    BY <2>1, <2>3, <2>4, <2>5, <2>6, NoteSuccessfulPollType
       DEF PollSucceeds, box, RecoveryType, Inv, TypeOK
  <2> QED
    BY <2>1, <2>5, <2>7, NoteSuccessfulPollType
       DEF PollSucceeds, Inv, NoMissesWhileRecovering, ListedAreSeen, RecoveryReset, RecoveryType
<1>6. CASE PollNormal
  <2>1. /\ TrackMissing(listing) /\ PollSucceeds /\ ~recovering
        /\ UNCHANGED <<uid_remap, recovery>>
    BY <1>6 DEF PollNormal
  <2>2. TypeOK'
    BY <2>1, TrackMissingType DEF PollSucceeds, box, recovery, Inv, TypeOK
  <2> QED
    BY <2>1, <2>2, TrackMissingType DEF PollSucceeds, recovery,
       Inv, NoMissesWhileRecovering, ListedAreSeen, RecoveryReset, RecoveryType
<1>7. CASE ToggleDenied
  BY <1>7 DEF ToggleDenied, ScheduleReauth, box, tracking, recovery,
              Inv, TypeOK, NoMissesWhileRecovering, ListedAreSeen, RecoveryReset, RecoveryType
<1>8. CASE Tick
  <2>1. window_left' \in 0 .. RecoveryWindow /\ recovery_age' \in 0 .. RecoveryMax
    BY <1>8 DEF Tick, Inv, TypeOK
  <2> QED
    BY <1>8, <2>1 DEF Tick, box, tracking, Inv, TypeOK,
                      NoMissesWhileRecovering, ListedAreSeen, RecoveryReset, RecoveryType
<1>9. CASE BoxChanges
  BY <1>9, AnswersAssumption DEF BoxChanges, tracking, recovery,
              Inv, TypeOK, NoMissesWhileRecovering, ListedAreSeen, RecoveryReset, RecoveryType
<1>10. CASE UNCHANGED vars
  BY <1>10 DEF vars, box, tracking, recovery,
               Inv, TypeOK, NoMissesWhileRecovering, ListedAreSeen, RecoveryReset, RecoveryType
<1> QED
  BY <1>1, <1>2, <1>3, <1>4, <1>5, <1>6, <1>7, <1>8, <1>9, <1>10 DEF Next, Poll

\* The inductive invariant holds throughout.
THEOREM InvHolds == Spec => []Inv
<1> QED
  BY InitInv, StepInv, PTL DEF Spec

-----------------------------------------------------------------------------
(* Invariants of the specification                                         *)

\* Type correctness: no handler leaves the domains the code works in.
THEOREM TypeCorrect == Spec => []TypeOK
<1>1. Inv => TypeOK
  BY DEF Inv
<1> QED
  BY <1>1, InvHolds, PTL

\* No UID is on its way to being confirmed as removed during a recovery.
THEOREM NoMissesWhileRecoveringHolds == Spec => []NoMissesWhileRecovering
<1>1. Inv => NoMissesWhileRecovering
  BY DEF Inv
<1> QED
  BY <1>1, InvHolds, PTL

\* Every UID the entities are built from is tracked.
THEOREM ListedAreSeenHolds == Spec => []ListedAreSeen
<1>1. Inv => ListedAreSeen
  BY DEF Inv
<1> QED
  BY <1>1, InvHolds, PTL

-----------------------------------------------------------------------------
(* What a step may never do                                                *)

\* Which steps touch what: only polls that accept a list change data, only polls
\* that remap change uid_remap, only polls that remap forget a UID.
LEMMA StepKinds ==
  ASSUME Inv, [Next]_vars
  PROVE  \/ TrackMissing(listing) /\ UNCHANGED uid_remap /\ data' = listing
              /\ (recovering => PollEmptyAccepted)
         \/ \E moved \in SUBSET Uid : PollRecovering(moved)
         \/ /\ UNCHANGED <<data, confirmed_orphan_uids, uid_remap>>
            /\ seen_uids \subseteq seen_uids'
<1>1. CASE PollOutage
  BY <1>1 DEF PollOutage, PollFails, ArmRecovery
<1>2. CASE PollDenied
  BY <1>2 DEF PollDenied, PollFails, tracking
<1>3. CASE PollEmptyRefused
  BY <1>3 DEF PollEmptyRefused, PollFails
<1>4. CASE PollEmptyAccepted
  <2>1. TrackMissing(listing) /\ UNCHANGED uid_remap /\ data' = listing
    BY <1>4 DEF PollEmptyAccepted, PollSucceeds
  <2> QED
    BY <1>4, <2>1
<1>5. CASE \E moved \in SUBSET Uid : PollRecovering(moved)
  BY <1>5
<1>6. CASE PollNormal
  BY <1>6 DEF PollNormal, PollSucceeds
<1>7. CASE ToggleDenied
  BY <1>7 DEF ToggleDenied, tracking
<1>8. CASE Tick
  BY <1>8 DEF Tick, tracking
<1>9. CASE BoxChanges
  BY <1>9 DEF BoxChanges, tracking
<1>10. CASE UNCHANGED vars
  BY <1>10 DEF vars, tracking
<1> QED
  BY <1>1, <1>2, <1>3, <1>4, <1>5, <1>6, <1>7, <1>8, <1>9, <1>10 DEF Next, Poll

\* A remapping poll, in the terms of the properties below.
LEMMA PollRecoveringRemaps ==
  ASSUME Inv, NEW moved \in SUBSET Uid, PollRecovering(moved)
  PROVE  /\ data' = listing /\ confirmed_orphan_uids' \subseteq confirmed_orphan_uids
         /\ \A u \in Uid : u \notin moved => uid_remap'[u] = uid_remap[u]
         /\ \A u \in moved :
              /\ u \in Uid
              /\ uid_remap'[u] = RemapProposed(listing)[u]
              /\ u \in seen_uids \ Listed(listing)
              /\ uid_remap'[u] \in Listed(listing) \ seen_uids
              /\ uid_names[u] \in Name /\ listing[uid_remap'[u]] = uid_names[u]
              /\ uid_remap'[u] \in seen_uids'
         /\ \A u, v \in moved : uid_remap'[u] = uid_remap'[v] => u = v
         /\ seen_uids \ seen_uids' \subseteq moved
<1> DEFINE remap == RemapProposed(listing)
<1>1. /\ data' = listing /\ moved \subseteq DOMAIN remap
      /\ ApplyUidRemap(listing, moved)
  BY DEF PollRecovering, PollSucceeds
<1>2. /\ uid_remap' = [u \in Uid |-> IF u \in moved THEN remap[u] ELSE uid_remap[u]]
      /\ confirmed_orphan_uids' = confirmed_orphan_uids \ moved
      /\ seen_uids' = (seen_uids \ moved) \union {remap[u] : u \in moved}
                        \union Listed(data) \union Listed(listing)
  BY <1>1 DEF ApplyUidRemap, SeenRemapped, Redirected
<1>3. /\ \A u \in moved :
           /\ u \in Removed(listing) /\ remap[u] \in Added(listing)
           /\ uid_names[u] \in Name /\ listing[remap[u]] = uid_names[u]
      /\ \A u, v \in moved : remap[u] = remap[v] => u = v
  BY <1>1, ProposedRemap DEF Inv, TypeOK
<1> HIDE DEF remap
<1>4. \A u \in moved : uid_remap'[u] = remap[u]
  BY <1>2
<1> QED
  BY <1>1, <1>2, <1>3, <1>4 DEF Removed, Added, remap

\* A recovering coordinator confirms no removal.
THEOREM RecoveryConfirmsNothingHolds == Spec => RecoveryConfirmsNothing
<1>1. Inv /\ [Next]_vars
        => [recovering => confirmed_orphan_uids' \subseteq confirmed_orphan_uids]_vars
  <2> SUFFICES ASSUME Inv, [Next]_vars, recovering
               PROVE  confirmed_orphan_uids' \subseteq confirmed_orphan_uids
    OBVIOUS
  <2> QED
    BY StepKinds, TrackMissingType, PollRecoveringRemaps
<1> QED
  BY <1>1, InvHolds, PTL DEF Spec, RecoveryConfirmsNothing

\* During recovery an empty list replaces a non-empty one only after the cap.
THEOREM LastListingKeptHolds == Spec => LastListingKept
<1>1. Inv /\ [Next]_vars
        => [recovering /\ Listed(data) # {} /\ Listed(data') = {}
              => recovery_age >= RecoveryMax]_vars
  <2> SUFFICES ASSUME Inv, [Next]_vars,
                      recovering, Listed(data) # {}, Listed(data') = {}
               PROVE  recovery_age >= RecoveryMax
    OBVIOUS
  <2>1. ASSUME NEW moved \in SUBSET Uid, PollRecovering(moved)
        PROVE  FALSE
    BY <2>1 DEF PollRecovering, EmptyWhileRecovering, PollSucceeds
  <2>2. PollEmptyAccepted
    BY <2>1, StepKinds
  <2> QED
    BY <2>2 DEF PollEmptyAccepted, RecoveryMaxElapsed
<1> QED
  BY <1>1, InvHolds, PTL DEF Spec, LastListingKept

\* A remap leads to a new, listed UID of the same display name.
THEOREM RemapKeepsNameHolds == Spec => RemapKeepsName
<1> DEFINE Kept(u) ==
             uid_remap'[u] # uid_remap[u] =>
               /\ u \in seen_uids \ Listed(data')
               /\ uid_remap'[u] \in Listed(data') \ seen_uids
               /\ uid_names[u] \in Name /\ data'[uid_remap'[u]] = uid_names[u]
<1>1. Inv /\ [Next]_vars => [\A u \in Uid : Kept(u)]_vars
  <2> SUFFICES ASSUME Inv, [Next]_vars, NEW u \in Uid, uid_remap'[u] # uid_remap[u]
               PROVE  Kept(u)
    OBVIOUS
  <2>1. PICK moved \in SUBSET Uid : PollRecovering(moved)
    BY StepKinds
  <2> QED
    BY <2>1, PollRecoveringRemaps
<1> QED
  BY <1>1, InvHolds, PTL DEF Spec, RemapKeepsName

\* No two UIDs remapped in one poll land on the same connection.
THEOREM RemapKeepsApartHolds == Spec => RemapKeepsApart
<1> DEFINE Apart(u, v) ==
             (u # v /\ uid_remap'[u] # uid_remap[u] /\ uid_remap'[v] # uid_remap[v])
               => uid_remap'[u] # uid_remap'[v]
<1>1. Inv /\ [Next]_vars => [\A u, v \in Uid : Apart(u, v)]_vars
  <2> SUFFICES ASSUME Inv, [Next]_vars, NEW u \in Uid, NEW v \in Uid, u # v,
                      uid_remap'[u] # uid_remap[u], uid_remap'[v] # uid_remap[v]
               PROVE  uid_remap'[u] # uid_remap'[v]
    OBVIOUS
  <2>1. PICK moved \in SUBSET Uid : PollRecovering(moved)
    BY StepKinds
  <2> QED
    BY <2>1, PollRecoveringRemaps
<1> QED
  BY <1>1, InvHolds, PTL DEF Spec, RemapKeepsApart

\* A UID is forgotten only in favour of the one it was remapped to.
THEOREM SeenUntilRemappedHolds == Spec => SeenUntilRemapped
<1> DEFINE Kept(u) == uid_remap'[u] # u /\ uid_remap'[u] \in seen_uids'
<1>1. Inv /\ [Next]_vars => [\A u \in seen_uids \ seen_uids' : Kept(u)]_vars
  <2> SUFFICES ASSUME Inv, [Next]_vars, NEW u \in seen_uids \ seen_uids'
               PROVE  Kept(u)
    OBVIOUS
  <2>1. PICK moved \in SUBSET Uid : PollRecovering(moved)
    BY StepKinds DEF TrackMissing, SeenWith
  <2>2. u \in moved
    BY <2>1, PollRecoveringRemaps
  <2>3. u \in seen_uids /\ uid_remap'[u] \notin seen_uids /\ uid_remap'[u] \in seen_uids'
    BY <2>1, <2>2, PollRecoveringRemaps
  <2> QED
    BY <2>3
<1> QED
  BY <1>1, InvHolds, PTL DEF Spec, SeenUntilRemapped
==============================================================================
