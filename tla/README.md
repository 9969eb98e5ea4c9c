# Fritz!Box VPN integration: TLA+ verification

TLA+ models of the Home Assistant integration `fritzbox_vpn`
(`custom_components/fritzbox_vpn`) with the TLC runs that check them on small
instances and the TLAPS proofs that hold for every instance. The subject is what
the integration is hardest to get right about: a Fritz!Box that reboots, is
unreachable, answers with an empty or incomplete VPN list, and may give its
WireGuard connections other UIDs afterwards, while rows of the entity registry,
devices, live entities and the user's automations must keep pointing at the same
VPN; and the two clients that talk to the box, whose calls share a session while it
does all that.

    tlc -workers 2 -config MCCoordinatorHistory.cfg MCCoordinatorHistory
    tlapm CoordinatorProofs.tla

`PROJECT.json` lists components, runs, mutants, hazards and theorems, and maps
every definition to the lines it translates.

## 1. Inventory

| Component | State | Operations | Must be right |
| --- | --- | --- | --- |
| VPN identity (`uid_identity.py`) | none | `name_bijection_uid_remap` | a UID is renamed only when display names leave no choice |
| Coordinator (`coordinator.py`, `const.py`) | last listing, seen UIDs, miss counts, confirmed orphans, name cache, UID remap, recovery deadlines and stable polls, reauth flag | `_async_update_data`, `toggle_vpn`, `resolve_connection_uid` | no removal confirmed without evidence; recovery ends, and not early; remap keeps names; one reauth flow per cycle |
| Registries (`entity_registry.py`) | HA's entity and device registries | `remap_connection_uids`, orphan listing and removal, entity-ID repairs and merges | unique_ids stay unique; a UID is renamed everywhere or nowhere; no row of an existing VPN is removed |
| Runtime data (`models.py`) | `known_uids_*`, locks | tracking, clear, remap | known UIDs are the live ones |
| Entities, platforms (`entity.py`, `switch.py`, `sensor.py`, `binary_sensor.py`) | live entities and the UID each was made with | setup, `_add_new_entities`, availability, toggle | every listed VPN has one available entity per platform, showing that VPN |
| Lifecycle, services (`__init__.py`, `services.yaml`) | loaded entries, registered services | setup, unload, reload, the two services | consistent registries through reloads and cleanups |
| `fritzboxvpn` session (`session.py`) | SID, protocol, listing mode | login, list, toggle, invalidate | answers are about the box as it was; one switch per toggle; calls end; a working box is never reported as an outage |
| FritzConnection adapter (`fritzconnection_session.py`) | client (`_fc`, `_fwg`), mode, `_use_tls` | the same, in executor threads | the same, with two switches at most |
| Parsing (`parsing.py`) | none | both listing formats | a listing has the VPNs of the box, whatever the firmware writes |
| Flows, discovery, diagnostics | none of their own | conversions, forms | pure or user-driven |

How they interact: Home Assistant's `DataUpdateCoordinator` calls
`_async_update_data` on a schedule (after `retry_after` when a poll failed) and on
request; that fetches through a session, decides, and during recovery renames rows
and devices through `remap_connection_uids`, which also rewrites `known_uids` in
place. Then the listeners run: each platform adds entities for UIDs it does not know
yet, and live entities resolve the UID they were made with through `_uid_remap`. The
cleanup service reads `coordinator.data`, removes rows and devices and reloads the
entry, which throws the coordinator away and keeps the registries. The repair of entity
IDs renames rows and removes orphans, at setup and on demand, and reloads too. Every
unload asks whether it was the last, and takes the services away if so.

Hard behaviours: outages, refusals, empty and partial lists in any order with the
timers and counters; renumbering during an outage; a registry that applies a part of
a remap; reloads, repairs and cleanups in the middle of it; and, in the sessions, calls
that interleave over shared state while SIDs expire, answers get lost and the firmware
changes the format of its listing. `PROJECT.json` lists each as a hazard at its line.

## 2. Modules

| Module | Models |
| --- | --- |
| `UidIdentity` | listings, display names and the 1:1 remap, as operators |
| `Coordinator` (extends it) | `FritzBoxVPNCoordinator`, one action per outcome of a poll |
| `CoordinatorHistory` (extends it) | the same with history variables that record what really happened |
| `EntityRegistry` (extends `UidIdentity`) | what the integration does to the registries, as operators |
| `RegistryRemap` (extends it) | `remap_connection_uids` as the loop it is |
| `Integration` (extends `Coordinator`, `EntityRegistry`) | a config entry as a whole: coordinator, registries, platforms, setup, unload, cleanup, box and user |
| `EntityIdRepairs` (extends `EntityRegistry`) | entity IDs, the three repairs and the removal of shadows, as operators |
| `EntityIds` (extends it) | the entity IDs of an entry: migration, setup, unload, repair, cleanup, the platforms, box and user |
| `Services` | the services across entries that come, go and reload |
| `VpnClient` | the abstract specification of a client of the box |
| `Session` | `FritzBoxVPNSession`, shown to implement `VpnClient` |
| `Adapter` | `FritzConnectionVPNSession`, shown to implement `VpnClient` |
| `Parsing` | the two listing formats, as operators |
| `*Proofs` | the proofs about the module they are named after |
| `MCOperators`, `MCCoordinatorHistory`, `MCIntegration`, `MCEntityIds` | constants and inputs for TLC |

### Coordinator

A listing is a function from UIDs to display names (`NoName`, `BlankName` for a name of blanks,
which the cache takes over but no remap goes by, `Absent`). The
variables carry the names of the attributes they stand for. A poll is one step:
the fetch is the only await of `_async_update_data`, it comes first, nothing read
before it is used after it, and Home Assistant does not run two refreshes of one
coordinator at a time. `_async_update_data` splits by outcome:

| Action | Code |
| --- | --- |
| `PollOutage` | transport error, timeout, unusable answer: `_arm_recovery`, `UpdateFailed` |
| `PollDenied`, `ToggleDenied` | error text that looks like refused credentials: `_schedule_reauth` |
| `PollEmptyRefused` | empty list while recovering, cap not reached: counts as one more failure |
| `PollEmptyAccepted` | the same with the cap reached: recovery ends, misses are counted |
| `PollRecovering` | list accepted while recovering: remap, no misses counted, stable polls counted |
| `PollNormal` | list accepted otherwise: misses counted |
| `Tick`, `BoxChanges` | time passes; the box changes what it answers |

Monotonic deadlines become the time left (`window_left`) and the time since
(`recovery_age`); both stop where the code can no longer tell them apart. Miss
counts stop at `OrphanConfirmPolls`, where the code only compares with `>=`. Polls
may come at any moment, as toggles and `update_entity` also ask for one; so
nothing rests on `RetryAfter` being kept. `PollRecovering(moved)` leaves open which
part of the proposed remap the registry applies; `Integration` fixes it.

### Integration

A VPN is identified by its display name, unique on the box and never changed, which
is the case the documentation makes promises about. A row remembers the VPN it was
made for, so that a duplicate, a lost row, or an entity that shows another VPN can be
told. `AddEntities` is `setup_vpn_platform` for all platforms at once. The task that
adds entities after a poll is joined with the poll: its section under the lock does
not await, and another poll has a request to wait for before it changes `data`.
Home Assistant's part (a unique_id gives an entity its old row, an entity whose row
is live is dropped) is external.

`Hazards` says how harsh the box is. `{}` is the box the README describes: lists
complete, an empty list shorter than the cap, one renumbering per load and none while
a deleted VPN still has rows, no UID handed out twice, and every renumbering noticed as an
outage by the loaded entry, which is not reloaded before it has remapped. Each member lifts
one of these: `partial`, `empty`, `again`, `deleted`, `reuse`, `unseen`. They restrict box and
user only: polls, setup and the cleanup service have the guards of the code and no others, so
the service runs on any loaded entry, whatever its last list was.

### EntityIdRepairs and EntityIds

An entity ID is a sequence of words, so that `switch.office_2` has a base and a number
to take off it, and the name "office 2" makes an ID that looks numbered. `Integration` has
no entity IDs, `EntityIds` has no recovery: it takes every change of the list for one that
was not remapped, which makes orphans and numbers frequent. Each action is a piece of
code without an await in it: `Migrate` (`async_migrate_entry`), `Setup` with its removal of
shadows, repairs, new entities and removal of empty devices, `Repair` and `Cleanup` up to
the reload they start, `ListChanges` with the entities a listener adds. A repair plans all
its renamings before the first one; where two rows want one ID, which of them gets it
is left open (`LegacyWinners`). What Home Assistant does is external: a row keeps the ID it
has, a new one gets the first of its ID and that ID with a number that nobody has, out of the
finitely many `Numerals`; where those do not suffice, the model has no such step.
`WithEntities` says what comes of that for all new rows, in whatever order they are added,
and enumerates no order. `wanted` records who has asked for which ID: the first entity of the
row, then the user or a repair.

### Services

States of entries and the flag of the domain, with the two awaits that let other code in:
the first refresh of a setup and the unloading of platforms. `async_setup` runs with the
first entry only, as Home Assistant does it.

### Sessions

`VpnClient` is what the coordinator and the switches rely on: a listing is one the box had
while the call ran, "true" means that the VPN was as wanted at some moment of the call,
a call switches the VPN only as asked, at most `MaxSwitches` times, and never after it
returned. An answer that says "failed" says nothing of the VPN.

`Session` splits `FritzBoxVPNSession` at its awaits: an action handles one answer of the box
and runs on to the next request, through login page (HTTPS, then HTTP), PBKDF2 or MD5,
listing by the mode that worked last and then the others, PUT, delay and verification.
What the box may answer is external and follows from its state: off, booting, up; with
HTTPS or without; one of two firmwares; password as configured or not. A SID is good,
stale or none. `Fail` joins the end of a poll with what the coordinator does next without an
await (it invalidates the session unless the credentials were refused).

`Adapter` splits `FritzConnectionVPNSession` more finely: its calls run in executor threads,
so an action reaches from one access of the shared client, or one request, to the next.
It may switch the VPN twice: a toggle whose answer was lost is repeated over HTTP.

Both have history variables: what states of the VPN a call has seen, how often it switched,
and whether it was calm, that is undisturbed by box, user and the calls it overlaps.
`WorkingCallsSucceed` is about calm calls. On a box without HTTPS, calls that overlap can
disturb each other, because each resets the protocol they share; `raced` (Session) and
`Settled` (Adapter) exclude that, and TLC finds the failing call without them. Facts the
models bring out: only the login page has a fallback to HTTP, a listing has none; a failed
toggle leaves the session as it is, a failed poll resets it; after a fallback the adapter
stays on HTTP until a call fails; MD5 login does not wait for `BlockTime`.

### Parsing

`normalize_box_connections`, `extract_box_connections_from_data` and their REST counterparts,
down to which UIDs a response lists and with which flags. `MCOperators` writes a set of
VPNs down in every style the parsers know and compares the listing with the set.

## 3. Runs

| Run | Instance | Shows |
| --- | --- | --- |
| `operators` | 4 UIDs, 3 names; 3 VPNs in 3 states, every style | a mapping is returned iff exactly one pairing by name exists; a listing is the box's |
| `coordinator` | 3 UIDs of 2 VPNs, 5 listings, arbitrary box; window 2 ticks, cap 4 | recovery, orphan confirmation, remap and reauthentication against their history |
| `registry_remap` | 4 UIDs, 2 platforms, all registries and remaps, all orders | the registry never refuses half way; loop and operators agree |
| `integration` | 5 UIDs, 3 VPNs, 2 platforms, `Hazards = {}`, 2 renumberings | no duplicates; entities available and showing their own VPN; rows of existing VPNs lost only in a cleanup of an entry that has seen none |
| `integration_all` | 3 UIDs, 2 VPNs, all hazards | registries, devices, live entities and `known_uids` agree whatever the box does |
| `integration_live` | 3 UIDs, 2 VPNs, long empty lists | VPNs come back after a renumbering without a reload; recovery ends; every UID ever seen is settled |
| `session` | a poll and a toggle, 1 disturbance | contract, success of undisturbed calls, termination |
| `adapter` | a poll and a toggle, 1 disturbance | the same |
| `entity_ids` | 3 UIDs, 2 names, switches, 3 changes | IDs are unique; listed rows survive; setup moves no ID that was asked for; a repair merges; repairs end |
| `integration_partial`, `entity_ids_merges`, `services` | one case each | the code does other than the documentation says, see below |

Bounds. Every decision of the coordinator compares a set of UIDs with another one, a name
with another one, or a counter with a constant, so the instances have one element
more than the decision needs: two numbers for one VPN and a second VPN beside it (to
make "all names match" and "some do" differ), a third one where deletion and creation
must meet a renumbering. `OrphanConfirmPolls` and `StablePolls` have the code's values
(3 and 2) in `coordinator` and `integration`; windows are cut to one to four ticks,
which keeps "before", "at" and "after" apart, as is `MaxRenumberings = 2`. In the sessions
two calls are what it takes to take shared state away from each other. A disturbance is the
cause of any number of failures: a reboot lets the box refuse, drop and misanswer
requests until it is up, and may change its firmware; so one of them already meets every
handler, and a long one every retry. (`Adapter` was also checked with `MaxEvents = 2`, which
takes longer than a run should.) Three UIDs on two names give three rows that want
one ID, the least with which a repair makes room for another.
Deadlock checking is off in `operators` and `registry_remap`, which model one call, and
in `services`. Symmetry is used only in safety runs; liveness runs have none.

Fairness. `FairISpec` has weak fairness of `ITick` (the clock), `IPoll` and `ISetup`. Home
Assistant schedules the next refresh of a coordinator that has listeners after each one,
failed ones included, and retries a setup that was not ready. `FairSpec` of the sessions has
weak fairness of the steps of each call: every request has a timeout, and the event loop
and the executor run what is ready. Nothing is assumed of the box or the user: the
liveness properties of `Integration` say what happens if the box stays up, `CallsEnd` holds
whatever the box does.

Each property of a passing run has a mutant: an operator that changes one definition
as a plausible bug would (a window added instead of replaced, miss counts kept over an
outage, a list counted as stable too early, the entities not told of a remap, a toggle
repeated whatever the answer was, a retry that is not counted, a client used without a
look at it), under which TLC finds the property violated.

### Where code and documentation differ

* `integration_partial`: README item 2 of "Fritz!Box reboot" says an incomplete list
  during recovery makes no duplicates. A list with some of the renumbered VPNs is
  accepted; its remap is refused, but its UIDs enter `_seen_uids` and get new entities,
  and when the full list comes they are not new any more. The old rows stay beside
  the new ones.
* `entity_ids_merges`: release notes v1.2.4b4 say that orphans and numbered live entities are
  merged on setup. Setup calls the merge, but it looks for the current UIDs in the runtime
  data of a *loaded* entry, and the entry is loaded only when setup has ended.
* `services`: a test says the services are registered on first setup and removed on last
  unload. A reload of the only loaded entry removes them too, and `async_setup`, which
  alone registers them, does not run again.

More limits show when the constants are changed:

* `Hazards = {"empty"}` (`NoDuplicateRows`): README item 5 says a multi-hour power-off is
  fine. The cap counts from the first failed poll, so after such an outage the first empty
  list ends recovery, and the renumbered list after it is not remapped.
* `Hazards = {"again", "reuse"}` (`EntityShowsOwnVpn`): when a reboot gives VPN A the UID VPN B
  had, that UID is neither gone nor new; A's switch stays unavailable and B's switch,
  still available, shows and toggles A. A UID that returns after it was remapped is led away
  by the stale entry in `_uid_remap` (`ListedEntityAvailable`).
* `RowsLostOnlyIfNoneSeen` without its exception, the disjunct with `seen_uids = {}`, at
  `Hazards = {}`: `services.yaml` line 5 says the service removes entries of VPNs "that no longer
  exist on the Fritz!Box". When a recovering box shows an empty list and the entry is reloaded,
  the new coordinator is not recovering and accepts the list; the service, which takes an empty
  list for "no VPN exists", then removes the rows of all existing VPNs.
* `Hazards = {"partial"}` (`RowsLostOnlyIfNoneSeen`): the service also removes whatever an incomplete
  list lacks that was accepted last, during recovery too.
* `Hazards = {"again"}` or `{"deleted"}` (`NoDuplicateRows`): a second renumbering in one load
  is refused because the names of the replaced UIDs are gone while a poll has put the UIDs
  back into `_seen_uids`; a VPN deleted earlier in the load counts as removed for ever and
  spoils every later remap.
* `Name <- NumberedNames` in `MCEntityIds.cfg` (`SetupKeepsIds`): the switch of a VPN called
  "office 2" is `switch.office_2`; the next setup takes it for a duplicate and makes
  it `switch.office`, the repair by name moves it back, and so on.

## 4. Proofs

Coordinator. The theorems hold for every set of UIDs, names and listings and all values of
the time and poll constants that satisfy the assumptions `NameAssumption`,
`AnswersAssumption`, `TimesAssumption` and `PollsAssumption`: factors and intervals
are positive, and `OrphanConfirmPolls` is at least 2. The last one is
needed: with 1, a single empty list at the cap would confirm removals in the step
that ends recovery, against `RecoveryConfirmsNothing`.

* `CoordinatorProofs`. An accepted remap is a bijection that keeps names, and the only one.
  The inductive invariant `Inv` is `TypeOK`, no misses while
  recovering, listed UIDs are seen, and more: the timers are idle outside recovery.
  `NoMissesWhileRecovering` alone is not enough for the action properties, because a
  step that ends recovery counts misses: from zero counts it reaches one, below
  `OrphanConfirmPolls`. `StepInv` has one step per action; `ProposedRemap` says what the
  remap may propose and rests on the pairing lemma, and the action properties of the
  remap follow from it and from `StepKinds`, which says which steps touch what.
* `CoordinatorHistoryProofs`. `HInv` links code state and history: the window left is
  the window minus the time since the last outage, a count never exceeds the run of lists
  that missed the UID, stable polls never exceed the run of non-empty lists, and a reauth
  was started only with the flag set. The README's reasons for ending recovery and
  for confirming a removal follow.
* `MCOperatorsProofs`. `RemapIffUnambiguous` for any finite set of UIDs: if two old UIDs had one
  name, exchanging their new ones would give a second pairing, so one pairing tells all names
  apart, and nothing that could be followed is given up. `ListingIsTheBoxs` for any finite number
  of VPNs: each is one item, at a place of its own (`ItemsAre`), what else is listed yields no UID,
  and so the last item of a UID is its only one (`NormalizedIs`). Assumed is that the mark for a
  missing key is none of the values that a box sends (`MissingAssumption`).
* `RegistryRemapProofs`. The loop never meets a unique_id in use, ends with
  what the operators compute, and moves each UID whole or not at all, for all registries,
  mappings and orders. The plan looks for conflicts before anything is renamed, so the
  invariant has to say where every row is by now: the registry is the one before with the
  rows of the UIDs done moved, and some of the current one. A row in the way would be one
  that was there before, which the plan excludes, or one renamed since, and two UIDs are
  never renamed to the same one. Hence also `NothingLost`: moving rows and devices is one to one, so
  their numbers stay, for registries that are finite. `MarksAssumption` keeps the marks for "not planned" and
  "idle" apart from sets of UIDs and from the UID at work.
* `IntegrationProofs`. A config entry as a whole, with as many UIDs, VPNs, platforms and
  renumberings as you like. What holds depends on the box, so there are four invariants, each
  resting on those before it:
  * `IInv`, on any box: `Inv` of the coordinator, known UIDs are the live rows, and rows,
    devices and entities agree. A remap keeps that because its targets were never seen before
    (`ProposedTargetsFresh`), so they have neither row nor entity, and renaming the rows that have
    no conflict keeps unique_ids unique (`RemapKeepsKeysUnique`) and takes rows and device of a UID
    along or leaves both (`RemapAllOrNothing`); hence `RegistryConsistent` and `KnownUidsAreLive`.
  * `OwnerInv`, unless UIDs are handed out again (`reuse`): every UID has an owner, the VPN it
    was handed out for, which rows, names, lists and remaps agree on; an age, by which remaps
    lead from an older UID to a later one and a listed UID is the latest of its VPN; and an
    end, where the remaps lead. `WalkEnds` shows that the walk of `resolve_connection_uid` gets
    there, over any number of remaps: of the walks that do not, the one that has come furthest
    would go on to another. `WalkExists` shows that the recursive function is one.
    Hence `ListedEntityAvailable` and `EntityShowsOwnVpn`: also with incomplete or
    empty lists, second renumberings, deletions and outages that nobody saw.
  * `KnownInv`, unless also `partial` or `empty`: the box shows all its VPNs or none, and the last
    list of an entry that has seen a VPN has every VPN that has rows, under the UID it has or
    had. The service has no guard of its own; what spares these rows is that no recovering
    coordinator which has seen a VPN accepts an empty list before the cap. An entry that has seen
    none has no such list: hence the exception in `RowsLostOnlyIfNoneSeen`, which otherwise holds
    also with second renumberings, deletions and reloads that nobody notices.
  * `IdentityInv`, with `Hazards = {}`: rows and names go by one numbering of the VPNs. That is the
    one of the box or, between a renumbering and the remap, the one before (`InFlight`);
    then all that was seen was on the box just before and every row is listed, which leaves the
    service nothing to remove, so the remap of the full list is
    accepted, applied without conflict and moves every row (`InFlightRemap`); and at any other
    time nothing is proposed (`SettledRemap`). Hence `NoDuplicateRows`. TLC finds duplicates
    with each single hazard, so the premise cannot be weaker.

  Apart from those of the coordinator the assumptions are that there is a platform, that the
  number of renumberings is bounded (by any number), and that `Absent` is not a UID.
* `SessionProofs`. For any number of toggles beside the poll, and any number of disturbances,
  `Session` implements `VpnClient` with one switch per call. The invariant `IInv` says where a call may
  have switched: only past its PUT, and from there no path leads back to one, though a
  403 starts the toggle again (the box did not take that PUT). Code between two requests is a
  function of session and call, so its lemmas (`GetSessionGoesOn`, `RaiseEither`,
  `ListingAbsentEither`) say of each function once that it goes on to the next request or gives up;
  `CallMovesOn` sums the actions up: a step either goes on or ends with an answer the client
  may give. Invariant and refinement both follow from it, `PutTaken` aside. The run has one
  toggle and one disturbance; the theorem has no bound. `WorkingCallsSucceed` rests on a
  second invariant, `CInv`. On a box without HTTPS whose calls never overlapped, every request
  after the login page goes over HTTP; and the only invalid SID that a calm call meets is
  the one it found, so it gives up for nothing and spends its one retry on that SID.
* `AdapterProofs`. For any number of callers, wishes and disturbances `Adapter` implements
  `VpnClient` with two switches per call. `KeepsClientContract` is not inductive by itself: that a
  call switches at most twice depends on where it is. `IInv` says so: no switch before the
  first request is answered, one at most after a first attempt, two after the second, and
  a call that has its answer has seen the VPN as wanted. Every step keeps it (one lemma
  per action, over lemmas for "goes on", "fails" and "ends"); then `Begin` maps to
  `Start`, `Switched` to `Switch`, an ending to `Return`, `UserChanges` to `Interfere`, and every
  other step to a stutter. `WorkingCallsSucceed` rests on a second invariant, `CInv`: calls that
  run together are all calm or none is; what a calm call relies on is there (`Calm`), since
  the one thread that takes the client away, on its way from HTTPS to HTTP, is alone
  (`Probing`, `OthersStayFit`); and a client that is built for HTTP stays so.
* `EntityIdsProofs`. First each repair by itself, whatever rows there are: it leaves every entity
  ID with one row and none on a foreign ID; the suffix repair removes no row, and a merge
  none of a listed VPN. Each plan asks for an ID once, and only for one that is free or that
  the orphan it removes has; that the lowest of some numbers exists rests on the numbers
  being those of `Numerals`. Then the entry as a whole, for any platforms, UIDs, names and
  foreign IDs that satisfy `IdsAssumption` (names and IDs are sequences of words, a name has
  one at least, and the platforms are among those that have a suffix), and any number of
  changes:
  * `EInv`: the rows and devices have their types, and are in order (`Registries`). Every repair
    carries each row it keeps to one of the same key (`Carries`), and new entities come with
    a device and an ID that nobody has (`EntitiesAdded`). Hence `TypeOK` and `ListedRowsKept`.
  * `SInv`, where no name ends in a number (`NamesUnnumbered`; section 3 has what happens
    otherwise): every row has the ID it was asked for, or that ID with a number (`Served`).
    Half way through a repair that does not hold, as a row that is moved has yet to be
    recorded as asked for; what holds there is that a numbered row is one of before, not
    moved (`Settled`), for an ID without its number has no number. Hence `SetupKeepsIds`, since
    a setup, which does not count as loaded, merges nothing and only takes numbers off; and
    `RepairMerges`: a pair found after a repair was one that its merge had found. `Traced` says
    of each row what the three parts of a repair have made of it.
  * `RInv`, under the same premise and for finitely many UIDs: `RepairsEnd`. A repair that renames
    something by name leaves fewer entities that are not on the ID of their name (`Misplaced`),
    since what merges and numbers move is numbered, and so misplaced already
    (`FewerMisplaced`). After any repair each base is in use (`BasesTaken`). When no row can
    move to the ID of its name, none ever will (`StaysStuck`): an ID without a number stays in
    use (`IdsStay`). Then nothing but one merge is left, which leaves nothing (`MergedOnce`).
    The bound counts entities and not VPNs, since they may wait for each other's IDs across
    platforms: with VPNs "a vpn" and "a", `sensor.a_vpn_uid` is the ID of the UID entity of the
    first and of the VPN UID entity of the second.

Only model-checked: liveness (`RecoveryEndsIfSeen`, `SeenUidsSettle`, `VpnsComeBack`,
`CallsEnd`), which is out of this prover's reach.

## 5. Not modelled

Configuration flows (forms and validation, one user step at a time; what they start in the
running integration is modelled where it lands), discovery and diagnostics; the computation
of a response to a challenge, which is right or wrong; the readers of the login XML, which
find a challenge, a SID, a BlockTime or nothing; `async_close` at unload, after which no call
begins; a setup whose platforms fail; the optional `on_orphaned_removed` callback, which
nothing passes; the guard that keeps reauthentication from starting while the entry is
not loaded; attributes and device information; and the delay with which Home
Assistant writes registries to disk, whose effect is that of the hazard `unseen`.

## 6. Plan

1. The configuration flows as far as they change a running entry: reauthentication and
   reconfiguration beside options, each a form shown, an await and an update. To check: the
   credentials of an entry have been accepted by the box as a whole, never a mixture of two
   forms; and which update of two wins.
