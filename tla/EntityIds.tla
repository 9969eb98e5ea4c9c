------------------------------ MODULE EntityIds ------------------------------
(***************************************************************************)
(* The entity IDs of one config entry: who gives them, who changes them,   *)
(* and what setup, migration, the repair and the cleanup make of them.     *)
(*                                                                         *)
(* Every change of the list is taken for one that recovery did not remap   *)
(* (Integration shows when that happens), so that orphaned rows and        *)
(* numbered IDs come up.  Each action is one piece of code between awaits. *)
(***************************************************************************)
EXTENDS EntityIdRepairs

CONSTANTS
  Word,       \* that IDs and names are made of
  Platform,   \* entities made for a VPN, as suffixes of their unique_ids
  Foreign,    \* what may be taken by other integrations: a set of sets of IDs
  MaxChanges  \* bound: changes by the box and the user

Device == [name : Name, by_user : Name \union {NoName}]

\* A name has one word at least.
ASSUME IdsAssumption ==
  /\ Name \subseteq Seq(Word) \ {<<>>}
  /\ Platform \subseteq DOMAIN Suffix
  /\ \A p \in Platform : Domain[p] \in Word /\ Suffix[p] \in Seq(Word)
  /\ "vpn" \in Word /\ \A n \in DOMAIN Numerals : Numerals[n] \in Word
  /\ NoDevice \notin Device

VARIABLES
  rows,     \* registry rows of the entry, each with the ID it was asked for
  devices,  \* device registry
  foreign,  \* IDs of other integrations
  data,     \* the VPNs on the box, as coordinator.data has them when loaded
  known,    \* UIDs that have got their entities since setup
  loaded,   \* state of the entry
  version,  \* of the entry
  changes,  \* so far, by the box and the user
  repairs   \* history: repairs since anything else has changed the registries

vars == <<rows, devices, foreign, data, known, loaded, version, changes, repairs>>

-----------------------------------------------------------------------------

\* resolve_current_uids: of an entry that is not loaded nothing is known, and
\* nothing is merged.
CurrentUids == IF loaded THEN Listed(data) ELSE {}

\* A device registered with the name its VPN has
Registered(old, uids, list) ==
  [u \in Uid |->
     IF u \notin uids THEN old[u]
     ELSE [name |-> list[u], by_user |-> IF old[u] = NoDevice THEN NoName ELSE old[u].by_user]]

NewKeys(some, uids) ==
  {key \in [platform : Platform, uid : uids] : ~HasKey(some, key.platform, key.uid)}

NewRow(key, n, ofDevices) ==
  LET wanted == ExpectedOf(key, ofDevices)
  IN [platform |-> key.platform, uid |-> key.uid, wanted |-> wanted, id |-> Candidate(wanted, n)]

\* async_add_entities, whoever comes first.  In the end each new row has the first ID
\* that no other one has, and conversely: a row that is in the way of another has a
\* shorter ID than it or a lower number, so none need wait for each other.
\* Where the Numerals do not suffice, the model ends.
WithEntities(some, uids, ofDevices) ==
  LET keys == NewKeys(some, uids)
      New(numbers, which) == {NewRow(key, numbers[key], ofDevices) : key \in which}
      Fits(numbers) == \A key \in keys :
        IsFirstFree(ExpectedOf(key, ofDevices), numbers[key],
                    foreign \union Ids(some \union New(numbers, keys \ {key})))
  IN {some \union New(numbers, keys) :
        numbers \in {some_numbers \in [keys -> 0..Len(Numerals)] : Fits(some_numbers)}}

WithoutEmpty(some, ofDevices) ==
  [u \in Uid |-> IF RowsOf(some, u) = {} THEN NoDevice ELSE ofDevices[u]]

\* Rows a repair has moved have the ID that was asked for.
AsAsked(some) == {IF r \in rows THEN r ELSE [r EXCEPT !.wanted = r.id] : r \in some}

-----------------------------------------------------------------------------
(* The code                                                                *)

\* async_migrate_entry, from version 1
Migrate ==
  /\ ~loaded /\ version = 1
  /\ version' = 2
  /\ \E winners \in LegacyWinners(rows, devices, foreign) :
       rows' = AsAsked(LegacyRepaired(rows, devices, winners))
  /\ UNCHANGED <<devices, foreign, data, known, loaded, changes, repairs>>

\* Mutant: setup follows the names of the devices, as before version 1.2.2b7.
SetupFollowsNames(some) ==
  SuffixRepaired(LegacyRepaired(some, devices, LegacyPlan(some, devices, foreign)), foreign)

\* What setup repairs before the platforms add their entities
RepairedAtSetup(some) == SuffixRepaired(Merged(some, CurrentUids), foreign)

\* async_setup_entry, when the box answers
Setup ==
  /\ ~loaded /\ version = 2
  /\ loaded' = TRUE
  /\ known' = Listed(data)
  /\ LET valid == IF Listed(data) = {} THEN rows ELSE WithoutShadows(rows)
         kept == DevicesAfterMerge(valid, devices, CurrentUids)
         registered == Registered(kept, Listed(data), data)
     IN /\ rows' \in WithEntities(RepairedAtSetup(valid), Listed(data), registered)
        /\ devices' = WithoutEmpty(rows', registered)
  /\ repairs' = IF rows' = rows /\ devices' = devices THEN repairs ELSE 0
  /\ UNCHANGED <<foreign, data, version, changes>>

Unload ==
  /\ loaded
  /\ loaded' = FALSE
  /\ known' = {}
  /\ UNCHANGED <<rows, devices, foreign, data, version, changes, repairs>>

\* Reload after a registry change, which its setup ends
Reloading == loaded' = FALSE /\ known' = {} /\ UNCHANGED <<foreign, data, version, changes>>

\* repair_entity_ids, by the service or from the options menu
Repair ==
  /\ version = 2
  /\ \E winners \in LegacyWinners(rows, devices, foreign) :
       LET named == LegacyRepaired(rows, devices, winners)
           merged == Merged(named, CurrentUids)
       IN /\ winners \union MergedOnto(named, CurrentUids) \union SuffixPlan(merged, foreign) # {}
          /\ rows' = AsAsked(SuffixRepaired(merged, foreign))
          /\ devices' = DevicesAfterMerge(named, devices, CurrentUids)
  /\ repairs' = repairs + 1
  /\ Reloading

\* remove_orphaned_entities, by the service or from the options menu
Cleanup ==
  /\ loaded
  /\ LET orphans == Orphaned(WithoutShadows(rows), Listed(data)) IN
       /\ orphans # {}
       /\ rows' = rows \ orphans
       /\ devices' = [u \in Uid |-> IF u \in UidsOf(orphans) THEN NoDevice ELSE devices[u]]
  /\ repairs' = 0
  /\ Reloading

-----------------------------------------------------------------------------
(* The box and the user                                                    *)

Changes == changes < MaxChanges /\ changes' = changes + 1 /\ repairs' = 0

\* VPNs are created, deleted, renamed and renumbered on the box, or missing from an
\* incomplete list.  A loaded entry adds entities for UIDs it has not had.
ListChanges ==
  /\ Changes
  /\ data' \in [Uid -> Name \union {Absent}] \ {data}
  /\ LET new == IF loaded THEN Listed(data') \ known ELSE {} IN
       /\ devices' = Registered(devices, new, data')
       /\ rows' \in WithEntities(rows, new, devices')
       /\ known' = known \union new
  /\ UNCHANGED <<foreign, loaded, version>>

UserNamesDevice ==
  /\ Changes
  /\ \E u \in Uid, n \in Name \union {NoName} :
       /\ devices[u] # NoDevice /\ devices[u].by_user # n
       /\ devices' = [devices EXCEPT ![u].by_user = n]
  /\ UNCHANGED <<rows, foreign, data, known, loaded, version>>

UserNamesEntity ==
  /\ Changes
  /\ \E r \in WithoutShadows(rows), n \in Name :
       LET id == ExpectedId(r.platform, n) IN
       /\ id \notin Ids(rows) \union foreign
       /\ rows' = (rows \ {r}) \union {[r EXCEPT !.id = id, !.wanted = id]}
  /\ UNCHANGED <<devices, foreign, data, known, loaded, version>>

-----------------------------------------------------------------------------

\* IDs of version 1: the name alone, and the switch with "vpn"
LegacyId(platform, name) ==
  <<Domain[platform]>> \o name \o (IF platform = "switch" THEN <<"vpn">> ELSE <<>>)

\* Rows of version 1, one of them broken perhaps: a shadow on an ID of today
LegacyRows ==
  LET Row(p, u) == [platform |-> p, uid |-> u, wanted |-> LegacyId(p, data[u]),
                    id |-> LegacyId(p, data[u])]
      valid == {Row(p, u) : p \in Platform, u \in Listed(data)}
      Shadow(id) == [platform |-> Broken, uid |-> NoName, wanted |-> id, id |-> id]
  IN {valid} \union
     {valid \union {Shadow(ExpectedId(p, n))} : p \in Platform, n \in Name}

\* Before the first setup, of a new entry or of one from version 1
Init ==
  /\ data \in [Uid -> Name \union {Absent}]
  /\ foreign \in Foreign
  /\ known = {} /\ loaded = FALSE /\ changes = 0 /\ repairs = 0
  /\ \/ version = 2 /\ rows = {} /\ devices = [u \in Uid |-> NoDevice]
     \/ /\ version = 1
        /\ rows \in {some \in LegacyRows : UniqueIds(some) /\ Ids(some) \intersect foreign = {}}
        /\ devices = [u \in Uid |-> IF u \in Listed(data)
                                    THEN [name |-> data[u], by_user |-> NoName] ELSE NoDevice]

Next ==
  \/ Migrate \/ Setup \/ Unload \/ Repair \/ Cleanup
  \/ ListChanges \/ UserNamesDevice \/ UserNamesEntity

Spec == Init /\ [][Next]_vars

-----------------------------------------------------------------------------
(* Properties                                                              *)

SameKey(r, s) == r.platform = s.platform /\ r.uid = s.uid

\* The registries have their types: no unique_id and no entity ID twice, none on an
\* ID of another integration, and a device for every row.
TypeOK ==
  /\ UniqueIds(rows)
  /\ UniqueKeys(WithoutShadows(rows))
  /\ Ids(rows) \intersect foreign = {}
  /\ \A r \in WithoutShadows(rows) : r.uid \in Uid /\ devices[r.uid] # NoDevice
  /\ known \subseteq Uid /\ (known # {} => loaded)

\* No repair, migration or setup removes the row of a VPN that is on the box:
\* whoever has a numbered ID never gets rid of a rightful owner ("Setup/reload no longer
\* destructively renames _2 entities over an existing base entity ID",
\* v1.2.4b1).
ListedRowsKept ==
  [][\A r \in WithoutShadows(rows) : r.uid \in Listed(data) =>
       \E s \in rows' : SameKey(r, s)]_vars

\* Setup moves a row only to the ID it was made for, or that a user or a repair has
\* asked for since: reloads, renamed devices and renamed VPNs change no entity
\* ID ("Entity IDs no longer change again after you rename a VPN device in Home
\* Assistant", v1.2.2b7).
SetupKeepsIds ==
  [][Setup => \A r \in WithoutShadows(rows), s \in rows' :
       SameKey(r, s) /\ s.id # r.id => s.id = r.wanted]_vars

\* An entity of a listed VPN that is numbered beside the ID of an absent one
Beside(live, orphan) ==
  /\ live.uid \in Listed(data) /\ orphan.uid \notin Listed(data)
  /\ Numbered(live.id) /\ Base(live.id) = orphan.id

\* No such pair is left.
PairsMerged ==
  \A r, o \in WithoutShadows(rows), s, p \in rows' :
    Beside(r, o) /\ SameKey(r, s) /\ SameKey(o, p) => ~Beside(s, p)

\* No such pair outlasts a repair of a loaded entry ("Orphan base entity + live _2 pairs
\* are merged on setup and via Options/Service repair", v1.2.4b4) ...
RepairMerges == [][Repair /\ loaded => PairsMerged]_vars

\* ... nor, by the same sentence, a setup: violated, because the entry counts as loaded
\* only when its setup has ended.
SetupMerges == [][Setup => PairsMerged]_vars

\* Repairs come to an end: as long as nothing else changes, at most one repair for
\* each entity finds something to rename by its name (a row may follow the one that gave
\* its ID up), and one something else, however often the entry is reloaded meanwhile.
RepairsEnd == repairs <= Cardinality(Platform) * Cardinality(Uid) + 1
==============================================================================
