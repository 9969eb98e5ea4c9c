--------------------------- MODULE EntityIdRepairs ---------------------------
(***************************************************************************)
(* Entity IDs and their repairs (entity_registry.py), as operators on the  *)
(* rows of the integration.                                                *)
(*                                                                         *)
(* An entity ID is the sequence of its words: <<"switch", "office", "2">>  *)
(* is switch.office_2.  A name is the sequence of words of its slug.  A    *)
(* row has a platform (the suffix of its unique_id), a uid and an id;      *)
(* devices maps a UID to the names of its device, or to NoDevice.  IDs of  *)
(* other integrations are foreign.                                         *)
(***************************************************************************)
EXTENDS EntityRegistry, Sequences, SequencesExt

CONSTANT NoDevice

Numerals == <<"2", "3", "4", "5", "6">>
Broken == "broken"  \* platform of a row whose unique_id is malformed

\* Words that follow the name in the ID of a platform
Suffix == [switch |-> <<>>, connected |-> <<"connected">>, status |-> <<"status">>,
           uid |-> <<"uid">>, vpn_uid |-> <<"vpn", "uid">>]
Domain == [switch |-> "switch", connected |-> "binary_sensor", status |-> "sensor",
           uid |-> "sensor", vpn_uid |-> "sensor"]

ExpectedId(platform, name) == <<Domain[platform]>> \o name \o Suffix[platform]

\* The name the user gave the device, or else its own
DeviceName(device) == IF device.by_user = NoName THEN device.name ELSE device.by_user

\* Rows that have an expected ID
HasExpected(row, devices) == row.platform # Broken /\ devices[row.uid] # NoDevice
ExpectedOf(row, devices) == ExpectedId(row.platform, DeviceName(devices[row.uid]))

Ids(rows) == {r.id : r \in rows}
UniqueIds(rows) == \A r, s \in rows : r.id = s.id => r = s

-----------------------------------------------------------------------------
(* Numbers at the end of an ID: entity_id_base, entity_id_suffix_number    *)

NumberOf(id) == CHOOSE n \in 1..Len(Numerals) : Numerals[n] = Last(id)
Numbered(id) == Len(id) > 2 /\ \E n \in 1..Len(Numerals) : Numerals[n] = Last(id)
Base(id) == Front(id)

NumberedOn(rows, base) == {r \in rows : Numbered(r.id) /\ Base(r.id) = base}
Bases(rows) == {Base(r.id) : r \in {s \in rows : Numbered(s.id)}}

LowestNumber(candidates) ==
  CHOOSE r \in candidates : \A s \in candidates : NumberOf(r.id) <= NumberOf(s.id)

\* Home Assistant gives a new row the first of these that nobody has: the ID it asks
\* for (number 0), and the same with a number.
Candidate(wanted, n) == IF n = 0 THEN wanted ELSE Append(wanted, Numerals[n])
IsFirstFree(wanted, n, taken) ==
  Candidate(wanted, n) \notin taken /\ \A m \in 0..(n - 1) : Candidate(wanted, m) \in taken

-----------------------------------------------------------------------------
(* repair_legacy_entity_object_ids: rows move to their expected IDs        *)

\* Mutants: whatever is at the target is ignored, or only if it is the row itself.
LegacyPlanOntoTaken(rows, devices, foreign) ==
  {r \in rows : HasExpected(r, devices) /\ r.id # ExpectedOf(r, devices)
                /\ ExpectedOf(r, devices) \notin foreign}
LegacyPlanInPlace(rows, devices, foreign) ==
  {r \in rows : HasExpected(r, devices)
                /\ ExpectedOf(r, devices) \notin Ids(rows \ {r}) \union foreign}

LegacyPlan(rows, devices, foreign) ==
  {r \in rows : HasExpected(r, devices)
                /\ ExpectedOf(r, devices) \notin Ids(rows) \union foreign}

\* The plan is made before the first renaming, so of the rows that want the same
\* ID the first gets it, and the registry refuses it to the others.
LegacyWinners(rows, devices, foreign) ==
  LET plan == LegacyPlan(rows, devices, foreign)
  IN {winners \in SUBSET plan :
        /\ \A r, s \in winners : ExpectedOf(r, devices) = ExpectedOf(s, devices) => r = s
        /\ \A r \in plan : \E s \in winners : ExpectedOf(r, devices) = ExpectedOf(s, devices)}

LegacyRepaired(rows, devices, winners) ==
  {IF r \in winners THEN [r EXCEPT !.id = ExpectedOf(r, devices)] ELSE r : r \in rows}

-----------------------------------------------------------------------------
(* repair_entity_id_suffixes: rows move to the free base of their ID       *)

\* Mutant (allow_replace_base): the row in the way is removed.
SuffixPlanReplacing(rows, foreign) ==
  {LowestNumber(NumberedOn(rows, b)) : b \in Bases(rows) \ foreign}

SuffixPlan(rows, foreign) ==
  {LowestNumber(NumberedOn(rows, b)) : b \in Bases(rows) \ (Ids(rows) \union foreign)}

SuffixRepaired(rows, foreign) ==
  LET plan == SuffixPlan(rows, foreign)
      replaced == {r \in rows \ plan : \E s \in plan : r.id = Base(s.id)}
  IN {IF r \in plan THEN [r EXCEPT !.id = Base(@)] ELSE r : r \in rows \ replaced}

-----------------------------------------------------------------------------
(* repair_orphan_base_suffix_merges: a live row takes the base of an orphan *)

\* Mutant: who is listed and who is not is mixed up.
ListedBases(rows, current) == {r \in rows : r.platform # Broken /\ r.uid \in current}

OrphanBases(rows, current) == {r \in rows : r.platform # Broken /\ r.uid \notin current}

Mergeable(rows, current, base) ==
  {r \in NumberedOn(rows, base) : r.platform # Broken /\ r.uid \in current}

\* Orphans in the way, and the rows that replace them
MergedAway(rows, current) ==
  {o \in OrphanBases(rows, current) : Mergeable(rows, current, o.id) # {}}
MergedOnto(rows, current) ==
  {LowestNumber(Mergeable(rows, current, o.id)) : o \in MergedAway(rows, current)}

Merged(rows, current) ==
  {IF r \in MergedOnto(rows, current) THEN [r EXCEPT !.id = Base(@)] ELSE r :
     r \in rows \ MergedAway(rows, current)}

\* Devices of merged orphans go when nothing is left on them.
DevicesAfterMerge(rows, devices, current) ==
  [u \in DOMAIN devices |->
     IF u \in UidsOf(MergedAway(rows, current)) /\ RowsOf(Merged(rows, current), u) = {}
     THEN NoDevice ELSE devices[u]]

-----------------------------------------------------------------------------

\* remove_unexpected_entity_entries
WithoutShadows(rows) == {r \in rows : r.platform # Broken}
=============================================================================
