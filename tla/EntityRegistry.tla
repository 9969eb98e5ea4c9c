--------------------------- MODULE EntityRegistry ---------------------------
(***************************************************************************)
(* What the integration does to Home Assistant's entity and device         *)
(* registries (entity_registry.py), as operators on their contents.        *)
(*                                                                         *)
(* An entity row is a record with at least a platform and a uid: together  *)
(* they are its unique_id, fritzbox_vpn_{uid}_{suffix}.  A device is known *)
(* by the UID in its identifiers.  Rows with a malformed unique_id, entity *)
(* IDs and names are left out.                                             *)
(***************************************************************************)
EXTENDS UidIdentity

HasKey(rows, platform, uid) == \E r \in rows : r.platform = platform /\ r.uid = uid
RowsOf(rows, uid) == {r \in rows : r.uid = uid}

\* The registry refuses a second row with the same unique_id.
UniqueKeys(rows) ==
  \A r, s \in rows : r.platform = s.platform /\ r.uid = s.uid => r = s

-----------------------------------------------------------------------------
(* remap_connection_uids: plan, then apply what has no conflict            *)

\* Mutants: a device in the way is not looked for, or nothing is.
ConflictedByRow(rows, devices, remap) ==
  {u \in DOMAIN remap : \E r \in RowsOf(rows, u) : HasKey(rows, r.platform, remap[u])}
ConflictedNever(rows, devices, remap) == {}

\* Old UIDs with a row or the device in the way of one of theirs.
Conflicted(rows, devices, remap) ==
  {u \in DOMAIN remap :
     \/ \E r \in RowsOf(rows, u) : HasKey(rows, r.platform, remap[u])
     \/ u \in devices /\ remap[u] \in devices}

\* Old UIDs to rename: without conflict, and with something to rename.
Applied(rows, devices, remap) ==
  {u \in DOMAIN remap \ Conflicted(rows, devices, remap) :
     RowsOf(rows, u) # {} \/ u \in devices}

Renamed(uid, remap, applied) == IF uid \in applied THEN remap[uid] ELSE uid
RemapRows(rows, remap, applied) ==
  {[r EXCEPT !.uid = Renamed(r.uid, remap, applied)] : r \in rows}

\* Mutant: the new UID is added and the old one kept.
RemapUidsAdding(uids, remap, applied) == uids \union {Renamed(u, remap, applied) : u \in uids}

\* Devices, and the known_uids of a platform (models.remap_known_uids).
RemapUids(uids, remap, applied) == {Renamed(u, remap, applied) : u \in uids}

-----------------------------------------------------------------------------
(* get_orphaned_entity_entries and remove_orphaned_entities                *)

Orphaned(rows, current) == {r \in rows : r.uid \notin current}
UidsOf(rows) == {r.uid : r \in rows}

\* With the rows of a UID goes its device, and every device left without rows.
DevicesAfterRemoval(rows, devices, removed) ==
  {d \in devices : d \notin UidsOf(removed)}
=============================================================================
