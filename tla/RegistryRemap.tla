--------------------------- MODULE RegistryRemap ---------------------------
(***************************************************************************)
(* remap_connection_uids (entity_registry.py) as the loop it is.  The plan *)
(* is made first, against an unchanged registry; then each accepted UID is *)
(* renamed row by row, and its device last.  The registry raises on a      *)
(* unique_id in use, which would leave the renaming half done, so the      *)
(* question is whether the plan rules that out whatever the order of the   *)
(* dictionaries and rows.                                                  *)
(***************************************************************************)
EXTENDS EntityRegistry, FiniteSets

CONSTANT Platform

VARIABLES
  remap,            \* old_to_new
  before,           \* the registries when the function was called
  rows, devices,    \* the registries
  planned,          \* old UIDs left to rename, NotPlanned at first
  current,          \* the UID being renamed and its rows left, Idle in between
  applied,          \* the UIDs returned
  refused           \* the registry raised

vars == <<remap, before, rows, devices, planned, current, applied, refused>>

NotPlanned == NoName
Idle == NoName
Key == [platform : Platform, uid : Uid]

\* The marks are neither a set of UIDs nor a UID at work.
ASSUME MarksAssumption ==
  /\ \A some \in SUBSET Uid : NotPlanned # some
  /\ \A u \in Uid, some \in SUBSET Key : Idle # [uid |-> u, rows |-> some]

\* The mappings name_bijection_uid_remap returns: one to one, onto other UIDs.
Remaps ==
  UNION {{f \in [old -> Uid \ old] : \A u, v \in old : f[u] = f[v] => u = v}
           : old \in SUBSET Uid}

Init ==
  /\ remap \in Remaps
  /\ rows \in SUBSET Key
  /\ devices \in SUBSET Uid
  /\ before = [rows |-> rows, devices |-> devices]
  /\ planned = NotPlanned
  /\ current = Idle
  /\ applied = {}
  /\ refused = FALSE

Plan ==
  /\ planned = NotPlanned
  /\ planned' = Applied(rows, devices, remap)
  /\ UNCHANGED <<remap, before, rows, devices, current, applied, refused>>

StartUid(u) ==
  /\ planned # NotPlanned /\ current = Idle /\ ~refused
  /\ u \in planned
  /\ planned' = planned \ {u}
  /\ current' = [uid |-> u, rows |-> RowsOf(rows, u)]
  /\ UNCHANGED <<remap, before, rows, devices, applied, refused>>

\* async_update_entity of one planned row
RenameRow(r) ==
  /\ current # Idle /\ ~refused
  /\ r \in current.rows
  /\ current' = [current EXCEPT !.rows = @ \ {r}]
  /\ IF HasKey(rows, r.platform, remap[r.uid])
     THEN refused' = TRUE /\ UNCHANGED rows
     ELSE /\ rows' = (rows \ {r}) \union {[r EXCEPT !.uid = remap[r.uid]]}
          /\ UNCHANGED refused
  /\ UNCHANGED <<remap, before, devices, planned, applied>>

\* Mutant: the device keeps its old UID.
DevicesKept == devices

DevicesRenamed == RemapUids(devices, remap, {current.uid})

\* Mutants: the new UID is reported instead of the old one, or only UIDs with a
\* device are reported.
ReportedNew == applied \union {remap[current.uid]}
ReportedWithDevice == applied \union ({current.uid} \intersect devices)

Reported == applied \union {current.uid}

\* async_update_device, if there is one, and the UID is done.
FinishUid ==
  /\ current # Idle /\ ~refused
  /\ current.rows = {}
  /\ devices' = DevicesRenamed
  /\ applied' = Reported
  /\ current' = Idle
  /\ UNCHANGED <<remap, before, rows, planned, refused>>

Next ==
  \/ Plan
  \/ \E u \in Uid : StartUid(u)
  \/ \E r \in Key : RenameRow(r)
  \/ FinishUid

Spec == Init /\ [][Next]_vars

-----------------------------------------------------------------------------
Done == planned = {} /\ current = Idle

TypeOK ==
  /\ remap \in Remaps
  /\ rows \subseteq Key /\ before.rows \subseteq Key
  /\ devices \subseteq Uid /\ before.devices \subseteq Uid
  /\ planned # NotPlanned => planned \subseteq DOMAIN remap
  /\ applied \subseteq DOMAIN remap
  /\ refused \in BOOLEAN

\* The plan leaves no renaming for the registry to refuse, in any order: the
\* function never raises half way.
NeverRefused == ~refused

\* No row and no device is lost, and no two are merged, while UIDs are renamed
\* one by one.
NothingLost ==
  /\ Cardinality(rows) = Cardinality(before.rows)
  /\ Cardinality(devices) = Cardinality(before.devices)

\* Each UID is renamed on every platform and on its device, or nowhere
\* (docstring: "Partial successes are not applied or returned").
AllOrNothing ==
  Done => \A u \in DOMAIN remap :
            IF u \in applied
            THEN RowsOf(rows, u) = {} /\ u \notin devices
            ELSE RowsOf(rows, u) = RowsOf(before.rows, u)
                   /\ (u \in devices <=> u \in before.devices)

\* The loop computes the renaming the other modules use in one step.
LoopMatchesOperators ==
  Done => LET done == Applied(before.rows, before.devices, remap) IN
          /\ applied = done
          /\ rows = RemapRows(before.rows, remap, done)
          /\ devices = RemapUids(before.devices, remap, done)
=============================================================================
