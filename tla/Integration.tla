----------------------------- MODULE Integration -----------------------------
(***************************************************************************)
(* One config entry as a whole: the coordinator, the registries it renames,*)
(* the entities the platforms create (entity.py), setup and unload         *)
(* (__init__.py), the "Remove unavailable entities" service, and the       *)
(* Fritz!Box with the user in front of it.                                 *)
(*                                                                         *)
(* A VPN is its display name here: names are unique on the box and do not  *)
(* change, which is the case the documentation makes promises about.  The  *)
(* registries outlive a load, the coordinator and the entities do not.     *)
(*                                                                         *)
(* The box is kinder or harsher according to Hazards:                      *)
(*   "partial"  a list may lack some of the VPNs on the box                *)
(*   "empty"    an empty list may outlast the cap of the recovery          *)
(*   "again"    UIDs may be renumbered more than once in a load            *)
(*   "deleted"  UIDs may be renumbered while a deleted VPN still has rows  *)
(*   "reuse"    a renumbering may hand out UIDs used before                *)
(*   "unseen"   a renumbering may escape the coordinator: no poll fails    *)
(*              meanwhile, or the user reloads the entry meanwhile         *)
(***************************************************************************)
EXTENDS Coordinator, EntityRegistry

CONSTANTS Platform, Hazards, MaxRenumberings

ASSUME HazardsAssumption ==
  Hazards \subseteq {"partial", "empty", "again", "deleted", "reuse", "unseen"}
\* A UID has an entity on some platform, and a VPN without a number has none of them.
ASSUME PlatformAssumption == Platform # {}
ASSUME RenumberingsAssumption == MaxRenumberings \in Nat
ASSUME AbsentAssumption == Absent \notin Uid

VARIABLES
  on_box,        \* the VPNs configured on the box
  number,        \* the UID of each VPN, Absent before it was created
  used_uids,     \* the UIDs the box has handed out so far
  renumberings,  \* how often the box renumbered: in this load and in all
  loaded,        \* the entry is loaded
  rows,          \* entity registry: platform, uid, and the VPN it was made for
  devices,       \* device registry: the UIDs of the connection devices
  known_uids,    \* known_uids_<platform> of the runtime data
  entities       \* live entities: platform, _connection_uid and the row's UID

world == <<on_box, number, used_uids, renumberings>>
registry == <<rows, devices, known_uids, entities>>
ivars == <<vars, world, loaded, registry>>

Row == [platform : Platform, uid : Uid, vpn : Name]
Entity == [platform : Platform, uid : Uid, row : Uid]

ListingOf(vpns, numbers) ==
  [u \in Uid |-> IF \E v \in vpns : numbers[v] = u
                 THEN CHOOSE v \in vpns : numbers[v] = u ELSE Absent]
FullListing == ListingOf(on_box, number)

-----------------------------------------------------------------------------
(* Platforms (setup_vpn_platform)                                          *)

Live(platform, uid, ents) == \E e \in ents : e.platform = platform /\ e.row = uid

\* _add_new_entities of every platform: entities for the UIDs in conns that are
\* not tracked yet.  Home Assistant gives an entity the row of its unique_id, a
\* new one if there is none, and drops an entity whose row is already live.
AddEntities(conns, rows0, devices0, known0, entities0) ==
  LET new(p) == Listed(conns) \ known0[p]
      made == {k \in Platform \X Listed(conns) :
                 k[2] \in new(k[1]) /\ ~Live(k[1], k[2], entities0)}
  IN /\ rows' = rows0 \union
          {[platform |-> k[1], uid |-> k[2], vpn |-> conns[k[2]]] :
             k \in {m \in made : ~HasKey(rows0, m[1], m[2])}}
     /\ devices' = devices0 \union {k[2] : k \in made}
     /\ known_uids' = [p \in Platform |-> known0[p] \union new(p)]
     /\ entities' = entities0 \union
          {[platform |-> k[1], uid |-> k[2], row |-> k[2]] : k \in made}

\* connection_available
Available(e) ==
  /\ last_update_success
  /\ ResolveUid(e.uid) \in Listed(data)

-----------------------------------------------------------------------------
(* Polls of the loaded entry                                               *)

IPollRecovering ==
  LET remap == RemapProposed(listing)
      moved == Applied(rows, devices, remap)
  IN /\ PollRecovering(moved)
     /\ AddEntities(listing,
                    RemapRows(rows, remap, moved),
                    RemapUids(devices, remap, moved),
                    [p \in Platform |-> RemapUids(known_uids[p], remap, moved)],
                    {[e EXCEPT !.row = Renamed(e.row, remap, moved)] : e \in entities})

IPollTracked ==
  /\ PollNormal \/ PollEmptyAccepted
  /\ AddEntities(listing, rows, devices, known_uids, entities)

\* The listeners a failing poll calls find no UID they do not know.
IPollFails ==
  /\ PollOutage \/ PollDenied \/ PollEmptyRefused
  /\ UNCHANGED registry

IPoll ==
  /\ loaded
  /\ IPollRecovering \/ IPollTracked \/ IPollFails
  /\ UNCHANGED <<world, loaded>>

\* An empty list ends before the cap of the recovery, unless that is a hazard.
EmptyShown == link = "up" /\ on_box # {} /\ Listed(listing) = {}
ITick ==
  /\ "empty" \in Hazards \/ ~EmptyShown \/ recovery_age + 1 < RecoveryMax
  /\ Tick
  /\ UNCHANGED <<world, loaded, registry>>

-----------------------------------------------------------------------------
(* Setup, unload, cleanup                                                  *)

\* What is left of the coordinator and the entities without a loaded entry.
Forgotten ==
  /\ data' = NoConnections
  /\ last_update_success' = FALSE
  /\ seen_uids' = {}
  /\ missing_uid_counts' = NoMisses
  /\ confirmed_orphan_uids' = {}
  /\ uid_names' = [u \in Uid |-> NoName]
  /\ uid_remap' = [u \in Uid |-> u]
  /\ ClearRecovery
  /\ reauth_scheduled' = FALSE
  /\ known_uids' = [p \in Platform |-> {}]
  /\ entities' = {}
  /\ loaded' = FALSE

\* async_setup_entry: a new coordinator, whose first refresh succeeds; the
\* platforms; then devices without rows go (_cleanup_empty_connection_devices).
ISetup ==
  /\ ~loaded /\ link = "up"
  /\ loaded' = TRUE
  /\ data' = listing
  /\ last_update_success' = TRUE
  /\ seen_uids' = Listed(listing)
  /\ uid_names' = Remember([u \in Uid |-> NoName], listing)
  /\ AddEntities(listing, rows, devices \intersect UidsOf(rows), [p \in Platform |-> {}], {})
  /\ renumberings' = [renumberings EXCEPT !.load = 0]
  /\ UNCHANGED <<box, missing_uid_counts, confirmed_orphan_uids, uid_remap, recovery,
                 reauth_scheduled, on_box, number, used_uids>>

\* The coordinator has accepted what the box really has.
UpToDate == loaded /\ data = FullListing

\* A renumbering is in the air: rows of a VPN on the box carry a UID it had.
Renumbered == \E r \in rows : r.vpn \in on_box /\ number[r.vpn] # r.uid

\* async_unload_entry: a reload, reauthentication, or Home Assistant stopping
IUnload ==
  /\ loaded
  /\ "unseen" \in Hazards \/ ~Renumbered
  /\ Forgotten
  /\ UNCHANGED <<box, world, rows, devices>>

\* The service, called at any time: rows of UIDs not in coordinator.data go, all
\* of them if it is empty, and the entry is reloaded if any was.
IRemoveUnavailable ==
  /\ loaded
  /\ LET gone == Orphaned(rows, Listed(data)) IN
     /\ gone # {}
     /\ rows' = rows \ gone
     /\ devices' = DevicesAfterRemoval(rows, devices, gone)
  /\ Forgotten
  /\ UNCHANGED <<box, world>>

-----------------------------------------------------------------------------
(* The box and its user (external)                                         *)

Shown ==
  {vpns \in SUBSET on_box :
     \/ vpns = on_box
     \/ vpns = {} /\ recovering /\ ("empty" \in Hazards \/ recovery_age + 1 < RecoveryMax)
     \/ "partial" \in Hazards}

BoxFails ==
  /\ link' \in {"outage", "denied"} \ {link}
  /\ "unseen" \in Hazards \/ (link = "outage" => recovering \/ ~loaded)
  /\ UNCHANGED <<listing, world>>

BoxAnswers ==
  /\ "unseen" \in Hazards \/ (link = "outage" => recovering \/ ~loaded)
  /\ link' = "up"
  /\ \E vpns \in Shown : listing' = ListingOf(vpns, number)
  /\ UNCHANGED world

\* Rows of VPNs that are not on the box any more
LeftOver == {r \in rows : r.vpn \notin on_box}

\* A reboot gives some VPNs other UIDs.
BoxRenumbers ==
  /\ renumberings.all < MaxRenumberings
  /\ "again" \in Hazards \/ renumberings.load = 0
  /\ "deleted" \in Hazards \/ LeftOver = {}
  /\ "unseen" \in Hazards \/ UpToDate
  /\ \E n \in [on_box -> Uid] :
       /\ \A v, w \in on_box : n[v] = n[w] => v = w
       /\ \A v \in on_box :
            n[v] = number[v] \/ n[v] \notin used_uids \/ "reuse" \in Hazards
       /\ \E v \in on_box : n[v] # number[v]
       /\ number' = [v \in Name |-> IF v \in on_box THEN n[v] ELSE number[v]]
       /\ used_uids' = used_uids \union {n[v] : v \in on_box}
  /\ link' = "outage"
  /\ listing' = NoConnections
  /\ renumberings' = [load |-> renumberings.load + 1, all |-> renumberings.all + 1]
  /\ UNCHANGED on_box

\* The user creates a VPN, under a name and a UID not used before.
UserCreatesVpn ==
  /\ link = "up" /\ ~recovering
  /\ "unseen" \in Hazards \/ UpToDate
  /\ \E v \in Name, u \in Uid \ used_uids :
       /\ number[v] = Absent
       /\ number' = [number EXCEPT ![v] = u]
       /\ on_box' = on_box \union {v}
       /\ used_uids' = used_uids \union {u}
       /\ listing' = ListingOf(on_box \union {v}, number')
  /\ UNCHANGED <<link, renumberings>>

\* The user deletes a VPN.
UserDeletesVpn ==
  /\ link = "up" /\ ~recovering
  /\ "unseen" \in Hazards \/ UpToDate
  /\ \E v \in on_box :
       /\ on_box' = on_box \ {v}
       /\ listing' = ListingOf(on_box \ {v}, number)
  /\ UNCHANGED <<link, number, used_uids, renumberings>>

BoxChange ==
  /\ BoxFails \/ BoxAnswers \/ BoxRenumbers \/ UserCreatesVpn \/ UserDeletesVpn
  /\ UNCHANGED <<data, last_update_success, tracking, uid_names, uid_remap, recovery,
                 reauth_scheduled, loaded, registry>>

\* The entry was just set up for the first time.
IInit ==
  /\ on_box \in SUBSET Name
  /\ number \in [Name -> Uid \union {Absent}]
  /\ \A v \in Name : number[v] = Absent <=> v \notin on_box
  /\ \A v, w \in on_box : number[v] = number[w] => v = w
  /\ used_uids = {number[v] : v \in on_box}
  /\ renumberings = [load |-> 0, all |-> 0]
  /\ listing = FullListing
  /\ FirstRefreshed
  /\ loaded = TRUE
  /\ rows = {[platform |-> k[1], uid |-> number[k[2]], vpn |-> k[2]] :
               k \in Platform \X on_box}
  /\ devices = used_uids
  /\ known_uids = [p \in Platform |-> used_uids]
  /\ entities = {[platform |-> k[1], uid |-> k[2], row |-> k[2]] :
                   k \in Platform \X used_uids}

INext ==
  \/ IPoll
  \/ ITick
  \/ ISetup
  \/ IUnload
  \/ IRemoveUnavailable
  \/ BoxChange

ISpec == IInit /\ [][INext]_ivars

\* Home Assistant keeps polling a loaded entry and retries a setup.
FairISpec == ISpec /\ WF_ivars(ITick) /\ WF_ivars(IPoll) /\ WF_ivars(ISetup)

-----------------------------------------------------------------------------
(* Properties                                                              *)

ITypeOK ==
  /\ TypeOK
  /\ on_box \subseteq Name
  /\ number \in [Name -> Uid \union {Absent}]
  /\ used_uids \subseteq Uid
  /\ renumberings \in [load : 0 .. MaxRenumberings, all : 0 .. MaxRenumberings]
  /\ loaded \in BOOLEAN
  /\ rows \subseteq Row
  /\ devices \subseteq Uid
  /\ known_uids \in [Platform -> SUBSET Uid]
  /\ entities \subseteq Entity

\* The variables keep their types and the registries stay consistent through
\* remaps, additions and removals: no unique_id twice, a row for every live entity
\* and one entity for a row, a device for every row and no device without rows.
RegistryConsistent ==
  /\ ITypeOK
  /\ UniqueKeys(rows)
  /\ \A e \in entities : HasKey(rows, e.platform, e.row)
  /\ \A e, f \in entities : e.platform = f.platform /\ e.row = f.row => e = f
  /\ devices = UidsOf(rows)

\* known_uids is what really is live, after remaps too: nothing listed is left
\* without an entity, and no entity is added for a row that already has one
\* (entity.py: "Duplicate live unique_ids are avoided by never clearing
\* known_uids on temporary absence").
KnownUidsAreLive ==
  loaded => \A p \in Platform :
    /\ known_uids[p] = {e.row : e \in {f \in entities : f.platform = p}}
    /\ Listed(data) \subseteq known_uids[p]

\* Two rows of one platform never stand for the same VPN: no _2 duplicates
\* (README, recovery items 2, 3 and 5).
NoDuplicateRows ==
  \A r, s \in rows : r.platform = s.platform /\ r.vpn = s.vpn => r = s

\* An entity whose row carries a listed UID is available (docstring of
\* FritzBoxVPNEntity.available: "True if coordinator has valid data and this
\* connection is present").
ListedEntityAvailable ==
  \A e \in entities : last_update_success /\ e.row \in Listed(data) => Available(e)

\* An available entity shows and switches the VPN its row was made for
\* (README: changed UIDs are remapped in place, "same devices/entities").
EntityShowsOwnVpn ==
  \A e \in entities, r \in rows :
    Available(e) /\ r.platform = e.platform /\ r.uid = e.row
      => data[ResolveUid(e.uid)] = r.vpn

\* A VPN that is on the box loses its rows only to the cleanup service, and only
\* before the loaded entry has seen any VPN.  services.yaml promises more, to remove
\* entries "for VPN connections that no longer exist", but a reload while a recovering
\* box shows an empty list accepts that list, and the service then takes all rows.
RowsLostOnlyIfNoneSeen ==
  [][\A r \in rows : r.vpn \in on_box =>
       \/ \E s \in rows' : s.platform = r.platform /\ s.vpn = r.vpn
       \/ loaded /\ ~loaded' /\ seen_uids = {}]_ivars

\* Once the box stays up and shows all its VPNs, each has an available entity on
\* every platform again and again: no reload is needed after a reboot (README).
AllAvailable ==
  \A p \in Platform, v \in on_box :
    \E e \in entities : e.platform = p /\ Available(e) /\ data[ResolveUid(e.uid)] = v
VpnsComeBack ==
  <>[](link = "up" /\ listing = FullListing) => []<>AllAvailable
==============================================================================
