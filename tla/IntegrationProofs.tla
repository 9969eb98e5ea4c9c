--------------------------- MODULE IntegrationProofs ---------------------------
(***************************************************************************)
(* Theorems about a config entry as a whole, for every set of UIDs, VPNs   *)
(* and platforms.  Four invariants, each resting on those before it and    *)
(* holding for fewer boxes:                                                *)
(*   IInv         registries and entities agree, whatever the box does     *)
(*   OwnerInv     a UID stands for one VPN and remaps lead onwards: no UID *)
(*                is handed out twice (no "reuse")                         *)
(*   KnownInv     an entry that has seen a VPN shows every VPN that has    *)
(*                rows: the box shows all or none (nor "partial", "empty") *)
(*   IdentityInv  the rows go by one numbering of the VPNs: the box of the *)
(*                documentation (Hazards = {})                             *)
(***************************************************************************)
EXTENDS Integration, CoordinatorProofs, WellFoundedInduction

-----------------------------------------------------------------------------
(* What a remap preserves in the registries                                *)

Rows(platforms, vpns) == [platform : platforms, uid : Uid, vpn : vpns]

\* What the mapping is known to be: one to one, onto UIDs that were not old.
FreshTargets(remap) ==
  /\ \A u \in DOMAIN remap : remap[u] \in Uid \ DOMAIN remap
  /\ \A u, v \in DOMAIN remap : remap[u] = remap[v] => u = v

\* A row that moves meets no row of its platform at the target.
LEMMA MovedRowHasRoom ==
  ASSUME NEW rws, NEW devs, NEW remap,
         NEW r \in rws, NEW s \in rws,
         r.uid \in Applied(rws, devs, remap),
         s.platform = r.platform
  PROVE  s.uid # remap[r.uid]
BY DEF Applied, Conflicted, RowsOf, HasKey

\* Two rows of a platform never get the same UID.
LEMMA RenamedRowsApart ==
  ASSUME NEW rws, NEW devs, NEW remap,
         UniqueKeys(rws), FreshTargets(remap),
         NEW r \in rws, NEW s \in rws, r.platform = s.platform,
         Renamed(r.uid, remap, Applied(rws, devs, remap))
           = Renamed(s.uid, remap, Applied(rws, devs, remap))
  PROVE  r = s
<1> DEFINE applied == Applied(rws, devs, remap)
<1>1. applied \subseteq DOMAIN remap
  BY DEF Applied
<1>2. CASE r.uid \in applied /\ s.uid \in applied
  <2>1. remap[r.uid] = remap[s.uid]
    BY <1>2 DEF Renamed
  <2>2. r.uid = s.uid
    BY <1>1, <1>2, <2>1 DEF FreshTargets
  <2> QED
    BY <2>2 DEF UniqueKeys
<1>3. CASE r.uid \in applied /\ s.uid \notin applied
  BY <1>3, MovedRowHasRoom DEF Renamed
<1>4. CASE r.uid \notin applied /\ s.uid \in applied
  BY <1>4, MovedRowHasRoom DEF Renamed
<1>5. CASE r.uid \notin applied /\ s.uid \notin applied
  BY <1>5 DEF Renamed, UniqueKeys
<1> QED
  BY <1>2, <1>3, <1>4, <1>5

\* remap_connection_uids keeps every unique_id unique, whichever UIDs it leaves
\* out for a conflict: the registry never has a reason to refuse one of its
\* updates, so no remap stops half way.
THEOREM RemapKeepsKeysUnique ==
  ASSUME NEW platforms, NEW vpns, NEW rws \in SUBSET Rows(platforms, vpns),
         NEW devs, NEW remap,
         UniqueKeys(rws), FreshTargets(remap)
  PROVE  UniqueKeys(RemapRows(rws, remap, Applied(rws, devs, remap)))
<1> DEFINE applied == Applied(rws, devs, remap)
           moved(r) == [r EXCEPT !.uid = Renamed(r.uid, remap, applied)]
<1>1. ASSUME NEW r \in rws
      PROVE  /\ moved(r).platform = r.platform
             /\ moved(r).uid = Renamed(r.uid, remap, applied)
  BY DEF Rows
<1>2. ASSUME NEW r \in rws, NEW s \in rws,
             moved(r).platform = moved(s).platform, moved(r).uid = moved(s).uid
      PROVE  moved(r) = moved(s)
  <2>1. r.platform = s.platform
    BY <1>1, <1>2
  <2>2. Renamed(r.uid, remap, applied) = Renamed(s.uid, remap, applied)
    BY <1>1, <1>2
  <2>3. r = s
    BY <2>1, <2>2, RenamedRowsApart
  <2> QED
    BY <2>3
<1>3. RemapRows(rws, remap, applied) = {moved(r) : r \in rws}
  BY DEF RemapRows
<1> HIDE DEF moved
<1> QED
  BY <1>2, <1>3 DEF UniqueKeys

\* A UID is renamed with all its rows and its device, or with none of them
\* (docstring: "Partial successes are not applied or returned").
THEOREM RemapAllOrNothing ==
  ASSUME NEW platforms, NEW vpns, NEW rws \in SUBSET Rows(platforms, vpns),
         NEW devs, NEW remap, FreshTargets(remap),
         NEW u \in DOMAIN remap
  PROVE  LET applied == Applied(rws, devs, remap)
             after == RemapRows(rws, remap, applied)
             devicesAfter == RemapUids(devs, remap, applied)
         IN  IF u \in applied
             THEN /\ RowsOf(after, u) = {} /\ u \notin devicesAfter
                  /\ \A r \in RowsOf(rws, u) : [r EXCEPT !.uid = remap[u]] \in after
                  /\ u \in devs => remap[u] \in devicesAfter
             ELSE /\ RowsOf(after, u) = RowsOf(rws, u)
                  /\ u \in devicesAfter <=> u \in devs
<1> DEFINE applied == Applied(rws, devs, remap)
           moved(r) == [r EXCEPT !.uid = Renamed(r.uid, remap, applied)]
           after == RemapRows(rws, remap, applied)
           devicesAfter == RemapUids(devs, remap, applied)
<1>1. after = {moved(r) : r \in rws} /\ applied \subseteq DOMAIN remap
  BY DEF RemapRows, Applied
<1>2. ASSUME NEW r \in rws
      PROVE  /\ moved(r).uid = Renamed(r.uid, remap, applied)
             /\ r.uid \notin applied => moved(r) = r
  BY DEF Rows, Renamed
<1>3. ASSUME NEW r \in rws, moved(r).uid = u
      PROVE  r.uid \notin applied /\ r.uid = u /\ moved(r) = r
  <2>1. Renamed(r.uid, remap, applied) = u
    BY <1>2, <1>3
  <2>2. r.uid \notin applied
    BY <1>1, <2>1 DEF Renamed, FreshTargets
  <2> QED
    BY <1>2, <2>1, <2>2 DEF Renamed
<1>4. \A d : Renamed(d, remap, applied) = u => d = u /\ u \notin applied
  BY <1>1 DEF Renamed, FreshTargets
<1>5. devicesAfter = {Renamed(d, remap, applied) : d \in devs}
  BY DEF RemapUids
<1>6. u \in applied => u \notin devicesAfter /\ (u \in devs => remap[u] \in devicesAfter)
  BY <1>4, <1>5 DEF Renamed
<1>7. u \notin applied => (u \in devicesAfter <=> u \in devs)
  BY <1>4, <1>5 DEF Renamed
<1> HIDE DEF devicesAfter
<1>8. CASE u \in applied
  <2>1. RowsOf(after, u) = {}
    BY <1>1, <1>3, <1>8 DEF RowsOf
  <2>2. \A r \in RowsOf(rws, u) : [r EXCEPT !.uid = remap[u]] \in after
    BY <1>1, <1>8 DEF RowsOf, Renamed
  <2> QED
    BY <1>6, <1>8, <2>1, <2>2 DEF devicesAfter
<1>9. CASE u \notin applied
  <2>1. ASSUME NEW r \in rws, r.uid = u
        PROVE  moved(r) = r
    BY <1>2, <1>9, <2>1
  <2>2. ASSUME NEW s
        PROVE  s \in RowsOf(after, u) <=> s \in RowsOf(rws, u)
    <3>1. ASSUME s \in RowsOf(after, u)
          PROVE  s \in RowsOf(rws, u)
      <4>1. PICK r \in rws : s = moved(r)
        BY <1>1, <3>1 DEF RowsOf
      <4> HIDE DEF moved
      <4> QED
        BY <1>3, <3>1, <4>1 DEF RowsOf
    <3>2. ASSUME s \in RowsOf(rws, u)
          PROVE  s \in RowsOf(after, u)
      <4>1. s \in rws /\ s.uid = u /\ moved(s) = s
        BY <2>1, <3>2 DEF RowsOf
      <4> HIDE DEF moved
      <4>2. s \in after
        BY <1>1, <4>1
      <4> QED
        BY <4>1, <4>2 DEF RowsOf
    <3> QED
      BY <3>1, <3>2
  <2>3. RowsOf(after, u) = RowsOf(rws, u)
    BY <2>2
  <2> QED
    BY <1>7, <1>9, <2>3 DEF devicesAfter
<1> QED
  BY <1>8, <1>9

-----------------------------------------------------------------------------
(* Registries and entities, whatever the box does                          *)

Consistent(rws, devs, ents) ==
  /\ UniqueKeys(rws)
  /\ \A e \in ents : HasKey(rws, e.platform, e.row)
  /\ \A e, f \in ents : e.platform = f.platform /\ e.row = f.row => e = f
  /\ devs = UidsOf(rws)

RowsLive(p, ents) == {e.row : e \in {f \in ents : f.platform = p}}

\* known_uids names the live rows, and the device registry those of the entity
\* registry.
Tracked(rws, devs, known, ents) ==
  /\ rws \subseteq Row
  /\ ents \subseteq Entity
  /\ known \in [Platform -> SUBSET Uid]
  /\ \A p \in Platform : known[p] = RowsLive(p, ents)
  /\ Consistent(rws, devs, ents)

\* A list the box may answer with: every VPN on it has a name.
Named(conns) == conns \in [Uid -> Name \union {Absent}]

WorldType ==
  /\ on_box \subseteq Name
  /\ number \in [Name -> Uid \union {Absent}]
  /\ used_uids \subseteq Uid
  /\ renumberings \in [load : 0 .. MaxRenumberings, all : 0 .. MaxRenumberings]
  /\ renumberings.load <= renumberings.all
  /\ loaded \in BOOLEAN
  /\ Named(listing)

\* RegistryConsistent and KnownUidsAreLive need what the coordinator keeps (the
\* UIDs it takes for new were never seen before), names in every listing, and
\* fewer renumberings in this load than in all.
IInv ==
  /\ Inv
  /\ WorldType
  /\ Tracked(rows, devices, known_uids, entities)
  /\ loaded => \A p \in Platform : Listed(data) \subseteq known_uids[p]

-----------------------------------------------------------------------------
(* New entities                                                            *)

LEMMA AddEntitiesTracked ==
  ASSUME NEW conns, Named(conns),
         NEW rws, NEW devs, NEW known, NEW ents,
         Tracked(rws, devs, known, ents),
         AddEntities(conns, rws, devs, known, ents)
  PROVE  /\ Tracked(rows', devices', known_uids', entities')
         /\ \A p \in Platform : Listed(conns) \subseteq known_uids'[p]
         /\ rws \subseteq rows'
         /\ \A r \in rows' \ rws : r.uid \in Listed(conns) /\ r.vpn = conns[r.uid]
         /\ \A e \in entities' \ ents : e.row \in Listed(conns) /\ e.uid = e.row
<1> DEFINE new(p) == Listed(conns) \ known[p]
           made == {k \in Platform \X Listed(conns) :
                      k[2] \in new(k[1]) /\ ~Live(k[1], k[2], ents)}
           row(k) == [platform |-> k[1], uid |-> k[2], vpn |-> conns[k[2]]]
           entity(k) == [platform |-> k[1], uid |-> k[2], row |-> k[2]]
<1>1. /\ rows' = rws \union {row(k) : k \in {m \in made : ~HasKey(rws, m[1], m[2])}}
      /\ devices' = devs \union {k[2] : k \in made}
      /\ known_uids' = [p \in Platform |-> known[p] \union new(p)]
      /\ entities' = ents \union {entity(k) : k \in made}
  BY Zenon DEF AddEntities
<1>2. \A u \in Listed(conns) : u \in Uid /\ conns[u] \in Name
  BY DEF Listed, Named
<1>3. ASSUME NEW k \in made
      PROVE  /\ k[1] \in Platform /\ k[2] \in Listed(conns)
             /\ k[2] \notin known[k[1]]
             /\ \A e \in ents : ~(e.platform = k[1] /\ e.row = k[2])
  BY DEF Live
<1>4. ASSUME NEW p \in Platform, NEW u \in Listed(conns), u \notin known[p]
      PROVE  <<p, u>> \in made
  BY <1>4 DEF Live, Tracked, RowsLive
<1>5. ASSUME NEW k \in made
      PROVE  /\ row(k) \in Row /\ entity(k) \in Entity
             /\ row(k).platform = k[1] /\ row(k).uid = k[2] /\ row(k).vpn = conns[k[2]]
             /\ entity(k).platform = k[1] /\ entity(k).uid = k[2] /\ entity(k).row = k[2]
  BY <1>2, <1>3 DEF Row, Entity
<1>6. ASSUME NEW k \in made, NEW m \in made, k[1] = m[1], k[2] = m[2]
      PROVE  k = m
  BY <1>6
<1> HIDE DEF made, row, entity
<1>7. rows' \subseteq Row /\ entities' \subseteq Entity
  BY <1>1, <1>5 DEF Tracked
<1>8. known_uids' \in [Platform -> SUBSET Uid]
  BY <1>1, <1>2 DEF Tracked
<1>9. ASSUME NEW p \in Platform
      PROVE  known_uids'[p] = RowsLive(p, entities')
  <2>1. known_uids'[p] = RowsLive(p, ents) \union new(p)
    BY <1>1 DEF Tracked
  <2>2. RowsLive(p, entities') = RowsLive(p, ents) \union {k[2] : k \in {m \in made : m[1] = p}}
    BY <1>1, <1>5 DEF RowsLive
  <2>3. \A u \in new(p) : \E k \in made : k[1] = p /\ k[2] = u
    BY <1>4
  <2>4. \A k \in made : k[1] = p => k[2] \in new(p)
    BY <1>3
  <2>5. {k[2] : k \in {m \in made : m[1] = p}} = new(p)
    BY <2>3, <2>4
  <2> QED
    BY <2>1, <2>2, <2>5
<1>10. UniqueKeys(rows')
  BY <1>1, <1>5, <1>6 DEF Tracked, Consistent, UniqueKeys, HasKey
<1>11. \A e \in entities' : HasKey(rows', e.platform, e.row)
  BY <1>1, <1>5 DEF Tracked, Consistent, HasKey
<1>12. \A e, f \in entities' : e.platform = f.platform /\ e.row = f.row => e = f
  BY <1>1, <1>3, <1>5, <1>6 DEF Tracked, Consistent
<1>13. devices' = UidsOf(rows')
  <2>1. UidsOf(rows') =
          UidsOf(rws) \union {k[2] : k \in {m \in made : ~HasKey(rws, m[1], m[2])}}
    BY <1>1, <1>5 DEF UidsOf
  <2>2. \A k \in made : HasKey(rws, k[1], k[2]) => k[2] \in UidsOf(rws)
    BY DEF HasKey, UidsOf
  <2> QED
    BY <1>1, <2>1, <2>2 DEF Tracked, Consistent
<1>14. \A p \in Platform : Listed(conns) \subseteq known_uids'[p]
  BY <1>1
<1>15. \A r \in rows' \ rws : r.uid \in Listed(conns) /\ r.vpn = conns[r.uid]
  BY <1>1, <1>3, <1>5
<1>16. \A e \in entities' \ ents : e.row \in Listed(conns) /\ e.uid = e.row
  BY <1>1, <1>3, <1>5
<1> QED
  BY <1>1, <1>7, <1>8, <1>9, <1>10, <1>11, <1>12, <1>13, <1>14, <1>15, <1>16
     DEF Tracked, Consistent

-----------------------------------------------------------------------------
(* Remaps                                                                  *)

MovedEntities(ents, remap, moved) ==
  {[e EXCEPT !.row = Renamed(e.row, remap, moved)] : e \in ents}

\* A remap renames rows, devices, known UIDs and live entities alike.
LEMMA RemapTracked ==
  ASSUME NEW rws, NEW devs, NEW known, NEW ents, NEW remap,
         Tracked(rws, devs, known, ents), FreshTargets(remap)
  PROVE  LET moved == Applied(rws, devs, remap) IN
         Tracked(RemapRows(rws, remap, moved), RemapUids(devs, remap, moved),
                 [p \in Platform |-> RemapUids(known[p], remap, moved)],
                 MovedEntities(ents, remap, moved))
<1> DEFINE moved == Applied(rws, devs, remap)
           ren(u) == Renamed(u, remap, moved)
           row(r) == [r EXCEPT !.uid = ren(r.uid)]
           entity(e) == [e EXCEPT !.row = ren(e.row)]
           rws2 == RemapRows(rws, remap, moved)
           ents2 == MovedEntities(ents, remap, moved)
           known2 == [p \in Platform |-> RemapUids(known[p], remap, moved)]
<1>1. rws2 = {row(r) : r \in rws} /\ ents2 = {entity(e) : e \in ents}
  BY DEF RemapRows, MovedEntities
<1>2. \A u \in Uid : ren(u) \in Uid
  BY DEF Renamed, FreshTargets, Applied
<1>3. ASSUME NEW r \in rws
      PROVE  /\ row(r) \in Row /\ row(r).platform = r.platform
             /\ row(r).uid = ren(r.uid)
  BY <1>2 DEF Tracked, Row
<1>4. ASSUME NEW e \in ents
      PROVE  /\ entity(e) \in Entity /\ entity(e).platform = e.platform
             /\ entity(e).row = ren(e.row) /\ entity(e).uid = e.uid
  BY <1>2 DEF Tracked, Entity
<1>5. UniqueKeys(rws2)
  <2>1. rws \in SUBSET Rows(Platform, Name) /\ UniqueKeys(rws)
    BY DEF Tracked, Consistent, Row, Rows
  <2> QED
    BY <2>1, RemapKeepsKeysUnique
<1>6. ASSUME NEW e \in ents
      PROVE  \E r \in rws : r.platform = e.platform /\ r.uid = e.row
  BY DEF Tracked, Consistent, HasKey
<1>7. ASSUME NEW e \in ents, NEW f \in ents,
             e.platform = f.platform, ren(e.row) = ren(f.row)
      PROVE  e = f
  <2>1. PICK r \in rws : r.platform = e.platform /\ r.uid = e.row
    BY <1>6
  <2>2. PICK s \in rws : s.platform = f.platform /\ s.uid = f.row
    BY <1>6
  <2>3. UniqueKeys(rws)
    BY DEF Tracked, Consistent
  <2>4. r = s
    BY <1>7, <2>1, <2>2, <2>3, RenamedRowsApart
  <2> QED
    BY <1>7, <2>1, <2>2, <2>4 DEF Tracked, Consistent
<1> HIDE DEF row, entity, rws2, ents2
<1>8. \A e \in ents2 : HasKey(rws2, e.platform, e.row)
  BY <1>1, <1>3, <1>4, <1>6 DEF HasKey
<1>9. \A e, f \in ents2 : e.platform = f.platform /\ e.row = f.row => e = f
  BY <1>1, <1>4, <1>7
<1>10. RemapUids(devs, remap, moved) = UidsOf(rws2)
  <2>1. UidsOf(rws2) = {ren(r.uid) : r \in rws}
    BY <1>1, <1>3 DEF UidsOf
  <2>2. devs = {r.uid : r \in rws}
    BY DEF Tracked, Consistent, UidsOf
  <2> HIDE DEF ren
  <2>3. {ren(u) : u \in devs} = {ren(r.uid) : r \in rws}
    BY <2>2
  <2> QED
    BY <2>1, <2>3 DEF RemapUids, ren
<1>11. known2 \in [Platform -> SUBSET Uid]
  BY <1>2 DEF Tracked, RemapUids
<1>12. ASSUME NEW p \in Platform
       PROVE  known2[p] = RowsLive(p, ents2)
  <2>1. known2[p] = {ren(u) : u \in RowsLive(p, ents)}
    BY DEF Tracked, RemapUids
  <2>2. RowsLive(p, ents2) = {ren(e.row) : e \in {f \in ents : f.platform = p}}
    BY <1>1, <1>4 DEF RowsLive
  <2> HIDE DEF ren
  <2>3. {ren(u) : u \in RowsLive(p, ents)} = {ren(e.row) : e \in {f \in ents : f.platform = p}}
    BY DEF RowsLive
  <2> QED
    BY <2>1, <2>2, <2>3
<1>13. rws2 \subseteq Row /\ ents2 \subseteq Entity
  BY <1>1, <1>3, <1>4
<1> QED
  BY <1>5, <1>8, <1>9, <1>10, <1>11, <1>12, <1>13 DEF Tracked, Consistent, rws2, ents2

\* What the coordinator proposes leads from UIDs it has seen to UIDs it has not,
\* so no target is itself renamed.
LEMMA ProposedTargetsFresh ==
  ASSUME TypeOK, NEW conns \in Listing
  PROVE  FreshTargets(RemapProposed(conns))
<1> DEFINE remap == RemapProposed(conns)
<1>1. \A u \in DOMAIN remap : u \in Removed(conns) /\ remap[u] \in Added(conns)
  BY ProposedRemap
<1>2. \A u, v \in DOMAIN remap : remap[u] = remap[v] => u = v
  BY ProposedRemap
<1> HIDE DEF remap
<1>3. \A u \in DOMAIN remap : remap[u] \in Uid \ DOMAIN remap
  BY <1>1, ListedType DEF Removed, Added
<1> QED
  BY <1>2, <1>3 DEF FreshTargets, remap

-----------------------------------------------------------------------------
(* The inductive invariant                                                 *)

LEMMA IInvImplies == IInv => RegistryConsistent /\ KnownUidsAreLive
<1> SUFFICES ASSUME IInv PROVE RegistryConsistent /\ KnownUidsAreLive
  OBVIOUS
<1>1. devices \subseteq Uid
  BY DEF IInv, Tracked, Consistent, UidsOf, Row
<1>2. ITypeOK
  BY <1>1 DEF IInv, Inv, WorldType, Tracked, ITypeOK
<1>3. RegistryConsistent
  BY <1>2 DEF IInv, Tracked, Consistent, RegistryConsistent
<1>4. KnownUidsAreLive
  BY DEF IInv, Tracked, RowsLive, KnownUidsAreLive
<1> QED
  BY <1>3, <1>4

LEMMA NamedIsListing ==
  ASSUME NEW conns, Named(conns)
  PROVE  conns \in Listing
BY DEF Named, Listing

LEMMA ListingOfNamed ==
  ASSUME NEW vpns \in SUBSET Name, NEW numbers
  PROVE  Named(ListingOf(vpns, numbers))
BY DEF ListingOf, Named

\* Of a list with names, every name is remembered.
LEMMA RememberNamed ==
  ASSUME NEW names, NEW conns, Named(conns), NEW u \in Uid
  PROVE  Remember(names, conns)[u] = IF u \in Listed(conns) THEN conns[u] ELSE names[u]
BY NameAssumption DEF Remember, Named, Listed

LEMMA NoConnectionsNamed == Named(NoConnections)
BY DEF NoConnections, Named

LEMMA IInitInv == IInit => IInv
<1> SUFFICES ASSUME IInit PROVE IInv
  OBVIOUS
<1> DEFINE row(k) == [platform |-> k[1], uid |-> number[k[2]], vpn |-> k[2]]
           entity(k) == [platform |-> k[1], uid |-> k[2], row |-> k[2]]
<1>1. /\ on_box \in SUBSET Name /\ number \in [Name -> Uid \union {Absent}]
      /\ \A v \in Name : number[v] = Absent <=> v \notin on_box
      /\ \A v, w \in on_box : number[v] = number[w] => v = w
      /\ used_uids = {number[v] : v \in on_box}
      /\ renumberings = [load |-> 0, all |-> 0]
      /\ loaded = TRUE
      /\ listing = ListingOf(on_box, number)
      /\ FirstRefreshed
      /\ devices = used_uids
      /\ known_uids = [p \in Platform |-> used_uids]
  BY DEF IInit, FullListing
<1>2. /\ rows = {row(k) : k \in Platform \X on_box}
      /\ entities = {entity(k) : k \in Platform \X used_uids}
  BY DEF IInit
<1>3. Named(listing) /\ used_uids \subseteq Uid
  BY <1>1, ListingOfNamed
<1>4. WorldType
  <2>1. /\ renumberings \in [load : 0 .. MaxRenumberings, all : 0 .. MaxRenumberings]
        /\ renumberings.load <= renumberings.all
    BY <1>1, RenumberingsAssumption
  <2>2. on_box \subseteq Name /\ loaded \in BOOLEAN
    BY <1>1
  <2> QED
    BY <1>1, <1>3, <2>1, <2>2 DEF WorldType
<1>5. Inv
  <2>1. listing \in Listing
    BY <1>3, NamedIsListing
  <2> QED
    BY <1>1, <2>1, FirstRefreshedInv
<1>6. ASSUME NEW k \in Platform \X on_box
      PROVE  /\ row(k) \in Row /\ row(k).platform = k[1]
             /\ row(k).uid = number[k[2]] /\ number[k[2]] \in used_uids
  <2>1. k[1] \in Platform /\ k[2] \in on_box
    OBVIOUS
  <2>2. number[k[2]] \in used_uids
    BY <1>1, <2>1
  <2> QED
    BY <1>1, <1>3, <2>1, <2>2 DEF Row
<1>7. ASSUME NEW k \in Platform \X used_uids
      PROVE  /\ entity(k) \in Entity /\ entity(k).platform = k[1] /\ entity(k).row = k[2]
             /\ k[1] \in Platform /\ k[2] \in used_uids
  <2>1. k[1] \in Platform /\ k[2] \in used_uids
    OBVIOUS
  <2> QED
    BY <1>3, <2>1 DEF Entity
<1>8. \A p \in Platform, u \in used_uids :
        /\ \E k \in Platform \X on_box : k[1] = p /\ number[k[2]] = u
        /\ \E k \in Platform \X used_uids : k[1] = p /\ k[2] = u
  <2> SUFFICES ASSUME NEW p \in Platform, NEW u \in used_uids
               PROVE  /\ \E k \in Platform \X on_box : k[1] = p /\ number[k[2]] = u
                      /\ \E k \in Platform \X used_uids : k[1] = p /\ k[2] = u
    OBVIOUS
  <2>1. PICK v \in on_box : number[v] = u
    BY <1>1
  <2>2. <<p, v>> \in Platform \X on_box /\ <<p, u>> \in Platform \X used_uids
    OBVIOUS
  <2> QED
    BY <2>1, <2>2
<1>9. UniqueKeys(rows)
  <2>1. ASSUME NEW k \in Platform \X on_box, NEW m \in Platform \X on_box,
               k[1] = m[1], number[k[2]] = number[m[2]]
        PROVE  k = m
    <3>1. k[2] \in on_box /\ m[2] \in on_box
      OBVIOUS
    <3>2. k[2] = m[2]
      BY <1>1, <2>1, <3>1
    <3> QED
      BY <2>1, <3>2
  <2> HIDE DEF row
  <2> QED
    BY <1>2, <1>6, <2>1 DEF UniqueKeys
<1> HIDE DEF row, entity
<1>10. rows \subseteq Row /\ entities \subseteq Entity
  BY <1>2, <1>6, <1>7
<1>11. \A e \in entities : HasKey(rows, e.platform, e.row)
  BY <1>2, <1>6, <1>7, <1>8 DEF HasKey
<1>12. \A e, f \in entities : e.platform = f.platform /\ e.row = f.row => e = f
  BY <1>2, <1>7
<1>13. devices = UidsOf(rows)
  <2>1. UidsOf(rows) \subseteq used_uids
    BY <1>2, <1>6 DEF UidsOf
  <2>2. used_uids \subseteq UidsOf(rows)
    <3>1. PICK p \in Platform : TRUE
      BY PlatformAssumption
    <3> QED
      BY <1>2, <1>6, <1>8, <3>1 DEF UidsOf
  <2> QED
    BY <1>1, <2>1, <2>2
<1>14. \A p \in Platform : known_uids[p] = RowsLive(p, entities)
  <2> SUFFICES ASSUME NEW p \in Platform PROVE used_uids = RowsLive(p, entities)
    BY <1>1
  <2>1. RowsLive(p, entities) \subseteq used_uids
    BY <1>2, <1>7 DEF RowsLive
  <2>2. used_uids \subseteq RowsLive(p, entities)
    BY <1>2, <1>7, <1>8 DEF RowsLive
  <2> QED
    BY <2>1, <2>2
<1>15. Tracked(rows, devices, known_uids, entities)
  BY <1>1, <1>3, <1>9, <1>10, <1>11, <1>12, <1>13, <1>14 DEF Tracked, Consistent
<1>16. \A p \in Platform : Listed(data) \subseteq known_uids[p]
  <2>1. Listed(data) \subseteq used_uids
    <3>1. data = ListingOf(on_box, number)
      BY <1>1 DEF FirstRefreshed
    <3>2. ASSUME NEW u \in Listed(data)
          PROVE  u \in used_uids
      BY <1>1, <3>1 DEF Listed, ListingOf
    <3> QED
      BY <3>2
  <2> QED
    BY <1>1, <2>1
<1> QED
  BY <1>4, <1>5, <1>15, <1>16 DEF IInv

\* The polls, and nothing else, change the registries of a loaded entry.
LEMMA IPollInv ==
  ASSUME IInv, IPoll
  PROVE  IInv'
<1>1. /\ Inv /\ WorldType /\ loaded /\ Named(listing) /\ listing \in Listing
      /\ Tracked(rows, devices, known_uids, entities)
  BY NamedIsListing DEF IInv, WorldType, IPoll
<1>2. /\ UNCHANGED <<world, loaded>>
      /\ IPollRecovering \/ IPollTracked \/ IPollFails
  BY DEF IPoll
<1>3. Poll
  <2>1. ASSUME IPollRecovering
        PROVE  Poll
    <3>1. PICK moved : PollRecovering(moved)
      BY <2>1 DEF IPollRecovering
    <3>2. moved \subseteq DOMAIN RemapProposed(listing)
      BY <3>1 DEF PollRecovering
    <3>3. \A u \in DOMAIN RemapProposed(listing) : u \in Uid
      BY <1>1, ProposedRemap, ListedType DEF Inv, TypeOK, Removed
    <3>4. moved \in SUBSET Uid
      BY <3>2, <3>3
    <3> QED
      BY <3>1, <3>4 DEF Poll
  <2>2. ASSUME IPollTracked PROVE Poll
    BY <2>2 DEF IPollTracked, Poll
  <2>3. ASSUME IPollFails PROVE Poll
    BY <2>3 DEF IPollFails, Poll
  <2> QED
    BY <1>2, <2>1, <2>2, <2>3
<1>4. Inv'
  BY <1>1, <1>3, StepInv DEF Next
<1>5. UNCHANGED box
  BY <1>3 DEF Poll, PollOutage, PollDenied, PollEmptyRefused, PollEmptyAccepted,
              PollRecovering, PollNormal, PollFails, PollSucceeds
<1>6. WorldType'
  BY <1>1, <1>2, <1>5 DEF WorldType, world, box
<1>7. CASE IPollRecovering
  <2> DEFINE remap == RemapProposed(listing)
             moved == Applied(rows, devices, remap)
             known == [p \in Platform |-> RemapUids(known_uids[p], remap, moved)]
  <2>1. /\ PollRecovering(moved)
        /\ AddEntities(listing, RemapRows(rows, remap, moved),
                       RemapUids(devices, remap, moved), known,
                       MovedEntities(entities, remap, moved))
    BY <1>7 DEF IPollRecovering, MovedEntities
  <2>2. FreshTargets(remap)
    BY <1>1, ProposedTargetsFresh DEF Inv
  <2>3. Tracked(RemapRows(rows, remap, moved), RemapUids(devices, remap, moved), known,
                MovedEntities(entities, remap, moved))
    BY <1>1, <2>2, RemapTracked
  <2>4. data' = listing
    BY <2>1 DEF PollRecovering, PollSucceeds
  <2>5. /\ Tracked(rows', devices', known_uids', entities')
        /\ \A p \in Platform : Listed(listing) \subseteq known_uids'[p]
    BY <1>1, <2>1, <2>3, AddEntitiesTracked
  <2> QED
    BY <1>4, <1>6, <2>4, <2>5 DEF IInv
<1>8. CASE IPollTracked
  <2>1. data' = listing
    BY <1>8 DEF IPollTracked, PollNormal, PollEmptyAccepted, PollSucceeds
  <2>2. /\ Tracked(rows', devices', known_uids', entities')
        /\ \A p \in Platform : Listed(listing) \subseteq known_uids'[p]
    BY <1>1, <1>8, AddEntitiesTracked DEF IPollTracked
  <2> QED
    BY <1>4, <1>6, <2>1, <2>2 DEF IInv
<1>9. CASE IPollFails
  <2>1. UNCHANGED <<data, registry>>
    BY <1>9 DEF IPollFails, PollOutage, PollDenied, PollEmptyRefused, PollFails
  <2> QED
    BY <1>1, <1>2, <1>4, <1>6, <2>1 DEF IInv, registry
<1> QED
  BY <1>2, <1>7, <1>8, <1>9

LEMMA ITickInv ==
  ASSUME IInv, ITick
  PROVE  IInv'
<1>1. Tick /\ UNCHANGED <<world, loaded, registry>>
  BY DEF ITick
<1>2. Inv'
  BY <1>1, StepInv DEF IInv, Next
<1>3. UNCHANGED <<data, listing>>
  BY <1>1 DEF Tick, box
<1> QED
  BY <1>1, <1>2, <1>3 DEF IInv, WorldType, world, registry

\* A coordinator and entities that are gone leave nothing to keep but types and
\* the registries.
LEMMA ForgottenInv ==
  ASSUME IInv, Forgotten, UNCHANGED <<box, world>>,
         rows' \subseteq Row, UniqueKeys(rows'), devices' = UidsOf(rows')
  PROVE  IInv'
<1>1. /\ data' = NoConnections /\ last_update_success' = FALSE /\ seen_uids' = {}
      /\ missing_uid_counts' = NoMisses /\ confirmed_orphan_uids' = {}
      /\ uid_names' = [u \in Uid |-> NoName] /\ uid_remap' = [u \in Uid |-> u]
      /\ ClearRecovery /\ reauth_scheduled' = FALSE
      /\ known_uids' = [p \in Platform |-> {}] /\ entities' = {} /\ loaded' = FALSE
  BY DEF Forgotten
<1>2. data' \in Listing
  BY <1>1, NoConnectionsNamed, NamedIsListing
<1>3. missing_uid_counts' \in [Uid -> 0 .. OrphanConfirmPolls]
  BY <1>1, PollsAssumption DEF NoMisses
<1>4. uid_names' \in UidNames /\ uid_remap' \in [Uid -> Uid]
  BY <1>1 DEF UidNames
<1>5. RecoveryType' /\ RecoveryReset'
  BY <1>1, ClearRecoveryType
<1>6. TypeOK'
  BY <1>1, <1>2, <1>3, <1>4, <1>5 DEF TypeOK, RecoveryType, IInv, Inv, box
<1>7. Listed(data') = {}
  BY <1>1 DEF Listed, NoConnections
<1>8. Inv'
  BY <1>1, <1>5, <1>6, <1>7 DEF Inv, NoMissesWhileRecovering, ListedAreSeen
<1>9. WorldType'
  BY <1>1 DEF IInv, WorldType, box, world
<1>10. Tracked(rows', devices', known_uids', entities')
  <2>1. \A p \in Platform : known_uids'[p] = RowsLive(p, entities')
    BY <1>1 DEF RowsLive
  <2> QED
    BY <1>1, <2>1 DEF Tracked, Consistent
<1> QED
  BY <1>1, <1>8, <1>9, <1>10 DEF IInv

LEMMA IUnloadInv ==
  ASSUME IInv, IUnload
  PROVE  IInv'
<1>1. Forgotten /\ UNCHANGED <<box, world>> /\ UNCHANGED rows /\ UNCHANGED devices
  BY DEF IUnload
<1>2. rows' \subseteq Row /\ UniqueKeys(rows') /\ devices' = UidsOf(rows')
  BY <1>1 DEF IInv, Tracked, Consistent
<1> QED
  BY <1>1, <1>2, ForgottenInv

\* The cleanup takes the devices of the rows it removes, and no row of a device it
\* leaves.
LEMMA IRemoveUnavailableInv ==
  ASSUME IInv, IRemoveUnavailable
  PROVE  IInv'
<1> DEFINE gone == Orphaned(rows, Listed(data))
<1>1. /\ Forgotten /\ UNCHANGED <<box, world>>
      /\ rows' = rows \ gone /\ devices' = DevicesAfterRemoval(rows, devices, gone)
  BY DEF IRemoveUnavailable
<1>2. rows \subseteq Row /\ UniqueKeys(rows) /\ devices = UidsOf(rows)
  BY DEF IInv, Tracked, Consistent
<1>3. rows' \subseteq Row /\ UniqueKeys(rows')
  BY <1>1, <1>2 DEF UniqueKeys
<1>4. devices' = UidsOf(rows')
  BY <1>1, <1>2 DEF DevicesAfterRemoval, Orphaned, UidsOf
<1> QED
  BY <1>1, <1>3, <1>4, ForgottenInv

LEMMA ISetupInv ==
  ASSUME IInv, ISetup
  PROVE  IInv'
<1>1. /\ link = "up" /\ loaded' = TRUE /\ data' = listing
      /\ last_update_success' = TRUE /\ seen_uids' = Listed(listing)
      /\ uid_names' = Remember([u \in Uid |-> NoName], listing)
      /\ AddEntities(listing, rows, devices \intersect UidsOf(rows),
                     [p \in Platform |-> {}], {})
      /\ renumberings' = [renumberings EXCEPT !.load = 0]
      /\ UNCHANGED <<box, missing_uid_counts, confirmed_orphan_uids, uid_remap, recovery,
                     reauth_scheduled, on_box, number, used_uids>>
  BY DEF ISetup
<1>2. Named(listing) /\ listing \in Listing
  BY NamedIsListing DEF IInv, WorldType
<1>3. [u \in Uid |-> NoName] \in UidNames
  BY DEF UidNames
<1>4. uid_names' \in UidNames
  BY <1>1, <1>3, RememberType
<1>5. Inv'
  <2>1. TypeOK'
    BY <1>1, <1>2, <1>4, ListedType DEF IInv, Inv, TypeOK, box, recovery
  <2> QED
    BY <1>1, <2>1 DEF IInv, Inv, NoMissesWhileRecovering, ListedAreSeen, RecoveryReset, recovery
<1>6. WorldType'
  <2>1. WorldType /\ UNCHANGED <<listing, on_box, number, used_uids>>
    BY <1>1 DEF IInv, box
  <2>2. /\ renumberings' \in [load : 0 .. MaxRenumberings, all : 0 .. MaxRenumberings]
        /\ renumberings'.load <= renumberings'.all
    BY <1>1, <2>1, RenumberingsAssumption DEF WorldType
  <2>3. loaded' \in BOOLEAN
    BY <1>1
  <2> QED
    BY <2>1, <2>2, <2>3 DEF WorldType
<1>7. Tracked(rows, devices \intersect UidsOf(rows), [p \in Platform |-> {}], {})
  BY DEF IInv, Tracked, Consistent, RowsLive
<1>8. /\ Tracked(rows', devices', known_uids', entities')
      /\ \A p \in Platform : Listed(listing) \subseteq known_uids'[p]
  BY <1>1, <1>2, <1>7, AddEntitiesTracked
<1> QED
  BY <1>1, <1>5, <1>6, <1>8 DEF IInv

\* Whatever box and user do, the box answers with names.
LEMMA BoxChangeInv ==
  ASSUME IInv, BoxChange
  PROVE  IInv'
<1>1. /\ UNCHANGED <<data, last_update_success, tracking, uid_names, uid_remap, recovery,
                     reauth_scheduled, loaded, registry>>
      /\ BoxFails \/ BoxAnswers \/ BoxRenumbers \/ UserCreatesVpn \/ UserDeletesVpn
  BY DEF BoxChange
<1>2. WorldType
  BY DEF IInv
<1>3. link' \in Links /\ WorldType'
  <2>1. CASE BoxFails
    BY <1>1, <1>2, <2>1 DEF BoxFails, Links, WorldType, world
  <2>2. CASE BoxAnswers
    <3>1. PICK vpns \in SUBSET on_box : listing' = ListingOf(vpns, number)
      BY <2>2 DEF BoxAnswers, Shown
    <3>2. Named(listing')
      BY <1>2, <3>1, ListingOfNamed DEF WorldType
    <3> QED
      BY <1>1, <1>2, <2>2, <3>2 DEF BoxAnswers, Links, WorldType, world
  <2>3. CASE BoxRenumbers
    <3>1. PICK n \in [on_box -> Uid] :
            /\ number' = [v \in Name |-> IF v \in on_box THEN n[v] ELSE number[v]]
            /\ used_uids' = used_uids \union {n[v] : v \in on_box}
      BY <2>3 DEF BoxRenumbers
    <3>2. /\ number' \in [Name -> Uid \union {Absent}] /\ used_uids' \subseteq Uid
      BY <1>2, <3>1 DEF WorldType
    <3>3. /\ renumberings.all < MaxRenumberings
          /\ renumberings' = [load |-> renumberings.load + 1, all |-> renumberings.all + 1]
          /\ listing' = NoConnections /\ link' = "outage" /\ UNCHANGED on_box
      BY <2>3 DEF BoxRenumbers
    <3>4. /\ renumberings' \in [load : 0 .. MaxRenumberings, all : 0 .. MaxRenumberings]
          /\ renumberings'.load <= renumberings'.all
      BY <1>2, <3>3, RenumberingsAssumption DEF WorldType
    <3> QED
      BY <1>1, <1>2, <3>2, <3>3, <3>4, NoConnectionsNamed DEF WorldType, Links
  <2>4. CASE UserCreatesVpn
    <3>1. PICK v \in Name, u \in Uid \ used_uids :
            /\ number' = [number EXCEPT ![v] = u]
            /\ on_box' = on_box \union {v}
            /\ used_uids' = used_uids \union {u}
            /\ listing' = ListingOf(on_box \union {v}, number')
      BY <2>4 DEF UserCreatesVpn
    <3>2. Named(listing')
      BY <1>2, <3>1, ListingOfNamed DEF WorldType
    <3>3. link' \in Links /\ UNCHANGED renumberings
      BY <2>4 DEF UserCreatesVpn, Links
    <3> QED
      BY <1>1, <1>2, <3>1, <3>2, <3>3 DEF WorldType
  <2>5. CASE UserDeletesVpn
    <3>1. PICK v \in on_box : on_box' = on_box \ {v} /\ listing' = ListingOf(on_box \ {v}, number)
      BY <2>5 DEF UserDeletesVpn
    <3>2. Named(listing')
      BY <1>2, <3>1, ListingOfNamed DEF WorldType
    <3> QED
      BY <1>1, <1>2, <2>5, <3>1, <3>2 DEF UserDeletesVpn, Links, WorldType
  <2> QED
    BY <1>1, <2>1, <2>2, <2>3, <2>4, <2>5
<1>4. listing' \in Listing
  BY <1>3, NamedIsListing DEF WorldType
<1>5. Inv'
  BY <1>1, <1>3, <1>4 DEF IInv, Inv, TypeOK, NoMissesWhileRecovering, ListedAreSeen,
                          RecoveryReset, tracking, recovery
<1> QED
  BY <1>1, <1>3, <1>5 DEF IInv, registry

LEMMA IStepInv == IInv /\ [INext]_ivars => IInv'
<1> SUFFICES ASSUME IInv, [INext]_ivars PROVE IInv'
  OBVIOUS
<1>1. CASE UNCHANGED ivars
  <2>1. UNCHANGED vars /\ UNCHANGED <<world, loaded, registry>>
    BY <1>1 DEF ivars
  <2>2. Inv'
    BY <2>1, StepInv DEF IInv
  <2> QED
    BY <2>1, <2>2 DEF vars, box, IInv, WorldType, world, registry
<1> QED
  BY <1>1, IPollInv, ITickInv, ISetupInv, IUnloadInv, IRemoveUnavailableInv, BoxChangeInv
     DEF INext

\* The inductive invariant holds throughout.
THEOREM IInvHolds == ISpec => []IInv
<1> QED
  BY IInitInv, IStepInv, PTL DEF ISpec

\* Whatever the box and the user do: no unique_id twice, a row for every live
\* entity and one entity for a row, a device for every row and none without rows.
THEOREM RegistryConsistentHolds == ISpec => []RegistryConsistent
<1>1. IInv => RegistryConsistent
  BY IInvImplies
<1> QED
  BY <1>1, IInvHolds, PTL

\* known_uids is what is live, and everything listed is.
THEOREM KnownUidsAreLiveHolds == ISpec => []KnownUidsAreLive
<1>1. IInv => KnownUidsAreLive
  BY IInvImplies
<1> QED
  BY <1>1, IInvHolds, PTL

-----------------------------------------------------------------------------
(* The VPN a UID stands for, on any box that hands out no UID twice        *)

\* own[u] is the VPN that u was handed out for.  A number says how late: of the UIDs
\* of a VPN, the one it has is the latest, and remaps lead to later ones, so that
\* no walk along them comes back.
Owned(own) ==
  /\ \A v \in Name : number[v] # Absent => number[v] \in used_uids /\ own[number[v]] = v
  /\ \A v \in on_box : number[v] # Absent
  /\ \A u \in Uid : own[u] \in Name => u \in used_uids /\ number[own[u]] # Absent
  /\ \A r \in rows : own[r.uid] = r.vpn
  /\ \A u \in Uid : uid_names[u] \in Name => own[u] = uid_names[u]
  /\ \A u \in Listed(data) : data[u] \in Name /\ own[u] = data[u]
  /\ \A u \in Listed(listing) : listing[u] \in Name /\ number[listing[u]] = u
  /\ \A u \in Uid : uid_remap[u] # u =>
       /\ uid_names[u] \notin Name /\ u \notin Listed(data)
       /\ own[u] \in Name /\ own[uid_remap[u]] = own[u]

Aged(own, age) ==
  /\ \A u \in Uid : age[u] <= renumberings.all
  /\ \A u \in Uid : own[u] \in Name /\ number[own[u]] # u => age[u] < age[number[own[u]]]
  /\ \A u \in Uid : uid_remap[u] # u => age[u] < age[uid_remap[u]]

\* end[u] is where the remaps lead from u: for an entity, to its row.
Leads(end) ==
  /\ \A u \in Uid : uid_remap[u] = u => end[u] = u
  /\ \A u \in Uid : end[uid_remap[u]] = end[u]
  /\ \A e \in entities : e.row = end[e.uid]

Owners == [Uid -> Name \union {Absent}]
Ages == [Uid -> 0 .. MaxRenumberings]

OwnerInv ==
  /\ \E own \in Owners : Owned(own) /\ \E age \in Ages : Aged(own, age)
  /\ \E end \in [Uid -> Uid] : Leads(end)

LEMMA LeastOf ==
  ASSUME NEW T \in SUBSET Nat, T # {}
  PROVE  \E n \in T : \A m \in T : n <= m
<1>1. PICK n \in T : \A m \in T : <<m, n>> \notin OpToRel(<, Nat)
  BY WFMin, NatLessThanWellFounded
<1>2. \A m \in T : ~ (m < n)
  BY <1>1 DEF OpToRel
<1> QED
  BY <1>2

\* What resolve_connection_uid is a fixed point of.
WalkStep(walk) ==
  [visited \in SUBSET Uid |->
     [u \in Uid |-> IF uid_remap[u] = u \/ u \in visited THEN u
                    ELSE walk[visited \union {u}][uid_remap[u]]]]

Walks(walk) ==
  \A visited \in SUBSET Uid, u \in Uid :
    walk[visited][u] = IF uid_remap[u] = u \/ u \in visited THEN u
                       ELSE walk[visited \union {u}][uid_remap[u]]

LEMMA FixedPointWalks ==
  ASSUME NEW walk, walk = WalkStep(walk)
  PROVE  Walks(walk)
<1> SUFFICES ASSUME NEW visited \in SUBSET Uid, NEW u \in Uid
             PROVE  walk[visited][u] = IF uid_remap[u] = u \/ u \in visited THEN u
                                       ELSE walk[visited \union {u}][uid_remap[u]]
  BY DEF Walks
<1> DEFINE steps(w, v) == [x \in Uid |-> IF uid_remap[x] = x \/ x \in v THEN x
                                         ELSE w[v \union {x}][uid_remap[x]]]
<1>1. WalkStep(walk) = [v \in SUBSET Uid |-> steps(walk, v)]
  BY DEF WalkStep
<1> HIDE DEF steps
<1>2. walk[visited] = steps(walk, visited)
  BY <1>1
<1> QED
  BY <1>2 DEF steps

\* resolve_connection_uid ends where the remaps lead, however many there are: of the
\* walks that did not, the one that has come furthest would go on to another.
LEMMA WalkEnds ==
  ASSUME uid_remap \in [Uid -> Uid], NEW age \in Ages, NEW end \in [Uid -> Uid],
         \A u \in Uid : uid_remap[u] # u => age[u] < age[uid_remap[u]],
         \A u \in Uid : uid_remap[u] = u => end[u] = u,
         \A u \in Uid : end[uid_remap[u]] = end[u],
         NEW walk, Walks(walk),
         NEW uid \in Uid
  PROVE  walk[{}][uid] = end[uid]
<1> DEFINE Astray(visited, u) ==
             /\ \A x \in visited : age[x] < age[u]
             /\ walk[visited][u] # end[u]
           left == {n \in Nat : \E visited \in SUBSET Uid, u \in Uid :
                      Astray(visited, u) /\ n = MaxRenumberings - age[u]}
<1>1. \A u \in Uid : age[u] \in Nat /\ MaxRenumberings - age[u] \in Nat
  BY RenumberingsAssumption DEF Ages
<1>2. ASSUME NEW visited \in SUBSET Uid, NEW u \in Uid, Astray(visited, u)
      PROVE  \E v2 \in SUBSET Uid, u2 \in Uid : Astray(v2, u2) /\ age[u] < age[u2]
  <2>1. u \notin visited
    BY <1>1, <1>2
  <2>2. uid_remap[u] # u
    BY <1>2 DEF Walks
  <2> DEFINE v2 == visited \union {u}
             u2 == uid_remap[u]
  <2>3. walk[visited][u] = walk[v2][u2]
    BY <2>1, <2>2 DEF Walks
  <2>4. age[u] < age[u2] /\ end[u2] = end[u] /\ u2 \in Uid /\ v2 \in SUBSET Uid
    BY <2>2
  <2>5. \A x \in v2 : age[x] < age[u2]
    BY <1>1, <1>2, <2>4
  <2> QED
    BY <1>2, <2>3, <2>4, <2>5
<1> HIDE DEF Astray
<1>3. left = {}
  <2> SUFFICES ASSUME left # {} PROVE FALSE
    OBVIOUS
  <2>1. PICK n \in left : \A m \in left : n <= m
    BY LeastOf
  <2>2. PICK visited \in SUBSET Uid, u \in Uid :
          Astray(visited, u) /\ n = MaxRenumberings - age[u]
    BY <2>1
  <2>3. PICK v2 \in SUBSET Uid, u2 \in Uid : Astray(v2, u2) /\ age[u] < age[u2]
    BY <1>2, <2>2
  <2>4. MaxRenumberings - age[u2] \in left
    BY <1>1, <2>3
  <2> QED
    BY <1>1, <2>1, <2>2, <2>3, <2>4, RenumberingsAssumption
<1>4. ~Astray({}, uid)
  BY <1>1, <1>3
<1> QED
  BY <1>4 DEF Astray

\* There is such a walk: it stops at the first UID on the way that is visited or
\* leads nowhere.
Onward(u) ==
  {x \in Uid : \A S \in SUBSET Uid : u \in S /\ (\A y \in S : uid_remap[y] \in S) => x \in S}

LEMMA OnwardIs ==
  ASSUME uid_remap \in [Uid -> Uid], NEW age \in Ages,
         \A u \in Uid : uid_remap[u] # u => age[u] < age[uid_remap[u]],
         NEW u \in Uid
  PROVE  /\ u \in Onward(u)
         /\ \A x \in Onward(u) : x = u \/ age[u] < age[x]
         /\ uid_remap[u] # u => Onward(u) = {u} \union Onward(uid_remap[u])
<1>1. u \in Onward(u)
  BY DEF Onward
<1>2. \A v \in Uid : v \in Onward(v) /\ \A y \in Onward(v) : uid_remap[y] \in Onward(v)
  BY DEF Onward
<1>3. \A x \in Onward(u) : x = u \/ age[u] < age[x]
  <2> DEFINE later == {x \in Uid : x = u \/ age[u] < age[x]}
  <2>1. \A x \in Uid : age[x] \in Nat
    BY RenumberingsAssumption DEF Ages
  <2>2. \A y \in later : uid_remap[y] \in later
    BY <2>1
  <2>3. later \in SUBSET Uid /\ u \in later
    OBVIOUS
  <2> QED
    BY <2>2, <2>3 DEF Onward
<1>4. {u} \union Onward(uid_remap[u]) \subseteq Onward(u)
  <2> SUFFICES ASSUME NEW x \in Onward(uid_remap[u]), NEW S \in SUBSET Uid,
                      u \in S, \A y \in S : uid_remap[y] \in S
               PROVE  x \in S
    BY <1>1 DEF Onward
  <2> QED
    BY DEF Onward
<1>5. Onward(u) \subseteq {u} \union Onward(uid_remap[u])
  <2> DEFINE S == {u} \union Onward(uid_remap[u])
  <2>1. S \in SUBSET Uid /\ u \in S
    BY DEF Onward
  <2>2. \A y \in S : uid_remap[y] \in S
    BY <1>2
  <2> HIDE DEF S
  <2>3. Onward(u) \subseteq S
    BY <2>1, <2>2 DEF Onward
  <2> QED
    BY <2>3 DEF S
<1> QED
  BY <1>1, <1>3, <1>4, <1>5

LEMMA WalkExists ==
  ASSUME uid_remap \in [Uid -> Uid], NEW age \in Ages,
         \A u \in Uid : uid_remap[u] # u => age[u] < age[uid_remap[u]]
  PROVE  \E walk : walk = WalkStep(walk)
<1> DEFINE Stops(visited, u) == {x \in Onward(u) : uid_remap[x] = x \/ x \in visited}
           First(S) == CHOOSE x \in S : \A y \in S : age[x] <= age[y]
           walk == [visited \in SUBSET Uid |-> [u \in Uid |-> First(Stops(visited, u))]]
<1>1. \A x \in Uid : age[x] \in Nat
  BY RenumberingsAssumption DEF Ages
<1>2. ASSUME NEW visited \in SUBSET Uid, NEW u \in Uid, uid_remap[u] = u \/ u \in visited
      PROVE  First(Stops(visited, u)) = u
  <2>1. u \in Stops(visited, u)
    BY <1>2, OnwardIs
  <2>2. \A x \in Stops(visited, u) : x \in Uid /\ (x = u \/ age[u] < age[x])
    BY OnwardIs DEF Onward
  <2> HIDE DEF Stops
  <2>3. \A x \in Stops(visited, u) : (\A y \in Stops(visited, u) : age[x] <= age[y]) <=> x = u
    BY <1>1, <2>1, <2>2
  <2> QED
    BY <2>1, <2>3
<1>3. ASSUME NEW visited \in SUBSET Uid, NEW u \in Uid, uid_remap[u] # u, u \notin visited
      PROVE  Stops(visited, u) = Stops(visited \union {u}, uid_remap[u])
  <2>1. Onward(u) = {u} \union Onward(uid_remap[u])
    BY <1>3, OnwardIs
  <2>2. u \notin Onward(uid_remap[u])
    <3>1. \A x \in Onward(uid_remap[u]) : x = uid_remap[u] \/ age[uid_remap[u]] < age[x]
      BY OnwardIs
    <3>2. age[u] < age[uid_remap[u]]
      BY <1>3
    <3> QED
      BY <1>1, <1>3, <3>1, <3>2
  <2> QED
    BY <1>3, <2>1, <2>2
<1> HIDE DEF Stops, First
<1>4. walk = WalkStep(walk)
  <2> DEFINE before(visited) == [u \in Uid |-> First(Stops(visited, u))]
             after(visited) == [u \in Uid |-> IF uid_remap[u] = u \/ u \in visited THEN u
                                              ELSE walk[visited \union {u}][uid_remap[u]]]
  <2>1. ASSUME NEW visited \in SUBSET Uid, NEW u \in Uid
        PROVE  First(Stops(visited, u)) =
                 IF uid_remap[u] = u \/ u \in visited THEN u
                 ELSE walk[visited \union {u}][uid_remap[u]]
    BY <1>2, <1>3
  <2>2. walk = [visited \in SUBSET Uid |-> before(visited)]
    OBVIOUS
  <2>3. WalkStep(walk) = [visited \in SUBSET Uid |-> after(visited)]
    BY DEF WalkStep
  <2> HIDE DEF walk
  <2>4. \A visited \in SUBSET Uid : before(visited) = after(visited)
    BY <2>1
  <2> HIDE DEF before, after
  <2> QED
    BY <2>2, <2>3, <2>4
<1> HIDE DEF walk
<1> QED
  BY <1>4

\* An entity resolves its UID to that of its row.
LEMMA EntityResolves ==
  ASSUME IInv, OwnerInv, NEW e \in entities
  PROVE  e.uid \in Uid /\ e.row \in Uid /\ ResolveUid(e.uid) = e.row
<1>1. uid_remap \in [Uid -> Uid] /\ e.uid \in Uid /\ e.row \in Uid
  BY DEF IInv, Inv, TypeOK, Tracked, Entity
<1>2. PICK own \in Owners, age \in Ages : Aged(own, age)
  BY DEF OwnerInv
<1>3. PICK end \in [Uid -> Uid] : Leads(end)
  BY DEF OwnerInv
<1> DEFINE walk == CHOOSE w : w = WalkStep(w)
<1>4. \E w : w = WalkStep(w)
  BY <1>1, <1>2, WalkExists DEF Aged
<1>5. Walks(walk)
  BY <1>4, FixedPointWalks
<1>6. ResolveUid(e.uid) = walk[{}][e.uid]
  BY DEF ResolveUid, WalkStep
<1> HIDE DEF walk
<1>7. walk[{}][e.uid] = end[e.uid]
  BY <1>1, <1>2, <1>3, <1>5, WalkEnds DEF Aged, Leads
<1> QED
  BY <1>1, <1>3, <1>6, <1>7 DEF Leads

LEMMA ListingOfIs ==
  ASSUME NEW vpns \in SUBSET Name, NEW numbers, \A v \in vpns : numbers[v] \in Uid
  PROVE  LET conns == ListingOf(vpns, numbers) IN
         /\ \A u \in Listed(conns) : conns[u] \in vpns /\ numbers[conns[u]] = u
         /\ \A v \in vpns : numbers[v] \in Listed(conns)
<1> DEFINE conns == ListingOf(vpns, numbers)
<1>1. ASSUME NEW u \in Uid, NEW v \in vpns, numbers[v] = u
      PROVE  conns[u] \in vpns /\ numbers[conns[u]] = u
  BY <1>1 DEF ListingOf
<1>2. ASSUME NEW u \in Listed(conns)
      PROVE  \E v \in vpns : numbers[v] = u
  BY DEF Listed, ListingOf
<1>3. Absent \notin vpns
  BY NameAssumption
<1> HIDE DEF conns
<1>4. \A v \in vpns : numbers[v] \in Listed(conns)
  BY <1>1, <1>3 DEF Listed
<1>5. \A u \in Listed(conns) : conns[u] \in vpns /\ numbers[conns[u]] = u
  BY <1>1, <1>2, ListedType
<1> QED
  BY <1>4, <1>5 DEF conns

\* A listed UID is the one its VPN has now, and is not remapped.
LEMMA ListedIsLatest ==
  ASSUME IInv, NEW own \in Owners, NEW age \in Ages, Owned(own), Aged(own, age),
         NEW u \in Listed(listing)
  PROVE  /\ u \in Uid /\ listing[u] \in Name /\ number[listing[u]] = u
         /\ own[u] = listing[u] /\ uid_remap[u] = u
<1>1. u \in Uid /\ listing[u] \in Name /\ number[listing[u]] = u
  BY ListedType DEF Owned
<1>2. own[u] = listing[u]
  BY <1>1, AbsentAssumption DEF Owned
<1>3. \A x \in Uid : age[x] \in Nat /\ uid_remap[x] \in Uid
  BY RenumberingsAssumption DEF Ages, IInv, Inv, TypeOK
<1>4. uid_remap[u] = u
  BY <1>1, <1>2, <1>3 DEF Owned, Aged
<1> QED
  BY <1>1, <1>2, <1>4

LEMMA IInitOwners == IInit => OwnerInv
<1> SUFFICES ASSUME IInit PROVE OwnerInv
  OBVIOUS
<1>1. IInv
  BY IInitInv
<1>2. /\ \A v \in Name : number[v] = Absent <=> v \notin on_box
      /\ \A v, w \in on_box : number[v] = number[w] => v = w
      /\ used_uids = {number[v] : v \in on_box}
      /\ renumberings.all = 0
      /\ listing = FullListing /\ data = listing
      /\ uid_remap = [u \in Uid |-> u]
      /\ uid_names = Remember([u \in Uid |-> NoName], listing)
      /\ rows = {[platform |-> k[1], uid |-> number[k[2]], vpn |-> k[2]] :
                   k \in Platform \X on_box}
      /\ entities = {[platform |-> k[1], uid |-> k[2], row |-> k[2]] :
                       k \in Platform \X used_uids}
  BY DEF IInit, FirstRefreshed
<1>3. on_box \in SUBSET Name /\ \A v \in on_box : number[v] \in Uid
  BY <1>1, <1>2 DEF IInv, WorldType
<1>4. /\ \A u \in Listed(listing) : listing[u] \in on_box /\ number[listing[u]] = u
      /\ \A v \in on_box : number[v] \in Listed(listing)
  BY <1>2, <1>3, ListingOfIs DEF FullListing
<1>5. \A v \in on_box : listing[number[v]] = v
  BY <1>2, <1>4
<1>6. listing \in Owners
  BY <1>1 DEF IInv, WorldType, Named, Owners
<1>7. \A u \in Uid : listing[u] \in Name <=> u \in Listed(listing)
  BY <1>6, NameAssumption DEF Listed, Owners
<1>8. Owned(listing)
  <2>1. \A r \in rows : listing[r.uid] = r.vpn
    BY <1>2, <1>5
  <2>2. \A u \in Uid : uid_names[u] \in Name => listing[u] = uid_names[u]
    BY <1>2, NameAssumption DEF Remember
  <2>3. \A v \in Name : number[v] # Absent => number[v] \in used_uids /\ listing[number[v]] = v
    BY <1>2, <1>5
  <2>4. \A u \in Uid : listing[u] \in Name => u \in used_uids /\ number[listing[u]] # Absent
    BY <1>2, <1>4, <1>7
  <2>5. \A u \in Listed(listing) : listing[u] \in Name
    BY <1>3, <1>4
  <2> QED
    BY <1>2, <1>4, <2>1, <2>2, <2>3, <2>4, <2>5 DEF Owned
<1>9. Aged(listing, [u \in Uid |-> 0])
  BY <1>2, <1>4, <1>7 DEF Aged
<1>10. [u \in Uid |-> 0] \in Ages
  BY RenumberingsAssumption DEF Ages
<1>11. Leads([u \in Uid |-> u])
  <2>1. \A e \in entities : e.uid \in Uid /\ e.row = e.uid
    BY <1>1, <1>2 DEF IInv, Tracked, Entity
  <2> QED
    BY <1>2, <2>1 DEF Leads
<1> QED
  BY <1>6, <1>8, <1>9, <1>10, <1>11 DEF OwnerInv

\* A step that neither hands out nor remaps a UID keeps all that, whatever of the lists,
\* names and rows it forgets, as long as what it learns comes from the list of the box.
LEMMA NothingHandedOut ==
  ASSUME IInv, IInv', OwnerInv,
         UNCHANGED <<number, used_uids>>, on_box' \subseteq on_box,
         renumberings'.all = renumberings.all,
         \/ UNCHANGED uid_remap
         \/ uid_remap' = [u \in Uid |-> u] /\ entities' = {},
         \A u \in Listed(listing') : listing'[u] \in Name /\ number[listing'[u]] = u,
         data' \in {data, listing, NoConnections},
         \A u \in Uid : uid_names'[u] \in Name =>
           \/ uid_names'[u] = uid_names[u]
           \/ uid_names'[u] = listing[u]
           \/ uid_names'[u] = data[u],
         \A r \in rows' \ rows : r.uid \in Listed(listing) /\ r.vpn = listing[r.uid],
         \A e \in entities' \ entities : e.row \in Listed(listing) /\ e.uid = e.row
  PROVE  OwnerInv'
<1>1. PICK own \in Owners, age \in Ages : Owned(own) /\ Aged(own, age)
  BY DEF OwnerInv
<1>2. PICK end \in [Uid -> Uid] : Leads(end)
  BY DEF OwnerInv
<1>3. \A u \in Listed(listing) : /\ u \in Uid /\ listing[u] \in Name /\ number[listing[u]] = u
                                 /\ own[u] = listing[u] /\ uid_remap[u] = u
  BY <1>1, ListedIsLatest
<1>4. \A u \in Uid : listing[u] \in Name => u \in Listed(listing)
  BY NameAssumption DEF Listed
<1>5. \A u \in Uid : data[u] \in Name => u \in Listed(data)
  BY NameAssumption DEF Listed
<1>6. Listed(NoConnections) = {}
  BY DEF Listed, NoConnections
<1>7. \A u \in Listed(data') : u \in Uid /\ data'[u] \in Name /\ own[u] = data'[u]
  BY <1>1, <1>3, <1>6, ListedType DEF Owned
<1>8. \A u \in Uid : uid_names'[u] \in Name => own[u] = uid_names'[u]
  BY <1>1, <1>3, <1>4, <1>5 DEF Owned
<1>9. \A u \in Uid : uid_remap'[u] # u => uid_remap[u] # u /\ uid_remap'[u] = uid_remap[u]
  OBVIOUS
<1>10. \A u \in Uid : uid_remap[u] # u =>
         /\ u \notin Listed(listing) /\ u \notin Listed(data) /\ uid_names[u] \notin Name
         /\ own[u] \in Name /\ own[uid_remap[u]] = own[u]
  BY <1>1, <1>3 DEF Owned
<1>11. \A u \in Uid : uid_remap'[u] # u =>
         /\ uid_names'[u] \notin Name /\ u \notin Listed(data')
         /\ own[u] \in Name /\ own[uid_remap'[u]] = own[u]
  BY <1>4, <1>5, <1>6, <1>9, <1>10
<1>12. \A r \in rows' : own[r.uid] = r.vpn
  BY <1>1, <1>3 DEF Owned
<1>13. Owned(own)'
  BY <1>1, <1>7, <1>8, <1>11, <1>12 DEF Owned
<1>14. Aged(own, age)'
  BY <1>1, <1>9 DEF Aged
<1>15. \E e \in [Uid -> Uid] : Leads(e)'
  <2>1. CASE uid_remap' = [u \in Uid |-> u] /\ entities' = {}
    BY <2>1 DEF Leads
  <2>2. CASE UNCHANGED uid_remap
    BY <1>2, <1>3, <2>2 DEF Leads
  <2> QED
    BY <2>1, <2>2
<1> QED
  BY <1>1, <1>13, <1>14, <1>15 DEF OwnerInv

\* A renumbering or a new VPN hands out UIDs that were not used before: each is the
\* latest of its VPN.
LEMMA FreshOnesHandedOut ==
  ASSUME IInv, IInv', OwnerInv,
         UNCHANGED <<data, uid_names, uid_remap, rows, entities>>,
         used_uids \subseteq used_uids',
         \A v \in Name : number'[v] # Absent => number'[v] \in used_uids',
         \A v \in on_box' : number'[v] # Absent,
         \A v \in Name : \/ number'[v] = number[v]
                         \/ /\ number'[v] \in Uid \ used_uids
                            /\ number[v] = Absent \/ renumberings'.all = renumberings.all + 1,
         \A v, w \in Name : number'[v] = number'[w] /\ number'[v] \notin used_uids \union {Absent}
                              => v = w,
         renumberings'.all >= renumberings.all,
         \A u \in Listed(listing') : listing'[u] \in Name /\ number'[listing'[u]] = u
  PROVE  OwnerInv'
<1>1. PICK own \in Owners, age \in Ages : Owned(own) /\ Aged(own, age)
  BY DEF OwnerInv
<1>2. PICK end \in [Uid -> Uid] : Leads(end)
  BY DEF OwnerInv
<1> DEFINE Fresh(v) == number'[v] # number[v]
           owners == [u \in Uid |-> IF \E v \in Name : Fresh(v) /\ number'[v] = u
                                    THEN CHOOSE v \in Name : Fresh(v) /\ number'[v] = u
                                    ELSE own[u]]
           ages == [u \in Uid |-> IF u \in used_uids THEN age[u] ELSE renumberings'.all]
<1>3. /\ \A u \in Uid : age[u] \in Nat
      /\ renumberings.all \in Nat /\ renumberings'.all \in Nat
      /\ renumberings'.all \in 0 .. MaxRenumberings
  BY RenumberingsAssumption DEF Ages, IInv, WorldType
<1>4. PICK own2 \in Owners : own2 = owners
  BY DEF Owners
<1>5. PICK age2 \in Ages : age2 = ages
  BY <1>3 DEF Ages
<1>6. \A v \in Name : Fresh(v) => number'[v] \in Uid /\ number'[v] \notin used_uids \union {Absent}
  BY AbsentAssumption
<1>7. ASSUME NEW v \in Name, Fresh(v)
      PROVE  own2[number'[v]] = v
  <2>1. \A w \in Name : Fresh(w) /\ number'[w] = number'[v] <=> w = v
    BY <1>6, <1>7
  <2> QED
    BY <1>6, <1>7, <1>4, <2>1
<1>8. \A u \in used_uids : u \in Uid /\ own2[u] = own[u] /\ age2[u] = age[u]
  BY <1>4, <1>5, <1>6 DEF IInv, WorldType
<1>9. ASSUME NEW u \in Uid, own2[u] \in Name
      PROVE  \/ Fresh(own2[u]) /\ number'[own2[u]] = u
             \/ u \in used_uids /\ own[u] = own2[u]
  <2>1. CASE \E v \in Name : Fresh(v) /\ number'[v] = u
    BY <1>7, <2>1
  <2>2. CASE ~ \E v \in Name : Fresh(v) /\ number'[v] = u
    BY <1>1, <1>4, <1>9, <2>2 DEF Owned
  <2> QED
    BY <2>1, <2>2
<1>10. \A u \in Uid : age2[u] \in Nat
  BY RenumberingsAssumption DEF Ages
<1> HIDE DEF owners
<1>11. ASSUME NEW v \in Name, number'[v] # Absent
      PROVE  number'[v] \in used_uids' /\ own2[number'[v]] = v
  <2>1. number[v] # Absent => number[v] \in used_uids /\ own[number[v]] = v
    BY <1>1 DEF Owned
  <2> QED
    BY <1>7, <1>8, <1>11, <2>1
<1>12. \A u \in Uid : uid_remap[u] # u =>
        /\ u \in used_uids /\ uid_remap[u] \in used_uids
        /\ own[u] \in Name /\ own[uid_remap[u]] = own[u] /\ age[u] < age[uid_remap[u]]
  BY <1>1 DEF Owned, Aged, IInv, Inv, TypeOK
<1>13. Owned(own2)'
  <2>1. \A u \in Uid : own2[u] \in Name => u \in used_uids' /\ number'[own2[u]] # Absent
    BY <1>1, <1>6, <1>9 DEF Owned
  <2>2. \A r \in rows : own2[r.uid] = r.vpn
    <3> SUFFICES ASSUME NEW r \in rows PROVE own2[r.uid] = r.vpn
      OBVIOUS
    <3>1. r.uid \in Uid /\ r.vpn \in Name
      BY DEF IInv, Tracked, Row
    <3> QED
      BY <1>1, <1>8, <3>1 DEF Owned
  <2>3. \A u \in Uid : uid_names[u] \in Name => own2[u] = uid_names[u]
    BY <1>1, <1>8 DEF Owned
  <2>4. \A u \in Listed(data) : data[u] \in Name /\ own2[u] = data[u]
    BY <1>1, <1>8, ListedType DEF Owned
  <2>5. \A u \in Uid : uid_remap[u] # u =>
          /\ uid_names[u] \notin Name /\ u \notin Listed(data)
          /\ own2[u] \in Name /\ own2[uid_remap[u]] = own2[u]
    BY <1>1, <1>8, <1>12 DEF Owned
  <2> QED
    BY <1>11, <2>1, <2>2, <2>3, <2>4, <2>5 DEF Owned
<1>14. Aged(own2, age2)'
  <2>1. \A u \in Uid : age2[u] <= renumberings'.all
    BY <1>1, <1>3, <1>5 DEF Aged
  <2>2. ASSUME NEW u \in Uid, own2[u] \in Name, number'[own2[u]] # u
        PROVE  age2[u] < age2[number'[own2[u]]]
    <3> DEFINE v == own2[u]
    <3>1. u \in used_uids /\ own[u] = v /\ v \in Name /\ age2[u] = age[u]
      BY <1>8, <1>9, <2>2
    <3>2. number[v] # Absent
      BY <1>1, <3>1 DEF Owned
    <3>3. CASE number'[v] = number[v]
      <4>1. number[v] \in used_uids
        BY <1>1, <3>1, <3>2 DEF Owned
      <4> QED
        BY <1>1, <1>8, <2>2, <3>1, <3>3, <4>1 DEF Aged
    <3>4. CASE number'[v] # number[v]
      <4>1. renumberings'.all = renumberings.all + 1 /\ number'[v] \in Uid \ used_uids
        BY <3>1, <3>2, <3>4
      <4>2. age2[number'[v]] = renumberings'.all
        BY <1>5, <4>1
      <4>3. age[u] <= renumberings.all
        BY <1>1 DEF Aged
      <4> QED
        BY <1>3, <3>1, <4>1, <4>2, <4>3
    <3> QED
      BY <3>3, <3>4
  <2>3. \A u \in Uid : uid_remap[u] # u => age2[u] < age2[uid_remap[u]]
    BY <1>8, <1>12
  <2> QED
    BY <2>1, <2>2, <2>3 DEF Aged
<1>15. Leads(end)'
  BY <1>2 DEF Leads
<1> QED
  BY <1>13, <1>14, <1>15 DEF OwnerInv

\* What AddEntities adds comes from the list.
LEMMA AddedFromListing ==
  ASSUME NEW conns, NEW rws, NEW devs, NEW known, NEW ents,
         AddEntities(conns, rws, devs, known, ents)
  PROVE  /\ rws \subseteq rows'
         /\ \A r \in rows' \ rws : r.uid \in Listed(conns) /\ r.vpn = conns[r.uid]
         /\ \A e \in entities' \ ents : e.row \in Listed(conns) /\ e.uid = e.row
<1> DEFINE row(k) == [platform |-> k[1], uid |-> k[2], vpn |-> conns[k[2]]]
           entity(k) == [platform |-> k[1], uid |-> k[2], row |-> k[2]]
<1>1. /\ rws \subseteq rows'
      /\ \A r \in rows' \ rws : \E k \in Platform \X Listed(conns) : r = row(k)
      /\ \A e \in entities' \ ents : \E k \in Platform \X Listed(conns) : e = entity(k)
  BY DEF AddEntities
<1>2. \A k \in Platform \X Listed(conns) :
        /\ row(k).uid \in Listed(conns) /\ row(k).vpn = conns[row(k).uid]
        /\ entity(k).row \in Listed(conns) /\ entity(k).uid = entity(k).row
  OBVIOUS
<1> HIDE DEF row, entity
<1> QED
  BY <1>1, <1>2

\* A remap leads from UIDs whose VPNs have another one by now to the ones they have.
LEMMA RemapToLatest ==
  ASSUME IInv, NEW own \in Owners, NEW age \in Ages, Owned(own), Aged(own, age)
  PROVE  LET remap == RemapProposed(listing) IN
         \A u \in DOMAIN remap :
           /\ u \in Uid /\ u \notin Listed(listing)
           /\ remap[u] \in Uid /\ remap[u] \in Listed(listing) /\ uid_remap[remap[u]] = remap[u]
           /\ own[u] \in Name /\ own[remap[u]] = own[u]
           /\ age[u] < age[remap[u]]
           /\ uid_remap[u] = u
<1> DEFINE remap == RemapProposed(listing)
<1> SUFFICES ASSUME NEW u \in DOMAIN remap
             PROVE  /\ u \in Uid /\ u \notin Listed(listing)
                    /\ remap[u] \in Uid /\ remap[u] \in Listed(listing)
                    /\ uid_remap[remap[u]] = remap[u]
                    /\ own[u] \in Name /\ own[remap[u]] = own[u]
                    /\ age[u] < age[remap[u]]
                    /\ uid_remap[u] = u
  OBVIOUS
<1>1. TypeOK /\ listing \in Listing
  BY NamedIsListing DEF IInv, Inv, WorldType
<1>2. /\ u \in Removed(listing) /\ remap[u] \in Added(listing)
      /\ uid_names[u] \in Name /\ listing[remap[u]] = uid_names[u]
  BY <1>1, ProposedRemap
<1> HIDE DEF remap
<1>3. u \in Uid /\ u \notin Listed(listing) /\ remap[u] \in Listed(listing)
  BY <1>1, <1>2 DEF Removed, Added, TypeOK
<1>4. own[u] = uid_names[u] /\ uid_remap[u] = u
  BY <1>2, <1>3 DEF Owned
<1>5. /\ remap[u] \in Uid /\ number[listing[remap[u]]] = remap[u]
      /\ own[remap[u]] = listing[remap[u]] /\ uid_remap[remap[u]] = remap[u]
  BY <1>3, ListedIsLatest
<1>6. age[u] < age[remap[u]]
  BY <1>2, <1>3, <1>4, <1>5 DEF Aged
<1> QED
  BY <1>2, <1>3, <1>4, <1>5, <1>6

\* Rows, cached names and entities follow a remap.
LEMMA RecoveringOwners ==
  ASSUME IInv, IInv', OwnerInv, IPoll, IPollRecovering
  PROVE  OwnerInv'
<1> DEFINE remap == RemapProposed(listing)
           moved == Applied(rows, devices, remap)
           row(r) == [r EXCEPT !.uid = Renamed(r.uid, remap, moved)]
           entity(e) == [e EXCEPT !.row = Renamed(e.row, remap, moved)]
           rows0 == {row(r) : r \in rows}
           entities0 == {entity(e) : e \in entities}
           known0 == [p \in Platform |-> RemapUids(known_uids[p], remap, moved)]
<1>1. PICK own \in Owners, age \in Ages : Owned(own) /\ Aged(own, age)
  BY DEF OwnerInv
<1>2. PICK end \in [Uid -> Uid] : Leads(end)
  BY DEF OwnerInv
<1>3. /\ PollRecovering(moved) /\ UNCHANGED <<world, loaded>>
      /\ AddEntities(listing, rows0, RemapUids(devices, remap, moved), known0, entities0)
  BY DEF IPoll, IPollRecovering, RemapRows
<1>4. /\ moved \subseteq DOMAIN remap
      /\ uid_remap' = [u \in Uid |-> IF u \in moved THEN remap[u] ELSE uid_remap[u]]
      /\ uid_names' = [u \in Uid |-> IF u \in moved THEN NoName
                                     ELSE Remember(uid_names, listing)[u]]
      /\ data' = listing /\ UNCHANGED listing
  BY <1>3 DEF PollRecovering, ApplyUidRemap, Redirected, PollSucceeds, box
<1>5. UNCHANGED <<on_box, number, used_uids, renumberings>>
  BY <1>3 DEF world
<1>6. /\ \A r \in rows' \ rows0 : r.uid \in Listed(listing) /\ r.vpn = listing[r.uid]
      /\ \A e \in entities' \ entities0 : e.row \in Listed(listing) /\ e.uid = e.row
  BY <1>3, AddedFromListing
<1>7. \A u \in moved :
        /\ u \in Uid /\ u \notin Listed(listing)
        /\ remap[u] \in Uid /\ remap[u] \in Listed(listing) /\ uid_remap[remap[u]] = remap[u]
        /\ own[u] \in Name /\ own[remap[u]] = own[u]
        /\ age[u] < age[remap[u]]
        /\ uid_remap[u] = u
  BY <1>1, <1>4, RemapToLatest
<1> HIDE DEF remap, moved
<1>8. \A u \in Listed(listing) : /\ u \in Uid /\ listing[u] \in Name /\ number[listing[u]] = u
                                 /\ own[u] = listing[u] /\ uid_remap[u] = u
  BY <1>1, ListedIsLatest
<1>9. \A u \in Uid : u \notin moved =>
        /\ uid_names'[u] \in Name => uid_names'[u] \in {listing[u], uid_names[u]}
        /\ u \notin Listed(listing) => uid_names'[u] = uid_names[u]
  BY <1>4, NameAssumption DEF Remember, Listed
<1>10. \A u \in Uid : listing[u] \in Name => u \in Listed(listing)
  BY NameAssumption DEF Listed
<1>11. \A u \in moved : uid_names'[u] \notin Name
  BY <1>4, <1>7, NameAssumption
<1>12. ASSUME NEW u \in Uid, uid_remap'[u] # u
       PROVE  /\ uid_names'[u] \notin Name /\ u \notin Listed(listing)
              /\ own[u] \in Name /\ own[uid_remap'[u]] = own[u]
              /\ age[u] < age[uid_remap'[u]]
  <2>1. CASE u \in moved
    BY <1>4, <1>7, <1>11, <2>1
  <2>2. CASE u \notin moved
    <3>1. uid_remap'[u] = uid_remap[u] /\ uid_remap[u] # u
      BY <1>4, <1>12, <2>2
    <3>2. u \notin Listed(listing)
      BY <1>8, <3>1
    <3> QED
      BY <1>1, <1>9, <2>2, <3>1, <3>2 DEF Owned, Aged
  <2> QED
    BY <2>1, <2>2
<1>13. \A r \in rows' : own[r.uid] = r.vpn
  <2>1. ASSUME NEW r \in rows
        PROVE  own[row(r).uid] = row(r).vpn
    <3>1. row(r).uid = Renamed(r.uid, remap, moved) /\ row(r).vpn = r.vpn
      BY DEF IInv, Tracked, Row
    <3> QED
      BY <1>1, <1>7, <3>1 DEF Owned, Renamed
  <2> HIDE DEF row
  <2>2. \A r \in rows0 : own[r.uid] = r.vpn
    BY <2>1
  <2> QED
    BY <1>6, <1>8, <2>2
<1>14. Owned(own)'
  <2>1. \A u \in Uid : uid_names'[u] \in Name => own[u] = uid_names'[u]
    BY <1>1, <1>8, <1>9, <1>10, <1>11 DEF Owned
  <2> QED
    BY <1>1, <1>4, <1>5, <1>8, <1>12, <1>13, <2>1 DEF Owned
<1>15. Aged(own, age)'
  BY <1>1, <1>5, <1>12 DEF Aged
<1>16. PICK end2 \in [Uid -> Uid] : \A u \in Uid : end2[u] = Renamed(end[u], remap, moved)
  <2> DEFINE ends == [u \in Uid |-> Renamed(end[u], remap, moved)]
  <2>1. ends \in [Uid -> Uid]
    BY <1>7 DEF Renamed
  <2>2. \A u \in Uid : ends[u] = Renamed(end[u], remap, moved)
    OBVIOUS
  <2> HIDE DEF ends
  <2> QED
    BY <2>1, <2>2
<1>17. Leads(end2)'
  <2>1. ASSUME NEW u \in Uid, uid_remap'[u] = u
        PROVE  end2[u] = u
    <3>1. u \notin moved /\ uid_remap[u] = u
      BY <1>4, <1>7, <2>1
    <3> QED
      BY <1>2, <1>16, <3>1 DEF Leads, Renamed
  <2>2. ASSUME NEW u \in Uid
        PROVE  end2[uid_remap'[u]] = end2[u]
    <3>1. CASE u \in moved
      <4>1. uid_remap'[u] = remap[u] /\ remap[u] \notin moved
        BY <1>4, <1>7, <3>1
      <4>2. end[u] = u /\ end[remap[u]] = remap[u]
        BY <1>2, <1>7, <3>1 DEF Leads
      <4> QED
        BY <1>7, <1>16, <3>1, <4>1, <4>2 DEF Renamed
    <3>2. CASE u \notin moved
      <4>1. uid_remap'[u] = uid_remap[u] /\ uid_remap[u] \in Uid
        BY <1>4, <3>2 DEF IInv, Inv, TypeOK
      <4> QED
        BY <1>2, <1>16, <4>1 DEF Leads
    <3> QED
      BY <3>1, <3>2
  <2>3. \A e \in entities' : e.row = end2[e.uid]
    <3>1. ASSUME NEW e \in entities
          PROVE  entity(e).row = end2[entity(e).uid]
      <4>1. entity(e).row = Renamed(e.row, remap, moved) /\ entity(e).uid = e.uid /\ e.uid \in Uid
        BY DEF IInv, Tracked, Entity
      <4> QED
        BY <1>2, <1>16, <4>1 DEF Leads
    <3> HIDE DEF entity
    <3>2. \A e \in entities0 : e.row = end2[e.uid]
      BY <3>1
    <3>3. \A u \in Listed(listing) : u \in Uid /\ end2[u] = u
      BY <1>7, <1>8, <1>2, <1>16 DEF Leads, Renamed
    <3> QED
      BY <1>6, <3>2, <3>3
  <2> QED
    BY <2>1, <2>2, <2>3 DEF Leads
<1> QED
  BY <1>14, <1>15, <1>17 DEF OwnerInv

LEMMA IPollOwners ==
  ASSUME IInv, IInv', OwnerInv, IPoll
  PROVE  OwnerInv'
<1>1. CASE IPollRecovering
  BY <1>1, RecoveringOwners
<1>2. ASSUME IPollTracked \/ IPollFails
      PROVE  OwnerInv'
  <2>1. UNCHANGED <<world, uid_remap, listing>> /\ data' \in {data, listing}
    BY <1>2 DEF IPoll, IPollTracked, IPollFails, PollNormal, PollEmptyAccepted, PollOutage,
                PollDenied, PollEmptyRefused, PollSucceeds, PollFails, box
  <2>2. /\ \A r \in rows' \ rows : r.uid \in Listed(listing) /\ r.vpn = listing[r.uid]
        /\ \A e \in entities' \ entities : e.row \in Listed(listing) /\ e.uid = e.row
    BY <1>2, AddedFromListing DEF IPollTracked, IPollFails, registry
  <2>3. ASSUME NEW u \in Uid, uid_names'[u] \in Name
        PROVE  \/ uid_names'[u] = uid_names[u]
               \/ uid_names'[u] = listing[u]
               \/ uid_names'[u] = data[u]
    <3>1. \/ uid_names' = Remember(Remember(uid_names, listing), data)
          \/ uid_names' = Remember(uid_names, data)
          \/ uid_names' = uid_names
      BY <1>2 DEF IPollTracked, IPollFails, PollNormal, PollEmptyAccepted, PollOutage,
                  PollDenied, PollEmptyRefused, TrackMissing, ArmRecovery
    <3> QED
      BY <3>1 DEF Remember
  <2>4. PICK own \in Owners : Owned(own)
    BY DEF OwnerInv
  <2> QED
    BY <2>1, <2>2, <2>3, <2>4, NothingHandedOut DEF world, Owned
<1> QED
  BY <1>1, <1>2 DEF IPoll

LEMMA SetupOwners ==
  ASSUME IInv, IInv', OwnerInv, ISetup
  PROVE  OwnerInv'
<1>1. /\ UNCHANGED <<box, on_box, number, used_uids, uid_remap>> /\ data' = listing
      /\ uid_names' = Remember([u \in Uid |-> NoName], listing)
      /\ renumberings' = [renumberings EXCEPT !.load = 0]
      /\ AddEntities(listing, rows, devices \intersect UidsOf(rows), [p \in Platform |-> {}], {})
  BY DEF ISetup
<1>2. renumberings'.all = renumberings.all
  BY <1>1 DEF IInv, WorldType
<1>3. /\ \A r \in rows' \ rows : r.uid \in Listed(listing) /\ r.vpn = listing[r.uid]
      /\ \A e \in entities' : e.row \in Listed(listing) /\ e.uid = e.row
  BY <1>1, AddedFromListing
<1>4. \A u \in Uid : uid_names'[u] \in Name => uid_names'[u] = listing[u]
  BY <1>1, NameAssumption DEF Remember
<1>5. PICK own \in Owners : Owned(own)
  BY DEF OwnerInv
<1> QED
  BY <1>1, <1>2, <1>3, <1>4, <1>5, NothingHandedOut DEF box, Owned

LEMMA ForgottenOwners ==
  ASSUME IInv, IInv', OwnerInv, Forgotten, UNCHANGED <<box, world>>, rows' \subseteq rows
  PROVE  OwnerInv'
<1>1. /\ uid_remap' = [u \in Uid |-> u] /\ entities' = {} /\ data' = NoConnections
      /\ uid_names' = [u \in Uid |-> NoName]
  BY DEF Forgotten
<1>2. \A u \in Uid : uid_names'[u] \notin Name
  BY <1>1, NameAssumption
<1>3. PICK own \in Owners : Owned(own)
  BY DEF OwnerInv
<1> QED
  BY <1>1, <1>2, <1>3, NothingHandedOut DEF box, world, Owned

LEMMA BoxChangeOwners ==
  ASSUME "reuse" \notin Hazards, IInv, IInv', OwnerInv, BoxChange
  PROVE  OwnerInv'
<1>1. PICK own \in Owners : Owned(own)
  BY DEF OwnerInv
<1>2. UNCHANGED <<data, uid_names, uid_remap, rows, entities>>
  BY DEF BoxChange, registry
<1>3. /\ on_box \subseteq Name /\ number \in [Name -> Uid \union {Absent}]
      /\ used_uids \subseteq Uid
      /\ number' \in [Name -> Uid \union {Absent}] /\ on_box' \subseteq Name
      /\ renumberings.all \in Nat
  BY RenumberingsAssumption DEF IInv, WorldType
<1>4. \A v \in on_box : v \in Name /\ number[v] \in Uid /\ number[v] \in used_uids
  BY <1>1, <1>3 DEF Owned
<1>5. CASE BoxFails
  BY <1>1, <1>2, <1>5, NothingHandedOut DEF BoxFails, world, Owned
<1>6. ASSUME NEW vpns \in SUBSET on_box, listing' = ListingOf(vpns, number),
             UNCHANGED <<number, used_uids>>, on_box' \subseteq on_box,
             renumberings'.all = renumberings.all
      PROVE  OwnerInv'
  <2>1. \A u \in Listed(listing') : listing'[u] \in Name /\ number[listing'[u]] = u
    BY <1>3, <1>4, <1>6, ListingOfIs
  <2> QED
    BY <1>2, <1>6, <2>1, NothingHandedOut
<1>7. CASE BoxAnswers
  BY <1>6, <1>7 DEF BoxAnswers, Shown, world
<1>8. CASE UserDeletesVpn
  BY <1>6, <1>8 DEF UserDeletesVpn
<1>9. CASE BoxRenumbers
  <2>1. PICK n \in [on_box -> Uid] :
          /\ \A v, w \in on_box : n[v] = n[w] => v = w
          /\ \A v \in on_box : n[v] = number[v] \/ n[v] \notin used_uids
          /\ number' = [v \in Name |-> IF v \in on_box THEN n[v] ELSE number[v]]
          /\ used_uids' = used_uids \union {n[v] : v \in on_box}
    BY <1>9 DEF BoxRenumbers
  <2>2. /\ listing' = NoConnections /\ UNCHANGED on_box
        /\ renumberings'.all = renumberings.all + 1
    BY <1>9 DEF BoxRenumbers
  <2>3. Listed(listing') = {}
    BY <2>2 DEF Listed, NoConnections
  <2>4. \A v \in Name : \/ number'[v] = number[v]
                        \/ number'[v] \in Uid \ used_uids /\ v \in on_box
    BY <2>1
  <2>5. \A v \in Name : number'[v] # Absent => number'[v] \in used_uids'
    BY <1>1, <2>1 DEF Owned
  <2>6. \A v \in on_box : number'[v] # Absent
    BY <1>3, <2>1, AbsentAssumption
  <2>7. \A v, w \in Name : number'[v] = number'[w] /\ number'[v] \notin used_uids \union {Absent}
                             => v = w
    <3> SUFFICES ASSUME NEW v \in Name, NEW w \in Name, number'[v] = number'[w],
                        number'[v] \notin used_uids \union {Absent}
                 PROVE  v = w
      OBVIOUS
    <3>1. v \in on_box /\ w \in on_box
      BY <1>1, <2>1 DEF Owned
    <3> QED
      BY <2>1, <3>1
  <2>8. used_uids \subseteq used_uids' /\ renumberings'.all >= renumberings.all
    BY <1>3, <2>1, <2>2
  <2> QED
    BY <1>2, <2>2, <2>3, <2>4, <2>5, <2>6, <2>7, <2>8, FreshOnesHandedOut
<1>10. CASE UserCreatesVpn
  <2>1. PICK x \in Name, u \in Uid \ used_uids :
          /\ number[x] = Absent
          /\ number' = [number EXCEPT ![x] = u]
          /\ on_box' = on_box \union {x}
          /\ used_uids' = used_uids \union {u}
          /\ listing' = ListingOf(on_box \union {x}, number')
    BY <1>10 DEF UserCreatesVpn
  <2>2. UNCHANGED renumberings
    BY <1>10 DEF UserCreatesVpn
  <2>3. number'[x] = u /\ \A v \in Name : v # x => number'[v] = number[v]
    BY <1>3, <2>1
  <2>4. \A u2 \in Listed(listing') : listing'[u2] \in Name /\ number'[listing'[u2]] = u2
    <3>1. on_box \union {x} \in SUBSET Name /\ \A v \in on_box \union {x} : number'[v] \in Uid
      BY <1>3, <1>4, <2>3
    <3>2. PICK numbers : numbers = number'
      OBVIOUS
    <3>3. PICK vpns \in SUBSET Name : vpns = on_box \union {x}
      BY <3>1
    <3>4. \A v \in vpns : numbers[v] \in Uid
      BY <3>1, <3>2, <3>3
    <3>5. \A u2 \in Listed(ListingOf(vpns, numbers)) :
            /\ ListingOf(vpns, numbers)[u2] \in vpns
            /\ numbers[ListingOf(vpns, numbers)[u2]] = u2
      BY <3>4, ListingOfIs
    <3> QED
      BY <2>1, <3>2, <3>3, <3>5
  <2>5. \A v \in Name : number'[v] # Absent => number'[v] \in used_uids'
    BY <1>1, <2>1, <2>3 DEF Owned
  <2>6. \A v \in on_box' : number'[v] # Absent
    BY <1>1, <1>4, <2>1, <2>3, AbsentAssumption DEF Owned
  <2>7. \A v, w \in Name : number'[v] = number'[w] /\ number'[v] \notin used_uids \union {Absent}
                             => v = w
    BY <1>1, <2>3 DEF Owned
  <2>8. \A v \in Name : \/ number'[v] = number[v]
                        \/ number'[v] \in Uid \ used_uids /\ number[v] = Absent
    BY <2>1, <2>3
  <2>9. used_uids \subseteq used_uids' /\ renumberings'.all >= renumberings.all
    BY <1>3, <2>1, <2>2
  <2> QED
    BY <1>2, <2>4, <2>5, <2>6, <2>7, <2>8, <2>9, FreshOnesHandedOut
<1> QED
  BY <1>5, <1>7, <1>8, <1>9, <1>10 DEF BoxChange

LEMMA IStepOwners ==
  ASSUME "reuse" \notin Hazards
  PROVE  IInv /\ OwnerInv /\ [INext]_ivars => OwnerInv'
<1> SUFFICES ASSUME IInv, OwnerInv, [INext]_ivars PROVE OwnerInv'
  OBVIOUS
<1>1. IInv'
  BY IStepInv
<1>2. CASE ITick \/ UNCHANGED ivars
  <2>1. PICK own \in Owners : Owned(own)
    BY DEF OwnerInv
  <2>2. UNCHANGED <<world, uid_remap, listing, data, uid_names, rows, entities>>
    BY <1>2 DEF ITick, Tick, box, ivars, vars, registry
  <2> QED
    BY <1>1, <2>1, <2>2, NothingHandedOut DEF world, Owned
<1>3. CASE IUnload \/ IRemoveUnavailable
  BY <1>1, <1>3, ForgottenOwners DEF IUnload, IRemoveUnavailable
<1> QED
  BY <1>1, <1>2, <1>3, IPollOwners, SetupOwners, BoxChangeOwners DEF INext

\* Whatever else the box does, the UIDs it hands out once each stand for one VPN
\* throughout.
THEOREM OwnerInvHolds ==
  ASSUME "reuse" \notin Hazards
  PROVE  ISpec => [](IInv /\ OwnerInv)
<1>1. IInit => IInv /\ OwnerInv
  BY IInitInv, IInitOwners
<1>2. IInv /\ OwnerInv /\ [INext]_ivars => (IInv /\ OwnerInv)'
  BY IStepInv, IStepOwners
<1> QED
  BY <1>1, <1>2, PTL DEF ISpec

LEMMA OwnersImply == IInv /\ OwnerInv => ListedEntityAvailable /\ EntityShowsOwnVpn
<1> SUFFICES ASSUME IInv, OwnerInv PROVE ListedEntityAvailable /\ EntityShowsOwnVpn
  OBVIOUS
<1>1. PICK own \in Owners : Owned(own)
  BY DEF OwnerInv
<1>2. ListedEntityAvailable
  BY EntityResolves DEF ListedEntityAvailable, Available
<1>3. EntityShowsOwnVpn
  <2> SUFFICES ASSUME NEW e \in entities, NEW r \in rows, Available(e), r.uid = e.row
               PROVE  data[ResolveUid(e.uid)] = r.vpn
    BY DEF EntityShowsOwnVpn
  <2>1. e.row \in Listed(data) /\ ResolveUid(e.uid) = e.row
    BY EntityResolves DEF Available
  <2> QED
    BY <1>1, <2>1 DEF Owned
<1> QED
  BY <1>2, <1>3

\* An entity whose row is listed is available: the walk of resolve_connection_uid over
\* any number of remaps ends at the UID of the row.
THEOREM ListedEntityAvailableHolds ==
  ASSUME "reuse" \notin Hazards
  PROVE  ISpec => []ListedEntityAvailable
<1> QED
  BY OwnerInvHolds, OwnersImply, PTL

\* An available entity shows and switches the VPN its row was made for: with lists that
\* lack VPNs or stay empty, with VPNs renumbered again or deleted, in an outage nobody saw.
THEOREM EntityShowsOwnVpnHolds ==
  ASSUME "reuse" \notin Hazards
  PROVE  ISpec => []EntityShowsOwnVpn
<1> QED
  BY OwnerInvHolds, OwnersImply, PTL

-----------------------------------------------------------------------------
(* Lists of a box that shows all its VPNs or none                          *)

\* Such a box shows none only until the cap of a recovery; a list that is empty when
\* nothing recovers is that of an entry set up with it, which has seen no VPN.
AllOrNone ==
  /\ listing = FullListing \/ listing = NoConnections
  /\ link = "up" /\ Listed(listing) = {} /\ on_box # {} =>
       IF recovering THEN recovery_age < RecoveryMax ELSE loaded => seen_uids = {}

\* Listed UIDs are known by name.  Once the entry has seen a VPN, what it shows covers
\* every VPN on the box that has rows, under the UID it has or had.
RowsShown ==
  \A r \in rows : r.vpn \in on_box => \E u \in Listed(data) : data[u] = r.vpn
KnownInv ==
  /\ AllOrNone
  /\ \A u \in Listed(data) : uid_names[u] = data[u]
  /\ loaded /\ seen_uids # {} => RowsShown

LEMMA FullListingIs ==
  ASSUME IInv, OwnerInv
  PROVE  /\ \A v \in on_box : /\ number[v] \in Uid /\ number[v] \in Listed(FullListing)
                              /\ FullListing[number[v]] = v
         /\ \A u \in Listed(FullListing) :
              FullListing[u] \in on_box /\ number[FullListing[u]] = u
<1>1. PICK own \in Owners : Owned(own)
  BY DEF OwnerInv
<1>2. on_box \in SUBSET Name /\ \A v \in on_box : number[v] \in Uid
  BY <1>1 DEF IInv, WorldType, Owned
<1>3. /\ \A u \in Listed(FullListing) :
           FullListing[u] \in on_box /\ number[FullListing[u]] = u
      /\ \A v \in on_box : number[v] \in Listed(FullListing)
  BY <1>2, ListingOfIs DEF FullListing
<1>4. \A v \in on_box : FullListing[number[v]] = v
  BY <1>1, <1>2, <1>3, AbsentAssumption DEF Owned
<1> QED
  BY <1>2, <1>3, <1>4

\* What a list says agrees with the numbering of the box; it says all or nothing.
LEMMA ListingSays ==
  ASSUME IInv, OwnerInv, AllOrNone
  PROVE  /\ \A u \in Listed(listing) :
              /\ u \in Uid /\ listing[u] \in on_box /\ listing[u] \in Name
              /\ number[listing[u]] = u
         /\ Listed(listing) # {} => listing = FullListing
         /\ \A u \in Uid : listing[u] \in Name <=> u \in Listed(listing)
<1>1. on_box \subseteq Name /\ listing \in [Uid -> Name \union {Absent}]
  BY DEF IInv, WorldType, Named
<1>2. listing = FullListing \/ Listed(listing) = {}
  BY DEF AllOrNone, NoConnections, Listed
<1>3. \A u \in Uid : listing[u] \in Name <=> u \in Listed(listing)
  BY <1>1, NameAssumption DEF Listed
<1> QED
  BY <1>1, <1>2, <1>3, FullListingIs, ListedType

\* Remembering once more what is listed changes nothing.
LEMMA DataNamed ==
  ASSUME IInv, OwnerInv
  PROVE  Named(data)
BY DEF IInv, Inv, TypeOK, OwnerInv, Owned, Listing, Listed, Named

LEMMA NothingToRemember ==
  ASSUME IInv, OwnerInv, KnownInv
  PROVE  seen_uids \union Listed(data) = seen_uids /\ Remember(uid_names, data) = uid_names
<1>1. uid_names \in UidNames /\ Listed(data) \subseteq seen_uids
  BY DEF IInv, Inv, TypeOK, ListedAreSeen
<1>2. \A u \in Uid : Remember(uid_names, data)[u] = uid_names[u]
  BY DataNamed, RememberNamed DEF KnownInv
<1>3. Remember(uid_names, data) = uid_names
  BY <1>1, <1>2 DEF Remember, UidNames
<1> QED
  BY <1>1, <1>3

\* What an accepted list leaves behind: with it comes every VPN or none, and none only
\* if the entry has seen none or the box has none.
LEMMA AcceptedKnown ==
  ASSUME IInv, OwnerInv, KnownInv, UNCHANGED <<on_box, number, box>>, data' = listing,
         rows' \subseteq Row,
         \A u \in Listed(listing) : uid_names'[u] = listing[u],
         Listed(listing) = {} /\ on_box # {} =>
           /\ seen_uids' = {}
           /\ recovering' = recovering /\ recovery_age' = recovery_age
           /\ recovering => recovery_age < RecoveryMax
  PROVE  KnownInv'
<1>1. UNCHANGED <<link, listing, FullListing>>
  BY DEF box, FullListing
<1>2. AllOrNone'
  BY <1>1 DEF KnownInv, AllOrNone, NoConnections
<1>3. \A u \in Listed(data') : uid_names'[u] = data'[u]
  OBVIOUS
<1>4. seen_uids' # {} => RowsShown'
  <2>1. CASE Listed(listing) = {}
    BY <2>1 DEF RowsShown
  <2>2. CASE Listed(listing) # {}
    <3>1. \A v \in on_box : number[v] \in Listed(listing) /\ listing[number[v]] = v
      BY <2>2, ListingSays, FullListingIs DEF KnownInv
    <3> QED
      BY <3>1 DEF RowsShown
  <2> QED
    BY <2>1, <2>2
<1> QED
  BY <1>2, <1>3, <1>4 DEF KnownInv

\* Polls end with the list, except those that fail: they forget and learn nothing.
LEMMA IPollKnown ==
  ASSUME IInv, IInv', OwnerInv, KnownInv, IPoll
  PROVE  KnownInv'
<1>1. loaded /\ UNCHANGED <<world, loaded>> /\ Named(listing) /\ rows' \subseteq Row
  BY DEF IPoll, IInv, WorldType, Tracked
<1>2. CASE IPollFails
  <2>1. PollOutage \/ PollDenied \/ PollEmptyRefused
    BY <1>2 DEF IPollFails
  <2>2. /\ UNCHANGED <<data, uid_names, seen_uids, rows, link, listing, FullListing>>
        /\ \/ link # "up"
           \/ UNCHANGED <<recovering, recovery_age>>
    BY <1>1, <1>2, <2>1, NothingToRemember
       DEF IPollFails, PollOutage, PollDenied, PollEmptyRefused, PollFails, ArmRecovery,
           GoOnRecovering, tracking, recovery, box, world, registry, FullListing
  <2> QED
    BY <1>1, <2>2 DEF KnownInv, AllOrNone, RowsShown, NoConnections, world
<1>3. CASE IPollTracked
  <2>1. /\ data' = listing /\ UNCHANGED box /\ link = "up"
        /\ seen_uids' = seen_uids \union Listed(data) \union Listed(listing)
        /\ uid_names' = Remember(Remember(uid_names, listing), data)
    BY <1>3 DEF IPollTracked, PollNormal, PollEmptyAccepted, EmptyWhileRecovering, TrackMissing,
                SeenWith, PollSucceeds
  <2>2. \A u \in Listed(listing) : uid_names'[u] = listing[u]
    <3>1. PICK own \in Owners, age \in Ages : Owned(own) /\ Aged(own, age)
      BY DEF OwnerInv
    <3>2. \A u \in Listed(data) : own[u] = data[u]
      BY <3>1 DEF Owned
    <3>3. \A u \in Listed(listing) : u \in Uid /\ own[u] = listing[u]
      BY <3>1, ListedIsLatest
    <3> QED
      BY <1>1, <2>1, <3>2, <3>3, DataNamed, RememberNamed
  <2>3. ASSUME Listed(listing) = {}, on_box # {}
        PROVE  /\ seen_uids' = {} /\ ~recovering
               /\ recovering' = recovering /\ recovery_age' = recovery_age
    <3>1. ~PollEmptyAccepted
      <4>1. recovering => recovery_age < RecoveryMax
        BY <2>1, <2>3 DEF KnownInv, AllOrNone
      <4>2. recovery_age \in Nat /\ RecoveryMax \in Nat
        BY WindowsAreNat DEF IInv, Inv, TypeOK
      <4> QED
        BY <4>1, <4>2 DEF PollEmptyAccepted, EmptyWhileRecovering, RecoveryMaxElapsed
    <3>2. ~recovering /\ UNCHANGED <<recovering, recovery_age>>
      BY <1>3, <3>1 DEF IPollTracked, PollNormal, recovery
    <3>3. seen_uids = {} /\ Listed(data) = {}
      BY <1>1, <2>1, <2>3, <3>2 DEF KnownInv, AllOrNone, IInv, Inv, ListedAreSeen
    <3> QED
      BY <2>1, <2>3, <3>2, <3>3
  <2> QED
    BY <1>1, <2>1, <2>2, <2>3, AcceptedKnown DEF world
<1>4. CASE IPollRecovering
  <2> DEFINE remap == RemapProposed(listing)
             moved == Applied(rows, devices, remap)
  <2>1. PollRecovering(moved)
    BY <1>4 DEF IPollRecovering
  <2>2. /\ data' = listing /\ UNCHANGED box /\ link = "up" /\ recovering
        /\ moved \subseteq DOMAIN remap /\ ~EmptyWhileRecovering /\ NoteSuccessfulPoll(listing)
        /\ uid_names' = [u \in Uid |-> IF u \in moved THEN NoName
                                       ELSE Remember(uid_names, listing)[u]]
        /\ seen_uids' = (seen_uids \ moved) \union {remap[u] : u \in moved}
                          \union Listed(data) \union Listed(listing)
    BY <2>1 DEF PollRecovering, PollSucceeds, ApplyUidRemap, SeenRemapped
  <2>3. \A u \in DOMAIN remap : u \in seen_uids /\ u \notin Listed(listing)
    BY NamedIsListing, ProposedRemap DEF IInv, Inv, WorldType, Removed
  <2> HIDE DEF remap, moved
  <2>4. \A u \in Listed(listing) : uid_names'[u] = listing[u]
    BY <1>1, <2>2, <2>3, ListedType, NamedIsListing, RememberNamed
  <2>5. ASSUME Listed(listing) = {}, on_box # {}
        PROVE  /\ seen_uids' = {}
               /\ recovering' = recovering /\ recovery_age' = recovery_age
               /\ recovery_age < RecoveryMax
    <3>1. seen_uids = {} /\ Listed(data) = {}
      BY <2>2, <2>5 DEF EmptyWhileRecovering
    <3>2. moved = {}
      BY <2>2, <2>3, <3>1
    <3>3. recovering' = recovering /\ recovery_age' = recovery_age
      BY <2>2, <2>5 DEF NoteSuccessfulPoll, Stable
    <3>4. recovery_age < RecoveryMax
      BY <2>2, <2>5 DEF KnownInv, AllOrNone
    <3> QED
      BY <2>2, <2>5, <3>1, <3>2, <3>3, <3>4
  <2> QED
    BY <1>1, <2>2, <2>4, <2>5, AcceptedKnown DEF world
<1> QED
  BY <1>2, <1>3, <1>4 DEF IPoll

\* Time passes; the cap is not reached while the box shows an empty list.
LEMMA ITickKnown ==
  ASSUME "empty" \notin Hazards, IInv, KnownInv, ITick
  PROVE  KnownInv'
<1>1. UNCHANGED <<world, loaded, data, seen_uids, rows, uid_names, link, listing, recovering,
                  FullListing>>
  BY DEF ITick, Tick, box, world, registry, tracking, FullListing
<1>2. recovering /\ link = "up" /\ Listed(listing) = {} /\ on_box # {}
        => recovery_age' < RecoveryMax
  BY WindowsAreNat DEF ITick, Tick, EmptyShown, IInv, Inv, TypeOK
<1> QED
  BY <1>1, <1>2 DEF KnownInv, AllOrNone, RowsShown, NoConnections, world

\* An entry set up with an empty list has seen nothing.
LEMMA ISetupKnown ==
  ASSUME IInv, IInv', OwnerInv, KnownInv, ISetup
  PROVE  KnownInv'
<1>1. /\ UNCHANGED <<box, on_box, number, recovery>> /\ data' = listing
      /\ link = "up" /\ seen_uids' = Listed(listing)
      /\ uid_names' = Remember([u \in Uid |-> NoName], listing)
      /\ Named(listing) /\ rows' \subseteq Row
  BY DEF ISetup, IInv, WorldType, Tracked
<1>2. \A u \in Listed(listing) : uid_names'[u] = listing[u]
  BY <1>1, ListedType, NamedIsListing, RememberNamed
<1>3. Listed(listing) = {} /\ on_box # {} => (recovering => recovery_age < RecoveryMax)
  BY <1>1 DEF KnownInv, AllOrNone
<1> QED
  BY <1>1, <1>2, <1>3, AcceptedKnown DEF recovery

LEMMA ForgottenKnown ==
  ASSUME KnownInv, Forgotten, UNCHANGED <<box, world>>
  PROVE  KnownInv'
<1>1. data' = NoConnections /\ ~loaded' /\ ~recovering'
  BY DEF Forgotten, ClearRecovery
<1>2. Listed(data') = {}
  BY <1>1 DEF Listed, NoConnections
<1>3. UNCHANGED <<listing, FullListing>>
  BY DEF box, world, FullListing
<1> QED
  BY <1>1, <1>2, <1>3 DEF KnownInv, AllOrNone, NoConnections

LEMMA EmptyFullListing ==
  IInv /\ OwnerInv => (Listed(FullListing) = {} => on_box = {})
BY FullListingIs

\* The box shows its lists, renumbers, gets or loses a VPN; a new VPN has no rows.
LEMMA BoxChangeKnown ==
  ASSUME Hazards \intersect {"partial", "empty", "reuse"} = {},
         IInv, IInv', OwnerInv, OwnerInv', KnownInv, BoxChange
  PROVE  KnownInv'
<1>1. UNCHANGED <<data, uid_names, seen_uids, rows, recovering, recovery_age, loaded>>
  BY DEF BoxChange, tracking, recovery, registry
<1>2. Listed(FullListing) = {} => on_box = {}
  BY EmptyFullListing
<1>3. Listed(FullListing') = {} => on_box' = {}
  <2>1. (IInv /\ OwnerInv => (Listed(FullListing) = {} => on_box = {}))'
    BY EmptyFullListing, PTL
  <2> QED
    BY <2>1
<1>4. AllOrNone'
  <2>1. CASE BoxFails
    BY <1>1, <2>1 DEF BoxFails, KnownInv, AllOrNone, NoConnections, world, FullListing
  <2>2. CASE BoxAnswers
    <3>1. PICK vpns \in Shown : listing' = ListingOf(vpns, number)
      BY <2>2 DEF BoxAnswers
    <3>2. vpns = on_box \/ (vpns = {} /\ recovering /\ recovery_age + 1 < RecoveryMax)
      BY <3>1 DEF Shown
    <3>3. vpns = {} => listing' = NoConnections
      BY <3>1 DEF ListingOf, NoConnections
    <3>4. UNCHANGED <<world, FullListing>> /\ (vpns = on_box => listing' = FullListing')
      BY <2>2, <3>1 DEF BoxAnswers, world, FullListing
    <3>5. recovery_age + 1 < RecoveryMax => recovery_age < RecoveryMax
      BY WindowsAreNat DEF IInv, Inv, TypeOK
    <3> QED
      BY <1>1, <1>3, <3>2, <3>3, <3>4, <3>5 DEF AllOrNone, NoConnections
  <2>3. CASE BoxRenumbers
    BY <2>3 DEF BoxRenumbers, AllOrNone, NoConnections
  <2>4. CASE UserCreatesVpn \/ UserDeletesVpn
    <3>1. listing' = FullListing'
      BY <2>4 DEF UserCreatesVpn, UserDeletesVpn, FullListing
    <3> QED
      BY <1>3, <3>1 DEF AllOrNone
  <2> QED
    BY <2>1, <2>2, <2>3, <2>4 DEF BoxChange
<1>5. ASSUME RowsShown
      PROVE  RowsShown'
  <2>1. CASE on_box' \subseteq on_box
    BY <1>1, <1>5, <2>1 DEF RowsShown
  <2>2. CASE UserCreatesVpn
    <3>1. PICK x \in Name : number[x] = Absent /\ on_box' = on_box \union {x}
      BY <2>2 DEF UserCreatesVpn
    <3>2. PICK own \in Owners : Owned(own)
      BY DEF OwnerInv
    <3>3. \A r \in rows : r.vpn # x
      <4>1. \A r \in rows : r.uid \in Uid /\ r.vpn \in Name /\ own[r.uid] = r.vpn
        BY <3>2 DEF IInv, Tracked, Row, Owned
      <4> QED
        BY <3>1, <3>2, <4>1 DEF Owned
    <3> QED
      BY <1>1, <1>5, <3>1, <3>3 DEF RowsShown
  <2> QED
    BY <2>1, <2>2 DEF BoxChange, BoxFails, BoxAnswers, BoxRenumbers, UserDeletesVpn, world
<1> QED
  BY <1>1, <1>4, <1>5 DEF KnownInv

LEMMA IInitKnown == IInit => KnownInv
<1> SUFFICES ASSUME IInit PROVE KnownInv
  OBVIOUS
<1>1. IInv /\ OwnerInv
  BY IInitInv, IInitOwners
<1>2. /\ listing = FullListing /\ data = listing /\ ~recovering
      /\ uid_names = Remember([u \in Uid |-> NoName], listing)
  BY DEF IInit, FirstRefreshed
<1>3. Named(data)
  BY <1>1, DataNamed
<1>4. \A u \in Listed(data) : uid_names[u] = data[u]
  BY <1>2, <1>3, ListedType, NamedIsListing, RememberNamed
<1>5. \A v \in on_box : number[v] \in Listed(data) /\ data[number[v]] = v
  BY <1>1, <1>2, FullListingIs
<1> QED
  BY <1>2, <1>4, <1>5 DEF KnownInv, AllOrNone, RowsShown

LEMMA IStepKnown ==
  ASSUME Hazards \intersect {"partial", "empty", "reuse"} = {}
  PROVE  IInv /\ OwnerInv /\ KnownInv /\ [INext]_ivars => KnownInv'
<1> SUFFICES ASSUME IInv, OwnerInv, KnownInv, [INext]_ivars PROVE KnownInv'
  OBVIOUS
<1>1. IInv' /\ OwnerInv'
  BY IStepInv, IStepOwners
<1>2. CASE UNCHANGED ivars
  <2>1. UNCHANGED <<world, loaded, data, seen_uids, rows, uid_names, link, listing, recovering,
                    recovery_age, FullListing>>
    BY <1>2 DEF ivars, vars, box, recovery, tracking, registry, world, FullListing
  <2> QED
    BY <2>1 DEF KnownInv, AllOrNone, RowsShown, NoConnections, world
<1>3. CASE IUnload \/ IRemoveUnavailable
  BY <1>3, ForgottenKnown DEF IUnload, IRemoveUnavailable
<1> QED
  BY <1>1, <1>2, <1>3, IPollKnown, ITickKnown, ISetupKnown, BoxChangeKnown DEF INext

\* The box shows all its VPNs or none, and an entry that has seen a VPN shows every VPN
\* that has rows.
THEOREM KnownInvHolds ==
  ASSUME Hazards \intersect {"partial", "empty", "reuse"} = {}
  PROVE  ISpec => [](IInv /\ OwnerInv /\ KnownInv)
<1>1. IInit => IInv /\ OwnerInv /\ KnownInv
  BY IInitInv, IInitOwners, IInitKnown
<1>2. IInv /\ OwnerInv /\ KnownInv /\ [INext]_ivars => (IInv /\ OwnerInv /\ KnownInv)'
  BY IStepInv, IStepOwners, IStepKnown
<1> QED
  BY <1>1, <1>2, PTL DEF ISpec

-----------------------------------------------------------------------------
(* What becomes of the rows of a VPN that is on the box                    *)

RowsKept ==
  \A r \in rows : r.vpn \in on_box => \E s \in rows' : s.platform = r.platform /\ s.vpn = r.vpn

\* Only UIDs change when rows are remapped.
LEMMA RemapKeepsRows ==
  ASSUME IInv, NEW remap, NEW moved, RemapRows(rows, remap, moved) \subseteq rows'
  PROVE  RowsKept
<1> DEFINE row(r) == [r EXCEPT !.uid = Renamed(r.uid, remap, moved)]
<1>1. \A r \in rows : row(r) \in rows'
  BY DEF RemapRows
<1>2. \A r \in rows : row(r).platform = r.platform /\ row(r).vpn = r.vpn
  BY DEF IInv, Tracked, Row
<1> QED
  BY <1>1, <1>2 DEF RowsKept

\* The service removes rows of UIDs that are not listed: a VPN on the box that is shown
\* has a live entity on every platform, the row of which stays.
LEMMA RemovalKeepsRows ==
  ASSUME IInv, OwnerInv, RowsShown, IRemoveUnavailable
  PROVE  RowsKept
<1>1. PICK own \in Owners : Owned(own)
  BY DEF OwnerInv
<1>2. loaded /\ rows' = rows \ Orphaned(rows, Listed(data))
  BY DEF IRemoveUnavailable
<1> SUFFICES ASSUME NEW r \in rows, r.vpn \in on_box
             PROVE  \E s \in rows' : s.platform = r.platform /\ s.vpn = r.vpn
  BY DEF RowsKept
<1>3. r.platform \in Platform
  BY DEF IInv, Tracked, Row
<1>4. PICK u \in Listed(data) : data[u] = r.vpn
  BY DEF RowsShown
<1>5. u \in RowsLive(r.platform, entities)
  BY <1>2, <1>3 DEF IInv, Tracked
<1>6. PICK s \in rows : s.platform = r.platform /\ s.uid = u
  BY <1>5 DEF RowsLive, IInv, Tracked, Consistent, HasKey
<1>7. s.vpn = r.vpn
  BY <1>1, <1>4, <1>6 DEF Owned
<1> QED
  BY <1>2, <1>6, <1>7 DEF Orphaned

LEMMA StepKeepsRows ==
  ASSUME IInv, OwnerInv, KnownInv, [INext]_ivars
  PROVE  RowsKept \/ (loaded /\ ~loaded' /\ seen_uids = {})
<1>1. CASE IPoll
  <2>1. CASE IPollRecovering
    BY <2>1, AddedFromListing, RemapKeepsRows DEF IPollRecovering
  <2>2. CASE IPollTracked
    BY <2>2, AddedFromListing DEF IPollTracked, RowsKept
  <2>3. CASE IPollFails
    BY <2>3 DEF IPollFails, registry, RowsKept
  <2> QED
    BY <1>1, <2>1, <2>2, <2>3 DEF IPoll
<1>2. CASE ISetup
  BY <1>2, AddedFromListing DEF ISetup, RowsKept
<1>3. CASE IRemoveUnavailable
  BY <1>3, RemovalKeepsRows DEF IRemoveUnavailable, Forgotten, KnownInv
<1>4. CASE ITick \/ IUnload \/ BoxChange \/ UNCHANGED ivars
  BY <1>4 DEF ITick, IUnload, BoxChange, ivars, registry, RowsKept
<1> QED
  BY <1>1, <1>2, <1>3, <1>4 DEF INext

\* On a box that shows all its VPNs or none and hands out no UID twice, the cleanup service
\* takes rows of a VPN on the box only from an entry that has seen no VPN since it was set
\* up, and nothing else takes any, however often UIDs are renumbered or entries reloaded.
THEOREM RowsLostOnlyIfNoneSeenHolds ==
  ASSUME Hazards \intersect {"partial", "empty", "reuse"} = {}
  PROVE  ISpec => RowsLostOnlyIfNoneSeen
<1>1. IInv /\ OwnerInv /\ KnownInv /\ [INext]_ivars
        => RowsKept \/ (loaded /\ ~loaded' /\ seen_uids = {})
  BY StepKeepsRows
<1>2. RowsKept \/ (loaded /\ ~loaded' /\ seen_uids = {}) =>
        \A r \in rows : r.vpn \in on_box =>
          \/ \E s \in rows' : s.platform = r.platform /\ s.vpn = r.vpn
          \/ loaded /\ ~loaded' /\ seen_uids = {}
  BY DEF RowsKept
<1> QED
  BY <1>1, <1>2, KnownInvHolds, PTL DEF ISpec, RowsLostOnlyIfNoneSeen

-----------------------------------------------------------------------------
(* The numbering the rows go by, on the box of the README (Hazards = {})   *)

Numbering == [Name -> Uid \union {Absent}]
Numbers == {number[v] : v \in on_box}

\* num is the numbering the integration goes by: that of the box or, between a
\* renumbering and the remap, the one before.  No UID stands for one VPN in the
\* one and for another in the other.
Numbered(num) ==
  /\ \A v, w \in Name : num[v] = num[w] /\ num[v] # Absent => v = w
  /\ \A v, w \in Name : num[v] = number[w] /\ num[v] # Absent => v = w
  /\ \A v, w \in Name : number[v] = number[w] /\ number[v] # Absent => v = w
  /\ \A v \in Name : {num[v], number[v]} \subseteq used_uids \union {Absent}
  /\ \A v \in on_box : num[v] # Absent /\ number[v] # Absent

\* Rows and cached names agree with it.
Remembered(num) ==
  /\ \A r \in rows : num[r.vpn] = r.uid
  /\ \A u \in Uid : uid_names[u] \in Name => num[uid_names[u]] = u

\* The box has renumbered: the coordinator has noticed the outage, or will before
\* anything else, and what it has seen is what was on the box just before.  The rows
\* are those of the VPNs on the box.
InFlight(num) ==
  /\ loaded
  /\ renumberings.load # 0
  /\ num # number
  /\ \A v \in Name : v \notin on_box => num[v] = number[v]
  /\ seen_uids = {num[v] : v \in on_box}
  /\ Listed(data) = seen_uids
  /\ link = "outage" \/ recovering
  /\ LeftOver = {}

Settled(num) ==
  /\ num = number
  /\ loaded /\ renumberings.load = 0 /\ LeftOver = {} => seen_uids \subseteq Numbers

Carried(num) == Numbered(num) /\ Remembered(num) /\ (InFlight(num) \/ Settled(num))

IdentityInv == \E num \in Numbering : Carried(num)

LEMMA NumbersListed ==
  ASSUME IInv, OwnerInv
  PROVE  Listed(FullListing) = Numbers
BY FullListingIs DEF Numbers

\* UIDs that are listed belong to VPNs on the box.
LEMMA ListedAreNumbers ==
  ASSUME IInv, OwnerInv, KnownInv
  PROVE  Listed(listing) \subseteq Numbers
BY ListingSays DEF Numbers, KnownInv

LEMMA KnownNames ==
  ASSUME OwnerInv, KnownInv, NEW u \in Listed(data)
  PROVE  uid_names[u] \in Name
BY DEF OwnerInv, Owned, KnownInv

\* The set up entry goes by the numbering of the box.
LEMMA IInitIdentity == IInit => IdentityInv
<1> SUFFICES ASSUME IInit PROVE IdentityInv
  OBVIOUS
<1>1. /\ on_box \in SUBSET Name /\ number \in Numbering
      /\ \A v \in Name : number[v] = Absent <=> v \notin on_box
      /\ \A v, w \in on_box : number[v] = number[w] => v = w
      /\ used_uids = {number[v] : v \in on_box}
      /\ renumberings = [load |-> 0, all |-> 0]
      /\ loaded = TRUE
      /\ listing = FullListing
      /\ FirstRefreshed
  BY DEF IInit, Numbering
<1>2. IInv /\ OwnerInv
  BY IInitInv, IInitOwners
<1>3. Numbered(number)
  BY <1>1 DEF Numbered
<1>4. /\ \A u \in Listed(FullListing) :
           FullListing[u] \in on_box /\ number[FullListing[u]] = u
      /\ Listed(FullListing) = Numbers
  BY <1>1, <1>2, FullListingIs, NumbersListed
<1>5. /\ seen_uids = Listed(listing)
      /\ uid_names = Remember([u \in Uid |-> NoName], listing)
  BY <1>1 DEF FirstRefreshed
<1>6. \A u \in Uid : uid_names[u] \in Name => u \in Listed(listing) /\ uid_names[u] = listing[u]
  BY <1>5, NameAssumption DEF Remember, Listed
<1>7. \A r \in rows : number[r.vpn] = r.uid
  BY DEF IInit
<1>8. Remembered(number)
  BY <1>1, <1>4, <1>6, <1>7 DEF Remembered
<1>9. Settled(number)
  BY <1>1, <1>4, <1>5 DEF Settled
<1> QED
  BY <1>1, <1>3, <1>8, <1>9 DEF IdentityInv, Carried

\* A poll that fails forgets nothing and learns nothing, except that the box is out.
LEMMA FailureKeepsIdentity ==
  ASSUME IInv, OwnerInv, KnownInv, IdentityInv, IPoll, IPollFails
  PROVE  IdentityInv'
<1>1. PICK num \in Numbering : Carried(num)
  BY DEF IdentityInv
<1>2. /\ UNCHANGED <<world, registry, loaded>> /\ loaded
      /\ PollOutage \/ PollDenied \/ PollEmptyRefused
  BY DEF IPollFails, IPoll
<1>3. /\ UNCHANGED <<data, seen_uids, uid_names, link, listing>>
      /\ recovering => recovering'
  <2>1. CASE PollOutage
    <3>1. seen_uids' = seen_uids \union Listed(data) /\ uid_names' = Remember(uid_names, data)
      BY <2>1 DEF PollOutage, ArmRecovery
    <3>2. UNCHANGED <<seen_uids, uid_names>>
      BY <3>1, NothingToRemember
    <3> QED
      BY <2>1, <3>2 DEF PollOutage, PollFails, ArmRecovery, box
  <2>2. CASE PollDenied
    BY <2>2 DEF PollDenied, PollFails, tracking, recovery, box
  <2>3. CASE PollEmptyRefused
    BY <2>3 DEF PollEmptyRefused, PollFails, GoOnRecovering, box
  <2> QED
    BY <1>2, <2>1, <2>2, <2>3
<1>4. Numbered(num)' /\ Remembered(num)'
  BY <1>1, <1>2, <1>3 DEF Carried, Numbered, Remembered, world, registry
<1>5. InFlight(num) => InFlight(num)'
  BY <1>2, <1>3 DEF InFlight, LeftOver, world, registry
<1>6. Settled(num) => Settled(num)'
  BY <1>2, <1>3 DEF Settled, Numbers, LeftOver, world, registry
<1> QED
  BY <1>1, <1>4, <1>5, <1>6 DEF IdentityInv, Carried

LEMMA ITickIdentity ==
  ASSUME IdentityInv, ITick
  PROVE  IdentityInv'
<1>1. PICK num \in Numbering : Carried(num)
  BY DEF IdentityInv
<1>2. UNCHANGED <<world, registry, loaded, data, seen_uids, uid_names, link, recovering>>
  BY DEF ITick, Tick, box, tracking
<1>3. Numbered(num)' /\ Remembered(num)'
  BY <1>1, <1>2 DEF Carried, Numbered, Remembered, world, registry
<1>4. InFlight(num)' \/ Settled(num)'
  BY <1>1, <1>2 DEF Carried, InFlight, Settled, Numbers, LeftOver, world, registry
<1> QED
  BY <1>1, <1>3, <1>4 DEF IdentityInv, Carried

\* While a renumbering is in the air, some VPN has rows under a UID it had, every row is
\* listed, and what is listed is not up to date.
LEMMA InFlightMoves ==
  ASSUME IInv, NEW num \in Numbering, InFlight(num)
  PROVE  \E v \in on_box : num[v] # number[v]
BY DEF InFlight, Numbering, IInv, WorldType

LEMMA InFlightShows ==
  ASSUME IInv, OwnerInv, KnownInv, NEW num \in Numbering, Carried(num), InFlight(num)
  PROVE  Renumbered /\ Orphaned(rows, Listed(data)) = {} /\ ~UpToDate
<1>1. PICK v \in on_box : num[v] # number[v]
  BY InFlightMoves
<1>2. v \in Name /\ number[v] \in Uid
  BY DEF IInv, WorldType, Carried, Numbered
<1>3. Renumbered
  <2>1. num[v] \in Listed(data) /\ num[v] # Absent
    BY <1>1 DEF InFlight, Carried, Numbered
  <2>2. PICK p \in Platform : num[v] \in RowsLive(p, entities)
    BY <2>1, PlatformAssumption DEF IInv, InFlight, Tracked
  <2>3. PICK r \in rows : r.uid = num[v]
    BY <2>2 DEF RowsLive, IInv, Tracked, Consistent, HasKey
  <2>4. r.vpn = v
    <3>1. r.vpn \in Name /\ num[r.vpn] = num[v]
      BY <2>3 DEF Carried, Remembered, IInv, Tracked, Row
    <3> QED
      BY <1>2, <2>1, <3>1 DEF Carried, Numbered
  <2> QED
    BY <1>1, <2>3, <2>4 DEF Renumbered
<1>4. Orphaned(rows, Listed(data)) = {}
  <2>1. ASSUME NEW r \in rows
        PROVE  r.uid \in Listed(data)
    <3>1. r.vpn \in on_box /\ num[r.vpn] = r.uid
      BY DEF InFlight, LeftOver, Carried, Remembered
    <3> QED
      BY <3>1 DEF InFlight
  <2> QED
    BY <2>1 DEF Orphaned
<1>5. ~UpToDate
  <2>1. SUFFICES ASSUME data = FullListing PROVE FALSE
    BY DEF UpToDate
  <2>2. number[v] \in Listed(data) /\ data[number[v]] = v
    BY <2>1, FullListingIs
  <2> QED
    BY <1>1, <1>2, <2>2 DEF Carried, Remembered, KnownInv
<1> QED
  BY <1>3, <1>4, <1>5

\* What a step of the box leaves alone.
LEMMA BoxChangeKeeps ==
  ASSUME BoxChange
  PROVE  UNCHANGED <<data, seen_uids, uid_names, recovering, loaded, rows>>
BY DEF BoxChange, tracking, recovery, registry

LEMMA LinkIdentity ==
  ASSUME Hazards = {}, IInv, OwnerInv, KnownInv, IdentityInv, BoxChange, BoxFails \/ BoxAnswers
  PROVE  IdentityInv'
<1>1. PICK num \in Numbering : Carried(num)
  BY DEF IdentityInv
<1>2. UNCHANGED world
  BY DEF BoxFails, BoxAnswers
<1>3. Numbered(num)' /\ Remembered(num)'
  BY <1>1, <1>2, BoxChangeKeeps DEF Carried, Numbered, Remembered, world
<1>4. link = "outage" => recovering \/ ~loaded
  BY DEF BoxFails, BoxAnswers
<1>5. InFlight(num)' \/ Settled(num)'
  <2>1. CASE InFlight(num)
    BY <1>2, <1>4, <2>1, BoxChangeKeeps DEF InFlight, LeftOver, world
  <2>2. CASE Settled(num)
    BY <1>2, <2>2, BoxChangeKeeps DEF Settled, Numbers, LeftOver, world
  <2> QED
    BY <1>1, <2>1, <2>2 DEF Carried
<1> QED
  BY <1>1, <1>3, <1>5 DEF IdentityInv, Carried

\* A renumbering of an up-to-date entry leaves it with the numbering before.
LEMMA BoxRenumbersIdentity ==
  ASSUME Hazards = {}, IInv, OwnerInv, KnownInv, IdentityInv, BoxChange, BoxRenumbers
  PROVE  IdentityInv'
<1>1. PICK num \in Numbering : Carried(num)
  BY DEF IdentityInv
<1>2. PICK n \in [on_box -> Uid] :
        /\ \A v, w \in on_box : n[v] = n[w] => v = w
        /\ \A v \in on_box : n[v] = number[v] \/ n[v] \notin used_uids
        /\ \E v \in on_box : n[v] # number[v]
        /\ number' = [v \in Name |-> IF v \in on_box THEN n[v] ELSE number[v]]
        /\ used_uids' = used_uids \union {n[v] : v \in on_box}
  BY DEF BoxRenumbers
<1>3. /\ renumberings.load = 0 /\ LeftOver = {} /\ UpToDate
      /\ link' = "outage" /\ listing' = NoConnections
      /\ renumberings' = [load |-> renumberings.load + 1, all |-> renumberings.all + 1]
      /\ UNCHANGED on_box
  BY DEF BoxRenumbers
<1>4. Settled(num) /\ num = number
  BY <1>1, <1>3, InFlightShows DEF Carried, Settled
<1>5. on_box \subseteq Name /\ num \in [Name -> Uid \union {Absent}]
  BY DEF IInv, WorldType, Numbering
<1>6. /\ \A v \in on_box : number'[v] = n[v] /\ n[v] \in Uid
      /\ \A v \in Name : v \notin on_box => number'[v] = num[v]
  BY <1>2, <1>4, <1>5
<1>7. Numbered(num)'
  <2>1. Numbered(num)
    BY <1>1 DEF Carried
  <2>2. \A v \in Name : \/ number'[v] = num[v]
                        \/ v \in on_box /\ number'[v] \notin used_uids \union {Absent}
    BY <1>2, <1>4, <1>6, AbsentAssumption
  <2>3. \A v \in Name : num[v] \in used_uids \union {Absent}
    BY <2>1 DEF Numbered
  <2>4. \A v, w \in Name : num[v] = number'[w] /\ num[v] # Absent => v = w
    BY <2>1, <2>2, <2>3 DEF Numbered
  <2>5. \A v, w \in Name : number'[v] = number'[w] /\ number'[v] # Absent => v = w
    BY <1>2, <1>6, <2>1, <2>2, <2>3 DEF Numbered
  <2>6. \A v \in Name : {num[v], number'[v]} \subseteq used_uids' \union {Absent}
    <3> SUFFICES ASSUME NEW v \in Name
                 PROVE  num[v] \in used_uids' \union {Absent}
                        /\ number'[v] \in used_uids' \union {Absent}
      OBVIOUS
    <3>1. used_uids \subseteq used_uids' /\ \A w \in on_box : n[w] \in used_uids'
      BY <1>2
    <3> QED
      BY <1>6, <2>3, <3>1
  <2>7. \A v \in on_box : num[v] # Absent /\ number'[v] # Absent
    BY <1>6, <2>1, AbsentAssumption DEF Numbered
  <2> QED
    BY <1>3, <2>1, <2>4, <2>5, <2>6, <2>7 DEF Numbered
<1>8. Remembered(num)'
  BY <1>1, <1>3, BoxChangeKeeps DEF Carried, Remembered
<1>9. InFlight(num)'
  <2>1. num # number'
    BY <1>2, <1>4, <1>6
  <2>2. Listed(data) = Numbers
    BY <1>3, NumbersListed DEF UpToDate
  <2>3. seen_uids = Numbers
    BY <1>3, <1>4, <2>2 DEF UpToDate, Settled, IInv, Inv, ListedAreSeen
  <2>4. renumberings'.load # 0
    BY <1>3
  <2>5. loaded
    BY <1>3 DEF UpToDate
  <2>6. Numbers = {num[v] : v \in on_box}
    BY <1>4 DEF Numbers
  <2>7. UNCHANGED <<data, seen_uids, loaded, on_box>>
    BY <1>3, BoxChangeKeeps
  <2>8. Listed(data') = Listed(data)
    BY <2>7
  <2>9. LeftOver' = {}
    BY <1>3, BoxChangeKeeps DEF LeftOver
  <2> QED
    BY <1>3, <1>6, <2>1, <2>2, <2>3, <2>4, <2>5, <2>6, <2>7, <2>8, <2>9 DEF InFlight
<1> QED
  BY <1>1, <1>7, <1>8, <1>9 DEF IdentityInv, Carried

\* A new VPN has a UID and a name that nothing remembers.
LEMMA UserCreatesVpnIdentity ==
  ASSUME Hazards = {}, IInv, OwnerInv, KnownInv, IdentityInv, BoxChange, UserCreatesVpn
  PROVE  IdentityInv'
<1>1. PICK num \in Numbering : Carried(num)
  BY DEF IdentityInv
<1>2. PICK v \in Name, u \in Uid \ used_uids :
        /\ number[v] = Absent
        /\ number' = [number EXCEPT ![v] = u]
        /\ on_box' = on_box \union {v}
        /\ used_uids' = used_uids \union {u}
        /\ listing' = ListingOf(on_box \union {v}, number')
  BY DEF UserCreatesVpn
<1>3. UpToDate /\ link = "up" /\ UNCHANGED <<link, renumberings>>
  BY DEF UserCreatesVpn
<1>4. Numbered(num) /\ Remembered(num) /\ Settled(num) /\ num = number
  BY <1>1, <1>3, InFlightShows DEF Carried, Settled
<1>5. PICK num2 \in Numbering : num2 = [num EXCEPT ![v] = u]
  BY DEF Numbering
<1>6. /\ num2 = number' /\ num2[v] = u /\ num[v] = Absent
      /\ \A w \in Name : w # v => num2[w] = num[w]
  BY <1>2, <1>4, <1>5 DEF Numbering
<1>7. \A w \in Name : num[w] # u
  BY <1>2, <1>4, AbsentAssumption DEF Numbered
<1>8. on_box \subseteq Name /\ rows \subseteq Row
  BY DEF IInv, WorldType, Tracked
<1>9. Numbered(num2)'
  <2>1. \A w, x \in Name : num2[w] = num2[x] /\ num2[w] # Absent => w = x
    BY <1>4, <1>6, <1>7 DEF Numbered
  <2>2. \A w \in Name : num2[w] \in used_uids' \union {Absent}
    BY <1>2, <1>4, <1>6 DEF Numbered
  <2>3. \A w \in on_box' : num2[w] # Absent
    BY <1>2, <1>4, <1>6, <1>8, AbsentAssumption DEF Numbered
  <2> QED
    BY <1>6, <2>1, <2>2, <2>3 DEF Numbered
<1>10. Remembered(num2)'
  <2>1. \A r \in rows : num2[r.vpn] = r.uid
    <3> SUFFICES ASSUME NEW r \in rows PROVE num2[r.vpn] = r.uid
      OBVIOUS
    <3>1. r.vpn \in Name /\ r.uid \in Uid /\ num[r.vpn] = r.uid
      BY <1>4, <1>8 DEF Remembered, Row
    <3>2. r.vpn # v
      BY <1>6, <3>1, AbsentAssumption
    <3> QED
      BY <1>6, <3>1, <3>2
  <2>2. \A x \in Uid : uid_names[x] # v
    BY <1>4, <1>6, AbsentAssumption DEF Remembered
  <2>3. \A x \in Uid : uid_names[x] \in Name => num2[uid_names[x]] = x
    BY <1>4, <1>6, <2>2 DEF Remembered
  <2> QED
    BY <2>1, <2>3, BoxChangeKeeps DEF Remembered
<1>11. Settled(num2)'
  <2>1. Numbers' = Numbers \union {u}
    <3>1. v \notin on_box /\ \A w \in on_box : num2[w] = number[w]
      BY <1>2, <1>4, <1>6, <1>8 DEF Numbered
    <3>2. Numbers' = {num2[w] : w \in on_box \union {v}}
      BY <1>2, <1>6 DEF Numbers
    <3> QED
      BY <1>6, <3>1, <3>2 DEF Numbers
  <2>2. LeftOver' = LeftOver
    <3>1. \A r \in rows : r.vpn # v
      BY <1>4, <1>6, <1>8, AbsentAssumption DEF Remembered, Row
    <3> QED
      BY <1>2, <3>1, BoxChangeKeeps DEF LeftOver
  <2> QED
    BY <1>2, <1>3, <1>4, <1>6, <2>1, <2>2, BoxChangeKeeps DEF Settled, UpToDate
<1> QED
  BY <1>9, <1>10, <1>11 DEF IdentityInv, Carried

\* A deleted VPN keeps its UID for good, and it had rows, which go on carrying it.
LEMMA UserDeletesVpnIdentity ==
  ASSUME Hazards = {}, IInv, OwnerInv, KnownInv, IdentityInv, BoxChange, UserDeletesVpn
  PROVE  IdentityInv'
<1>1. PICK num \in Numbering : Carried(num)
  BY DEF IdentityInv
<1>2. PICK v \in on_box : on_box' = on_box \ {v} /\ listing' = ListingOf(on_box \ {v}, number)
  BY DEF UserDeletesVpn
<1>3. /\ UpToDate /\ link = "up" /\ ~recovering
      /\ UNCHANGED <<link, number, used_uids, renumberings>>
  BY DEF UserDeletesVpn
<1>4. Numbered(num) /\ Remembered(num) /\ Settled(num)
  BY <1>1, <1>3, InFlightShows DEF Carried
<1>5. Numbered(num)'
  BY <1>2, <1>3, <1>4 DEF Numbered
<1>6. Remembered(num)'
  BY <1>2, <1>4, BoxChangeKeeps DEF Remembered
<1>7. LeftOver' # {}
  <2>1. v \in Name /\ number[v] \in Uid /\ number[v] \in Listed(data) /\ loaded
    BY <1>3, FullListingIs DEF UpToDate, IInv, WorldType
  <2>2. PICK p \in Platform : number[v] \in RowsLive(p, entities)
    BY <2>1, PlatformAssumption DEF IInv, Tracked
  <2>3. PICK r \in rows : r.uid = number[v]
    BY <2>2 DEF RowsLive, IInv, Tracked, Consistent, HasKey
  <2>4. r.vpn = v
    <3>1. r.vpn \in Name /\ number[r.vpn] = number[v]
      BY <1>4, <2>3 DEF Remembered, Settled, IInv, Tracked, Row
    <3> QED
      BY <1>4, <2>1, <3>1, AbsentAssumption DEF Numbered
  <2> QED
    BY <1>2, <2>3, <2>4, BoxChangeKeeps DEF LeftOver
<1>8. Settled(num)'
  BY <1>3, <1>4, <1>7 DEF Settled
<1> QED
  BY <1>5, <1>6, <1>8 DEF IdentityInv, Carried

\* An unload forgets everything but the rows.  With a renumbering in the air there is no
\* reload (Hazards = {}), and nothing for the service to remove.
LEMMA ForgottenIdentity ==
  ASSUME IInv, OwnerInv, KnownInv, IdentityInv, Forgotten,
         ~Renumbered \/ Orphaned(rows, Listed(data)) # {},
         UNCHANGED <<box, world>>, rows' \subseteq rows
  PROVE  IdentityInv'
<1>1. PICK num \in Numbering : Carried(num)
  BY DEF IdentityInv
<1>2. Numbered(num) /\ Remembered(num) /\ Settled(num)
  BY <1>1, InFlightShows DEF Carried
<1>3. /\ uid_names' = [u \in Uid |-> NoName]
      /\ loaded' = FALSE
  BY DEF Forgotten
<1>4. Numbered(num)'
  BY <1>2 DEF Numbered, world
<1>5. Remembered(num)'
  BY <1>2, <1>3, NameAssumption DEF Remembered
<1>6. Settled(num)'
  BY <1>2, <1>3 DEF Settled, world
<1> QED
  BY <1>1, <1>4, <1>5, <1>6 DEF IdentityInv, Carried

LEMMA IUnloadIdentity ==
  ASSUME Hazards = {}, IInv, OwnerInv, KnownInv, IdentityInv, IUnload
  PROVE  IdentityInv'
BY ForgottenIdentity DEF IUnload

LEMMA IRemoveUnavailableIdentity ==
  ASSUME Hazards = {}, IInv, OwnerInv, KnownInv, IdentityInv, IRemoveUnavailable
  PROVE  IdentityInv'
<1>1. /\ Orphaned(rows, Listed(data)) # {} /\ Forgotten /\ UNCHANGED <<box, world>>
      /\ rows' \subseteq rows
  BY DEF IRemoveUnavailable
<1> QED
  BY <1>1, ForgottenIdentity

\* Setup with what the box lists makes the rows that are missing.
LEMMA ISetupIdentity ==
  ASSUME Hazards = {}, IInv, OwnerInv, KnownInv, IdentityInv, ISetup
  PROVE  IdentityInv'
<1>1. PICK num \in Numbering : Carried(num)
  BY DEF IdentityInv
<1>2. /\ ~loaded /\ loaded' = TRUE
      /\ seen_uids' = Listed(listing)
      /\ uid_names' = Remember([u \in Uid |-> NoName], listing)
      /\ AddEntities(listing, rows, devices \intersect UidsOf(rows),
                     [p \in Platform |-> {}], {})
      /\ renumberings' = [renumberings EXCEPT !.load = 0]
      /\ UNCHANGED <<on_box, number, used_uids>>
  BY DEF ISetup
<1>3. Numbered(num) /\ Remembered(num) /\ Settled(num)
  BY <1>1, <1>2 DEF Carried, InFlight
<1>4. /\ \A u \in Listed(listing) :
           /\ u \in Uid /\ listing[u] \in on_box /\ listing[u] \in Name
           /\ number[listing[u]] = u
      /\ Listed(listing) \subseteq Numbers
      /\ \A u \in Uid : listing[u] \in Name <=> u \in Listed(listing)
  BY ListingSays, ListedAreNumbers DEF KnownInv
<1>5. \A u \in Uid : uid_names'[u] = IF u \in Listed(listing) THEN listing[u] ELSE NoName
  BY <1>2, RememberNamed DEF IInv, WorldType
<1>6. \A r \in rows' \ rows : r.uid \in Listed(listing) /\ r.vpn = listing[r.uid]
  BY <1>2, AddedFromListing
<1>7. Numbered(num)'
  BY <1>2, <1>3 DEF Numbered
<1>8. Remembered(num)'
  <2>1. num = number
    BY <1>3 DEF Settled
  <2>2. \A r \in rows' : num[r.vpn] = r.uid
    BY <1>3, <1>4, <1>6, <2>1 DEF Remembered
  <2>3. \A u \in Uid : uid_names'[u] \in Name
                         => u \in Listed(listing) /\ uid_names'[u] = listing[u]
    BY <1>5, NameAssumption
  <2> QED
    BY <1>4, <2>1, <2>2, <2>3 DEF Remembered
<1>9. Settled(num)'
  BY <1>2, <1>3, <1>4 DEF Settled, Numbers
<1> QED
  BY <1>1, <1>7, <1>8, <1>9 DEF IdentityInv, Carried

\* A list accepted while nothing is in flight adds what it names, and no more.
LEMMA AcceptedIdentity ==
  ASSUME IInv, OwnerInv, KnownInv, NEW num \in Numbering, Carried(num), Settled(num),
         UNCHANGED <<world, loaded>>,
         seen_uids' = seen_uids \union Listed(data) \union Listed(listing),
         uid_names' = Remember(uid_names, listing),
         AddEntities(listing, rows, devices, known_uids, entities)
  PROVE  IdentityInv'
<1>1. Numbered(num) /\ Remembered(num) /\ num = number
  BY DEF Carried, Settled
<1>2. /\ \A u \in Listed(listing) :
           /\ u \in Uid /\ listing[u] \in on_box /\ listing[u] \in Name
           /\ number[listing[u]] = u
      /\ Listed(listing) \subseteq Numbers
      /\ \A u \in Uid : listing[u] \in Name <=> u \in Listed(listing)
  BY ListingSays, ListedAreNumbers DEF KnownInv
<1>3. \A u \in Uid : uid_names'[u] = IF u \in Listed(listing) THEN listing[u] ELSE uid_names[u]
  BY RememberNamed DEF IInv, WorldType
<1>4. \A r \in rows' \ rows : r.uid \in Listed(listing) /\ r.vpn = listing[r.uid]
  BY AddedFromListing
<1>5. Numbered(num)'
  BY <1>1 DEF Numbered, world
<1>6. Remembered(num)'
  <2>1. \A r \in rows' : num[r.vpn] = r.uid
    BY <1>1, <1>2, <1>4 DEF Remembered
  <2>2. \A u \in Uid : uid_names'[u] \in Name => num[uid_names'[u]] = u
    BY <1>1, <1>2, <1>3 DEF Remembered
  <2> QED
    BY <2>1, <2>2 DEF Remembered
<1>7. Settled(num)'
  <2>1. Listed(data) \subseteq seen_uids
    BY DEF IInv, Inv, ListedAreSeen
  <2>2. LeftOver' = {} => LeftOver = {}
    BY AddedFromListing DEF LeftOver, world
  <2> QED
    BY <1>2, <2>1, <2>2 DEF Settled, Numbers, world
<1> QED
  BY <1>5, <1>6, <1>7 DEF IdentityInv, Carried

\* A poll that tracks a list finds nothing in flight: a renumbering is noticed as
\* an outage first, and an empty list at the cap means an empty box.
LEMMA TrackedIdentity ==
  ASSUME Hazards = {}, IInv, OwnerInv, KnownInv, IdentityInv, IPoll, IPollTracked
  PROVE  IdentityInv'
<1>1. PICK num \in Numbering : Carried(num)
  BY DEF IdentityInv
<1>2. /\ loaded /\ UNCHANGED <<world, loaded>> /\ link = "up"
      /\ TrackMissing(listing)
      /\ AddEntities(listing, rows, devices, known_uids, entities)
      /\ PollNormal \/ PollEmptyAccepted
  BY DEF IPoll, IPollTracked, PollNormal, PollEmptyAccepted, EmptyWhileRecovering
<1>3. PollEmptyAccepted => on_box = {} /\ recovering' = FALSE
  <2> SUFFICES ASSUME PollEmptyAccepted PROVE on_box = {} /\ recovering' = FALSE
    OBVIOUS
  <2>1. /\ recovering /\ link = "up" /\ Listed(listing) = {} /\ recovery_age >= RecoveryMax
        /\ recovering' = FALSE
    BY DEF PollEmptyAccepted, EmptyWhileRecovering, RecoveryMaxElapsed, ClearRecovery
  <2>2. recovery_age \in Nat /\ RecoveryMax \in Nat
    BY WindowsAreNat DEF IInv, Inv, TypeOK
  <2> QED
    BY <2>1, <2>2 DEF KnownInv, AllOrNone
<1>4. PollNormal => ~recovering /\ recovering' = recovering
  BY DEF PollNormal, recovery
<1>5. Numbered(num) /\ Remembered(num) /\ Settled(num)
  <2>1. ~InFlight(num)
    BY <1>1, <1>2, <1>3, <1>4, InFlightMoves DEF InFlight
  <2> QED
    BY <1>1, <2>1 DEF Carried
<1>6. Remember(Remember(uid_names, listing), data) = Remember(uid_names, listing)
  <2> DEFINE names == Remember(uid_names, listing)
  <2>1. \A u \in Uid : u \in Listed(listing) => listing[u] \in Name /\ number[listing[u]] = u
    BY ListingSays DEF KnownInv
  <2>2. \A u \in Uid : u \in Listed(data) =>
          /\ data[u] \in Name /\ uid_names[u] = data[u] /\ num[data[u]] = u
    BY <1>5, KnownNames DEF Remembered, KnownInv
  <2>3. num = number
    BY <1>5 DEF Settled
  <2>4. \A u \in Uid : u \in Listed(data) /\ u \in Listed(listing) => data[u] = listing[u]
    BY <1>5, <2>1, <2>2, <2>3, AbsentAssumption DEF Numbered
  <2>5. \A u \in Uid : names[u] = IF u \in Listed(listing) THEN listing[u] ELSE uid_names[u]
    BY RememberNamed DEF IInv, WorldType
  <2>6. ASSUME NEW u \in Uid
        PROVE  Remember(names, data)[u] = names[u]
    <3>1. Remember(names, data)[u] = IF u \in Listed(data) THEN data[u] ELSE names[u]
      BY DataNamed, RememberNamed
    <3> QED
      BY <2>2, <2>4, <2>5, <3>1
  <2>7. names = [u \in Uid |-> names[u]]
    BY DEF Remember
  <2>8. Remember(names, data) = [u \in Uid |-> Remember(names, data)[u]]
    BY DEF Remember
  <2> HIDE DEF names
  <2> QED
    BY <2>6, <2>7, <2>8 DEF names
<1>7. /\ seen_uids' = seen_uids \union Listed(data) \union Listed(listing)
      /\ uid_names' = Remember(uid_names, listing)
  BY <1>2, <1>6 DEF TrackMissing, SeenWith
<1> QED
  BY <1>1, <1>2, <1>5, <1>7, AcceptedIdentity

\* The VPNs that have another UID now, and the UIDs they had.
Moved(num) == {v \in on_box : num[v] # number[v]}
OldUids(num) == {num[v] : v \in Moved(num)}

\* Nothing in flight: no removed UID has the name of a VPN on the box, so no
\* mapping is returned.
LEMMA SettledRemap ==
  ASSUME IInv, OwnerInv, KnownInv, IdentityInv, NEW num \in Numbering, Carried(num), Settled(num)
  PROVE  RemapProposed(listing) = [u \in {} |-> u]
<1> DEFINE names == Remember(uid_names, listing)
<1>1. SUFFICES ASSUME RemapAccepted(Removed(listing), Added(listing), names, listing)
               PROVE  FALSE
  BY DEF RemapProposed
<1>2. PICK u \in Removed(listing) : names[u] \in Name
  BY <1>1 DEF RemapAccepted, NamedApart
<1>3. PICK w \in Added(listing) : listing[w] = names[u]
  BY <1>1 DEF RemapAccepted
<1>4. u \in Uid /\ u \notin Listed(listing) /\ w \in Listed(listing)
  BY <1>1, <1>2, <1>3, NameAssumption DEF Removed, Added, IInv, Inv, TypeOK, Listed
<1>5. names[u] = uid_names[u]
  BY <1>4, RememberNamed DEF IInv, WorldType
<1>6. number[uid_names[u]] = u
  BY <1>2, <1>4, <1>5 DEF Carried, Remembered, Settled
<1>7. number[listing[w]] = w
  BY <1>4, ListingSays DEF KnownInv
<1> QED
  BY <1>3, <1>4, <1>5, <1>6, <1>7

\* A renumbering in flight meets the full list: every old UID is renamed to the
\* new one of the same VPN, and nothing is in the way.
LEMMA InFlightRemap ==
  ASSUME IInv, OwnerInv, KnownInv, IdentityInv, NEW num \in Numbering, Carried(num), InFlight(num),
         listing = FullListing
  PROVE  LET remap == RemapProposed(listing) IN
         /\ DOMAIN remap = OldUids(num)
         /\ \A v \in Moved(num) : remap[num[v]] = number[v]
         /\ Applied(rows, devices, remap) = OldUids(num)
<1> DEFINE remap == RemapProposed(listing)
           names == Remember(uid_names, listing)
           old == OldUids(num)
           new == {number[v] : v \in Moved(num)}
<1>1. Numbered(num) /\ Remembered(num) /\ WorldType
  BY DEF Carried, IInv
<1>2. /\ \A v \in on_box : /\ v \in Name /\ number[v] \in Uid /\ number[v] \in Listed(listing)
                           /\ listing[number[v]] = v
      /\ Listed(listing) = Numbers
  BY <1>1, FullListingIs, NumbersListed DEF WorldType
<1>3. \A v \in on_box : num[v] \in Uid /\ num[v] # Absent
  BY <1>1, <1>2 DEF Numbered, Numbering
<1>4. ASSUME NEW v \in Moved(num)
      PROVE  num[v] \notin Listed(listing) /\ number[v] \notin seen_uids
  <2>1. \A w \in on_box : num[v] # number[w] /\ number[v] # num[w]
    BY <1>1, <1>2, <1>3 DEF Moved, Numbered
  <2> QED
    BY <1>2, <2>1 DEF Numbers, InFlight
<1>5. Removed(listing) = old
  <2>1. \A v \in on_box : v \notin Moved(num) => num[v] \in Listed(listing)
    BY <1>2 DEF Moved
  <2>2. Moved(num) \subseteq on_box /\ seen_uids = {num[v] : v \in on_box}
    BY DEF Moved, InFlight
  <2> QED
    BY <1>4, <2>1, <2>2 DEF Removed, OldUids
<1>6. Added(listing) = new
  <2>1. \A v \in on_box : v \notin Moved(num) => number[v] \in seen_uids
    BY DEF Moved, InFlight
  <2>2. Moved(num) \subseteq on_box /\ Listed(listing) = {number[v] : v \in on_box}
    BY <1>2 DEF Moved, Numbers
  <2> QED
    BY <1>4, <2>1, <2>2 DEF Added
<1>7. ASSUME NEW v \in Moved(num)
      PROVE  names[num[v]] = v
  <2>1. v \in on_box /\ num[v] \in Uid /\ num[v] \in Listed(data)
    BY <1>3 DEF Moved, InFlight
  <2>2. uid_names[num[v]] = v
    <3>1. uid_names[num[v]] \in Name /\ num[uid_names[num[v]]] = num[v]
      BY <1>1, <2>1, KnownNames DEF Remembered
    <3> QED
      BY <1>1, <1>2, <1>3, <2>1, <3>1 DEF Numbered
  <2>3. names[num[v]] = uid_names[num[v]]
    BY <1>1, <1>4, <2>1, RememberNamed DEF WorldType
  <2> QED
    BY <2>2, <2>3
<1>8. Moved(num) # {} /\ Moved(num) \subseteq on_box
  BY InFlightMoves DEF Moved
<1> HIDE DEF names
<1>9. RemapAccepted(old, new, names, listing)
  <2>1. old # {} /\ new # {}
    BY <1>8 DEF OldUids
  <2>2. old \intersect new = {}
    BY <1>5, <1>6 DEF Removed, Added
  <2>3. NamedApart(old, names)
    BY <1>2, <1>7, <1>8 DEF NamedApart, OldUids
  <2>4. NamedApart(new, listing)
    BY <1>2, <1>8 DEF NamedApart
  <2>5. {names[u] : u \in old} = Moved(num) /\ {listing[u] : u \in new} = Moved(num)
    BY <1>2, <1>7, <1>8 DEF OldUids
  <2> QED
    BY <2>1, <2>2, <2>3, <2>4, <2>5 DEF RemapAccepted
<1>10. Pairing(remap, old, new, names, listing)
  <2>1. remap = NameRemap(old, new, names, listing)
    BY <1>5, <1>6, <1>9 DEF RemapProposed, names
  <2> QED
    BY <1>9, <2>1, RemapIsPairing
<1> HIDE DEF remap
<1>11. DOMAIN remap = old
  BY <1>10 DEF Pairing
<1>12. ASSUME NEW v \in Moved(num)
       PROVE  remap[num[v]] = number[v]
  <2>1. num[v] \in old
    BY DEF OldUids
  <2>2. remap[num[v]] \in new /\ listing[remap[num[v]]] = v
    BY <1>7, <1>10, <2>1 DEF Pairing
  <2> QED
    BY <1>2, <1>8, <2>2
<1>13. ASSUME NEW u \in old
       PROVE  u \in devices
  <2>1. u \in Listed(data)
    BY <1>8 DEF OldUids, InFlight
  <2>2. PICK p \in Platform : u \in RowsLive(p, entities)
    BY <2>1, PlatformAssumption DEF IInv, InFlight, Tracked
  <2>3. PICK e \in entities : e.platform = p /\ e.row = u
    BY <2>2 DEF RowsLive
  <2> QED
    BY <2>3 DEF IInv, Tracked, Consistent, HasKey, UidsOf
<1>14. ASSUME NEW u \in old, NEW r \in rows
       PROVE  r.uid # remap[u]
  <2>1. PICK v \in Moved(num) : u = num[v]
    BY DEF OldUids
  <2>2. r.vpn \in Name /\ num[r.vpn] = r.uid
    BY <1>1 DEF Remembered, IInv, Tracked, Row
  <2>3. v \in on_box /\ remap[u] = number[v]
    BY <1>8, <1>12, <2>1
  <2> QED
    BY <1>1, <1>2, <1>4, <2>1, <2>2, <2>3 DEF Numbered, Moved
<1>15. Conflicted(rows, devices, remap) = {}
  <2>1. devices = {r.uid : r \in rows}
    BY DEF IInv, Tracked, Consistent, UidsOf
  <2> QED
    BY <1>11, <1>14, <2>1 DEF Conflicted, HasKey
<1>16. Applied(rows, devices, remap) = old
  BY <1>11, <1>13, <1>15 DEF Applied
<1> QED
  BY <1>11, <1>12, <1>16 DEF remap

LEMMA NoRemapMovesNothing ==
  ASSUME IInv, NEW remap, DOMAIN remap = {}
  PROVE  LET moved == Applied(rows, devices, remap) IN
         /\ moved = {}
         /\ RemapRows(rows, remap, moved) = rows
         /\ RemapUids(devices, remap, moved) = devices
         /\ [p \in Platform |-> RemapUids(known_uids[p], remap, moved)] = known_uids
         /\ MovedEntities(entities, remap, moved) = entities
<1>1. Applied(rows, devices, remap) = {}
  BY DEF Applied
<1>2. \A u : Renamed(u, remap, {}) = u
  BY DEF Renamed
<1>3. /\ \A r \in rows : [r EXCEPT !.uid = Renamed(r.uid, remap, {})] = r
      /\ \A e \in entities : [e EXCEPT !.row = Renamed(e.row, remap, {})] = e
  BY <1>2 DEF IInv, Tracked, Row, Entity
<1>4. /\ RemapRows(rows, remap, {}) = rows
      /\ MovedEntities(entities, remap, {}) = entities
  BY <1>3 DEF RemapRows, MovedEntities
<1>5. \A uids : RemapUids(uids, remap, {}) = uids
  BY <1>2 DEF RemapUids
<1>6. [p \in Platform |-> RemapUids(known_uids[p], remap, {})] = known_uids
  BY <1>5 DEF IInv, Tracked
<1> QED
  BY <1>1, <1>4, <1>5, <1>6

\* Recovering with nothing in flight: the list is accepted as it is.
LEMMA RecoveringSettledIdentity ==
  ASSUME IInv, OwnerInv, KnownInv, IdentityInv, IPoll, IPollRecovering,
         NEW num \in Numbering, Carried(num), Settled(num)
  PROVE  IdentityInv'
<1> DEFINE remap == RemapProposed(listing)
           moved == Applied(rows, devices, remap)
<1>1. /\ PollRecovering(moved) /\ loaded /\ UNCHANGED <<world, loaded>>
      /\ AddEntities(listing, RemapRows(rows, remap, moved),
                     RemapUids(devices, remap, moved),
                     [p \in Platform |-> RemapUids(known_uids[p], remap, moved)],
                     MovedEntities(entities, remap, moved))
  BY DEF IPoll, IPollRecovering, MovedEntities
<1>2. remap = [u \in {} |-> u]
  BY SettledRemap
<1>3. DOMAIN remap = {}
  BY <1>2
<1> HIDE DEF remap
<1>4. moved = {} /\ AddEntities(listing, rows, devices, known_uids, entities)
  BY <1>1, <1>3, NoRemapMovesNothing
<1>5. ApplyUidRemap(listing, {})
  BY <1>1, <1>4 DEF PollRecovering
<1>6. /\ uid_names' = [u \in Uid |-> Remember(uid_names, listing)[u]]
      /\ seen_uids' = seen_uids \union Listed(data) \union Listed(listing)
  BY <1>5 DEF ApplyUidRemap, Redirected, SeenRemapped
<1>7. uid_names' = Remember(uid_names, listing)
  BY <1>6 DEF Remember
<1> QED
  BY <1>1, <1>4, <1>6, <1>7, AcceptedIdentity

\* The full list after a renumbering: rows and cached names are moved to the numbering
\* of the box.
LEMMA RecoveringInFlightIdentity ==
  ASSUME IInv, OwnerInv, KnownInv, IdentityInv, IPoll, IPollRecovering,
         NEW num \in Numbering, Carried(num), InFlight(num)
  PROVE  IdentityInv'
<1> DEFINE remap == RemapProposed(listing)
           moved == Applied(rows, devices, remap)
           old == OldUids(num)
           rows0 == RemapRows(rows, remap, moved)
<1>1. /\ PollRecovering(moved) /\ loaded /\ UNCHANGED <<world, loaded>>
      /\ AddEntities(listing, rows0, RemapUids(devices, remap, moved),
                     [p \in Platform |-> RemapUids(known_uids[p], remap, moved)],
                     MovedEntities(entities, remap, moved))
  BY DEF IPoll, IPollRecovering, MovedEntities
<1>2. /\ link = "up" /\ recovering /\ ~EmptyWhileRecovering
      /\ ApplyUidRemap(listing, moved) /\ NoteSuccessfulPoll(listing) /\ PollSucceeds
  BY <1>1 DEF PollRecovering
<1>3. data' = listing /\ UNCHANGED box
  BY <1>2 DEF PollSucceeds
<1>4. Numbered(num) /\ Remembered(num) /\ WorldType
  BY DEF Carried, IInv
<1>5. Listed(listing) # {} /\ listing = FullListing
  <2>1. seen_uids # {}
    BY InFlightMoves DEF InFlight
  <2>2. Listed(listing) # {}
    BY <1>2, <2>1 DEF EmptyWhileRecovering
  <2> QED
    BY <2>2, ListingSays DEF KnownInv
<1>6. /\ DOMAIN remap = old /\ moved = old
      /\ \A v \in Moved(num) : remap[num[v]] = number[v]
  BY <1>5, InFlightRemap
<1>8. \A r \in rows' \ rows0 : r.uid \in Listed(listing) /\ r.vpn = listing[r.uid]
  BY <1>1, AddedFromListing
<1>9. uid_names' = [u \in Uid |-> IF u \in old THEN NoName
                                  ELSE Remember(uid_names, listing)[u]]
  BY <1>2, <1>6 DEF ApplyUidRemap
<1>10. \A u \in Listed(listing) : u \in Uid /\ listing[u] \in on_box /\ number[listing[u]] = u
  BY <1>5, FullListingIs, ListedType
<1>11. /\ Moved(num) \subseteq on_box /\ on_box \subseteq Name
       /\ \A v \in Name : v \notin Moved(num) => num[v] = number[v]
  BY <1>4 DEF Moved, InFlight, WorldType
<1>13. \A v \in Name : num[v] \in old => v \in Moved(num)
  <2> SUFFICES ASSUME NEW v \in Name, NEW w \in Moved(num), num[v] = num[w]
               PROVE  v \in Moved(num)
    BY DEF OldUids
  <2>1. w \in on_box /\ w \in Name /\ num[w] # Absent
    BY <1>4, <1>11 DEF Numbered
  <2> QED
    BY <1>4, <2>1 DEF Numbered
<1> DEFINE row(r) == [r EXCEPT !.uid = Renamed(r.uid, remap, old)]
<1>14. rows0 = {row(r) : r \in rows}
  BY <1>6 DEF RemapRows
<1> HIDE DEF remap, rows0
<1>16. PICK num2 \in Numbering : num2 = number'
  BY <1>1, <1>4 DEF WorldType, world, Numbering
<1>17. num2 = number /\ number' = number
  BY <1>1, <1>16 DEF world
<1>18. Numbered(num2)'
  BY <1>1, <1>4, <1>17 DEF Numbered, world
<1>19. \A r \in rows' : num2[r.vpn] = r.uid
  <2>1. \A r \in rows' \ rows0 : num2[r.vpn] = r.uid
    BY <1>8, <1>10, <1>17
  <2>2. ASSUME NEW r \in rows
        PROVE  number[row(r).vpn] = row(r).uid
    <3>1. r.vpn \in Name /\ num[r.vpn] = r.uid
      BY <1>4 DEF Remembered, IInv, Tracked, Row
    <3>2. row(r).vpn = r.vpn /\ row(r).uid = Renamed(r.uid, remap, old)
      BY DEF IInv, Tracked, Row
    <3>3. Renamed(r.uid, remap, old) = number[r.vpn]
      BY <1>6, <1>11, <1>13, <3>1 DEF Renamed, OldUids
    <3> QED
      BY <3>2, <3>3
  <2> HIDE DEF row
  <2>3. \A r \in rows0 : number[r.vpn] = r.uid
    BY <1>14, <2>2
  <2> QED
    BY <1>17, <2>1, <2>3
<1>20. \A u \in Uid : u \notin old => uid_names'[u] = IF u \in Listed(listing) THEN listing[u]
                                                      ELSE uid_names[u]
  <2>1. \A u \in Uid : u \notin old => uid_names'[u] = Remember(uid_names, listing)[u]
    BY <1>9
  <2> QED
    BY <1>4, <2>1, RememberNamed DEF WorldType
<1>21. Remembered(num2)'
  <2>1. ASSUME NEW u \in Uid, uid_names'[u] \in Name
        PROVE  num2[uid_names'[u]] = u
    <3>1. u \notin old
      BY <1>9, <2>1, NameAssumption
    <3>2. CASE u \in Listed(listing)
      BY <1>10, <1>17, <1>20, <3>1, <3>2
    <3>3. CASE u \notin Listed(listing)
      <4>1. uid_names'[u] = uid_names[u] /\ num[uid_names[u]] = u
        BY <1>4, <1>20, <2>1, <3>1, <3>3 DEF Remembered
      <4>2. uid_names[u] \notin Moved(num)
        BY <3>1, <4>1 DEF OldUids
      <4> QED
        BY <1>11, <1>17, <2>1, <4>1, <4>2
    <3> QED
      BY <3>2, <3>3
  <2> QED
    BY <1>19, <2>1 DEF Remembered
<1>22. Settled(num2)'
  <2>1. renumberings'.load # 0
    BY <1>1 DEF InFlight, world
  <2> QED
    BY <1>16, <2>1 DEF Settled
<1> QED
  BY <1>18, <1>21, <1>22 DEF IdentityInv, Carried

LEMMA IPollIdentity ==
  ASSUME Hazards = {}, IInv, OwnerInv, KnownInv, IdentityInv, IPoll
  PROVE  IdentityInv'
<1>1. PICK num \in Numbering : Carried(num)
  BY DEF IdentityInv
<1>2. CASE IPollRecovering
  <2>1. CASE InFlight(num)
    BY <1>1, <1>2, <2>1, RecoveringInFlightIdentity
  <2>2. CASE Settled(num)
    BY <1>1, <1>2, <2>2, RecoveringSettledIdentity
  <2> QED
    BY <1>1, <2>1, <2>2 DEF Carried
<1> QED
  BY <1>2, TrackedIdentity, FailureKeepsIdentity DEF IPoll

LEMMA BoxChangeIdentity ==
  ASSUME Hazards = {}, IInv, OwnerInv, KnownInv, IdentityInv, BoxChange
  PROVE  IdentityInv'
<1>1. BoxFails \/ BoxAnswers \/ BoxRenumbers \/ UserCreatesVpn \/ UserDeletesVpn
  BY DEF BoxChange
<1> QED
  BY <1>1, LinkIdentity, BoxRenumbersIdentity, UserCreatesVpnIdentity, UserDeletesVpnIdentity

LEMMA StutterIdentity ==
  ASSUME IdentityInv, UNCHANGED ivars
  PROVE  IdentityInv'
<1>1. PICK num \in Numbering : Carried(num)
  BY DEF IdentityInv
<1>2. /\ UNCHANGED <<on_box, number, used_uids, renumberings, loaded, rows>>
      /\ UNCHANGED <<data, seen_uids, uid_names, link, recovering>>
  BY DEF ivars, vars, box, tracking, recovery, world, registry
<1>3. Numbered(num)' /\ Remembered(num)'
  BY <1>1, <1>2 DEF Carried, Numbered, Remembered
<1>4. InFlight(num)' \/ Settled(num)'
  BY <1>1, <1>2 DEF Carried, InFlight, Settled, Numbers, LeftOver
<1> QED
  BY <1>3, <1>4 DEF IdentityInv, Carried

LEMMA IStepIdentity ==
  ASSUME Hazards = {}
  PROVE  IInv /\ OwnerInv /\ KnownInv /\ IdentityInv /\ [INext]_ivars => IdentityInv'
<1> SUFFICES ASSUME IInv, OwnerInv, KnownInv, IdentityInv, [INext]_ivars PROVE IdentityInv'
  OBVIOUS
<1> QED
  BY StutterIdentity, IPollIdentity, ITickIdentity, ISetupIdentity, IUnloadIdentity,
     IRemoveUnavailableIdentity, BoxChangeIdentity DEF INext

\* Whatever happens on the box the documentation describes, rows and names go by one
\* numbering of the VPNs.
THEOREM IdentityInvHolds ==
  ASSUME Hazards = {}
  PROVE  ISpec => [](IInv /\ OwnerInv /\ KnownInv /\ IdentityInv)
<1>1. IInit => IInv /\ OwnerInv /\ KnownInv /\ IdentityInv
  BY IInitInv, IInitOwners, IInitKnown, IInitIdentity
<1>2. IInv /\ OwnerInv /\ KnownInv /\ IdentityInv /\ [INext]_ivars
        => (IInv /\ OwnerInv /\ KnownInv /\ IdentityInv)'
  BY IStepInv, IStepOwners, IStepKnown, IStepIdentity
<1> QED
  BY <1>1, <1>2, PTL DEF ISpec

\* On a box that shows all its VPNs or none, hands out no UID twice, renumbers at most
\* once in a load and is seen to go down: no two rows of a platform are for one VPN.
THEOREM NoDuplicateRowsHolds ==
  ASSUME Hazards = {}
  PROVE  ISpec => []NoDuplicateRows
<1>1. IInv /\ IdentityInv => NoDuplicateRows
  BY DEF IdentityInv, Carried, Remembered, NoDuplicateRows, IInv, Tracked, Consistent, UniqueKeys
<1> QED
  BY <1>1, IdentityInvHolds, PTL
==============================================================================
