------------------------- MODULE RegistryRemapProofs -------------------------
(***************************************************************************)
(* The loop of remap_connection_uids meets no refusal and computes the     *)
(* operators of EntityRegistry, for all registries, mappings and orders.   *)
(* The argument: at any time the registry is the one before, with the rows *)
(* of the UIDs done so far moved, and some of the current one.             *)
(***************************************************************************)
EXTENDS RegistryRemap, TLAPS, FiniteSetTheorems

\* What the plan lets through, and what has been renamed of it
Plan0 == Applied(before.rows, before.devices, remap)
Moved(q) ==
  \/ q.uid \in applied
  \/ current # Idle /\ q.uid = current.uid /\ q \notin current.rows
Now(q) == IF Moved(q) THEN [q EXCEPT !.uid = remap[q.uid]] ELSE q

Typed ==
  /\ remap \in Remaps
  /\ before \in [rows : SUBSET Key, devices : SUBSET Uid]
  /\ planned = NotPlanned \/ planned \in SUBSET Uid
  /\ current = Idle \/ current \in [uid : Uid, rows : SUBSET Key]

\* Each UID of the plan is waiting, at work, or done.
Progress ==
  IF planned = NotPlanned THEN applied = {} /\ current = Idle
  ELSE /\ planned \intersect applied = {}
       /\ planned \union applied \union (IF current = Idle THEN {} ELSE {current.uid}) = Plan0
       /\ current # Idle => /\ current.uid \notin planned \union applied
                            /\ current.rows \subseteq RowsOf(before.rows, current.uid)

Contents ==
  /\ rows = {Now(q) : q \in before.rows}
  /\ devices = RemapUids(before.devices, remap, applied)

Inv == Typed /\ Progress /\ Contents /\ refused = FALSE

-----------------------------------------------------------------------------

LEMMA MarksAreApart ==
  NotPlanned \notin SUBSET Uid /\ Idle \notin [uid : Uid, rows : SUBSET Key]
<1>1. ASSUME NEW c \in [uid : Uid, rows : SUBSET Key] PROVE Idle # c
  <2>1. c = [uid |-> c.uid, rows |-> c.rows] /\ c.uid \in Uid /\ c.rows \in SUBSET Key
    OBVIOUS
  <2> QED
    BY <2>1, MarksAssumption
<1> QED
  BY <1>1, MarksAssumption

LEMMA RemapFacts ==
  ASSUME remap \in Remaps
  PROVE  /\ DOMAIN remap \subseteq Uid
         /\ \A u \in DOMAIN remap : remap[u] \in Uid \ DOMAIN remap
         /\ \A u, v \in DOMAIN remap : remap[u] = remap[v] => u = v
         /\ Plan0 \subseteq DOMAIN remap
<1>1. PICK old \in SUBSET Uid : remap \in [old -> Uid \ old]
                                /\ \A u, v \in old : remap[u] = remap[v] => u = v
  BY DEF Remaps
<1> QED
  BY <1>1 DEF Plan0, Applied

\* The UIDs that are done or at work are in the plan, so they have no conflict.
LEMMA PlanFacts ==
  ASSUME Inv
  PROVE  /\ applied \subseteq DOMAIN remap /\ applied \subseteq Plan0
         /\ current # Idle => /\ current.uid \in DOMAIN remap /\ current.uid \in Plan0
                              /\ current \in [uid : Uid, rows : SUBSET Key]
                              /\ planned # NotPlanned
         /\ planned # NotPlanned => planned \subseteq DOMAIN remap
         /\ before.rows \subseteq Key
<1>1. Plan0 \subseteq DOMAIN remap
  BY RemapFacts DEF Inv, Typed
<1> QED
  BY <1>1 DEF Inv, Typed, Progress

\* Where a row is now
LEMMA NowFacts ==
  ASSUME Inv, NEW q \in before.rows
  PROVE  /\ q \in Key /\ Now(q) \in Key /\ Now(q).platform = q.platform
         /\ ~Moved(q) => Now(q) = q
         /\ Moved(q) => /\ q.uid \in DOMAIN remap /\ q.uid \in Plan0
                        /\ Now(q).uid = remap[q.uid]
                        /\ Now(q).uid \notin DOMAIN remap
<1>1. q \in Key
  BY PlanFacts
<1>2. Moved(q) => q.uid \in DOMAIN remap /\ q.uid \in Plan0
  BY PlanFacts DEF Moved
<1>3. \A u \in DOMAIN remap : remap[u] \in Uid /\ remap[u] \notin DOMAIN remap
  BY RemapFacts DEF Inv, Typed
<1> QED
  BY <1>1, <1>2, <1>3 DEF Now, Key

\* Nothing but a row itself is where a row with an old UID is.
LEMMA NothingInItsPlace ==
  ASSUME Inv, NEW q \in before.rows, Now(q).uid \in DOMAIN remap
  PROVE  ~Moved(q) /\ Now(q) = q
BY NowFacts

LEMMA InitEstablishesInv == Init => Inv
<1> SUFFICES ASSUME Init PROVE Inv
  OBVIOUS
<1>1. Typed
  BY DEF Init, Typed
<1>2. \A q : ~Moved(q)
  BY DEF Init, Moved
<1>3. rows = {Now(q) : q \in before.rows}
  BY <1>2 DEF Init, Now
<1>4. devices = RemapUids(before.devices, remap, applied)
  BY DEF Init, RemapUids, Renamed
<1> QED
  BY <1>1, <1>3, <1>4 DEF Init, Inv, Progress, Contents

LEMMA PlanKeepsInv == Inv /\ Plan => Inv'
<1> SUFFICES ASSUME Inv, Plan PROVE Inv'
  OBVIOUS
<1>0. UNCHANGED <<remap, before, rows, devices, current, applied, refused>>
  BY DEF Plan
<1>1. /\ planned' = Plan0 /\ applied = {} /\ current = Idle
      /\ UNCHANGED <<remap, before, rows, devices, current, applied, refused>>
  <2>1. planned = NotPlanned /\ planned' = Applied(rows, devices, remap)
    BY DEF Plan
  <2>2. applied = {} /\ current = Idle
    BY <2>1 DEF Inv, Progress
  <2>3. \A q \in before.rows : Now(q) = q
    BY <2>2 DEF Now, Moved
  <2>4. rows = before.rows
    BY <2>3 DEF Inv, Contents
  <2>5. devices = before.devices
    BY <2>2 DEF Inv, Contents, RemapUids, Renamed
  <2> QED
    BY <1>0, <2>1, <2>2, <2>4, <2>5 DEF Plan0
<1>2. Plan0' = Plan0
  BY <1>1 DEF Plan0
<1>3. Plan0 \in SUBSET Uid
  BY RemapFacts DEF Inv, Typed
<1>4. Typed'
  BY <1>1, <1>3 DEF Inv, Typed
<1>5. Progress'
  BY <1>1, <1>2, <1>3, MarksAreApart DEF Progress
<1>6. Contents'
  BY <1>1 DEF Inv, Contents, Now, Moved
<1> QED
  BY <1>1, <1>4, <1>5, <1>6 DEF Inv

\* The rows found for the current UID are those it had before.
LEMMA StartUidKeepsInv ==
  ASSUME Inv, NEW u \in Uid, StartUid(u)
  PROVE  Inv'
<1>1. /\ planned # NotPlanned /\ current = Idle /\ u \in planned
      /\ planned' = planned \ {u} /\ current' = [uid |-> u, rows |-> RowsOf(rows, u)]
      /\ UNCHANGED <<remap, before, rows, devices, applied, refused>>
  BY DEF StartUid
<1>2. u \in DOMAIN remap /\ u \notin applied /\ planned \in SUBSET Uid
  BY <1>1, PlanFacts DEF Inv, Progress, Typed
<1>3. \A q \in before.rows : q.uid = u => Now(q) = q
  BY <1>1, <1>2 DEF Moved, Now
<1>4. \A q \in before.rows : Now(q).uid = u => Now(q) = q
  BY <1>2, NothingInItsPlace
<1>5. RowsOf(rows, u) = RowsOf(before.rows, u)
  BY <1>3, <1>4 DEF Inv, Contents, RowsOf
<1>6. RowsOf(rows, u) \in SUBSET Key
  BY <1>5, PlanFacts DEF RowsOf
<1>7. current' \in [uid : Uid, rows : SUBSET Key]
  BY <1>1, <1>6
<1>8. current' # Idle
  BY <1>7, MarksAreApart
<1>9. Typed'
  BY <1>1, <1>2, <1>7 DEF Inv, Typed
<1>10. Progress'
  <2>1. Plan0' = Plan0
    BY <1>1 DEF Plan0
  <2>2. planned' # NotPlanned
    BY <1>1, <1>2, MarksAreApart
  <2>3. current'.uid = u /\ current'.rows = RowsOf(before.rows, u)
    BY <1>1, <1>5
  <2>4. planned \intersect applied = {} /\ planned \union applied = Plan0
    BY <1>1 DEF Inv, Progress
  <2> QED
    BY <1>1, <1>2, <1>8, <2>1, <2>2, <2>3, <2>4 DEF Progress
<1>11. \A q \in before.rows : Moved(q)' <=> Moved(q)
  BY <1>1, <1>5, <1>8 DEF Moved, RowsOf
<1>12. \A q \in before.rows : Now(q)' = Now(q)
  BY <1>1, <1>11 DEF Now
<1>13. Contents'
  BY <1>1, <1>12 DEF Inv, Contents
<1> QED
  BY <1>1, <1>9, <1>10, <1>13 DEF Inv

\* The plan has looked for rows in the way before any was renamed, and none of those
\* renamed since got there: two UIDs are not renamed to the same one.
LEMMA NothingInTheWay ==
  ASSUME Inv, NEW r \in Key, current # Idle, r \in current.rows
  PROVE  /\ ~HasKey(rows, r.platform, remap[r.uid])
         /\ r \in before.rows /\ r.uid = current.uid /\ ~Moved(r) /\ Now(r) = r
<1>1. /\ r \in before.rows /\ r.uid = current.uid /\ r.uid \in DOMAIN remap /\ r.uid \in Plan0
  BY PlanFacts DEF Inv, Progress, RowsOf
<1>2. r.uid \notin applied
  BY <1>1, PlanFacts DEF Inv, Progress
<1>3. ~Moved(r) /\ Now(r) = r
  BY <1>1, <1>2, NowFacts DEF Moved
<1>4. ASSUME NEW s \in rows, s.platform = r.platform, s.uid = remap[r.uid]
      PROVE  FALSE
  <2>1. PICK q \in before.rows : s = Now(q)
    BY DEF Inv, Contents
  <2>2. q.platform = r.platform /\ q \in Key
    BY <1>4, <2>1, NowFacts
  <2>3. CASE Moved(q)
    <3>1. q.uid \in DOMAIN remap /\ remap[q.uid] = remap[r.uid]
      BY <1>4, <2>1, <2>3, NowFacts
    <3>2. q.uid = r.uid
      BY <1>1, <3>1, RemapFacts DEF Inv, Typed
    <3>3. q = r
      BY <2>2, <3>2 DEF Key
    <3> QED
      BY <1>3, <2>3, <3>3
  <2>4. CASE ~Moved(q)
    <3>1. q.uid = remap[r.uid]
      BY <1>4, <2>1, <2>4, NowFacts
    <3>2. HasKey(before.rows, r.platform, remap[r.uid])
      BY <2>2, <3>1 DEF HasKey
    <3>3. r.uid \in Conflicted(before.rows, before.devices, remap)
      BY <1>1, <3>2 DEF Conflicted, RowsOf
    <3> QED
      BY <1>1, <3>3 DEF Plan0, Applied
  <2> QED
    BY <2>3, <2>4
<1> QED
  BY <1>1, <1>3, <1>4 DEF HasKey

LEMMA RenameRowKeepsInv ==
  ASSUME Inv, NEW r \in Key, RenameRow(r)
  PROVE  Inv'
<1>1. /\ current # Idle /\ r \in current.rows
      /\ current' = [current EXCEPT !.rows = @ \ {r}]
      /\ UNCHANGED <<remap, before, devices, planned, applied>>
  BY DEF RenameRow
<1>2. /\ ~HasKey(rows, r.platform, remap[r.uid])
      /\ r \in before.rows /\ r.uid = current.uid /\ ~Moved(r) /\ Now(r) = r
  BY <1>1, NothingInTheWay
<1>3. /\ rows' = (rows \ {r}) \union {[r EXCEPT !.uid = remap[r.uid]]} /\ refused' = refused
  BY <1>2 DEF RenameRow
<1>4. /\ current \in [uid : Uid, rows : SUBSET Key] /\ current' \in [uid : Uid, rows : SUBSET Key]
      /\ current'.uid = current.uid /\ current'.rows = current.rows \ {r}
      /\ r.uid \in DOMAIN remap
  BY <1>1, <1>2, PlanFacts
<1>5. current' # Idle
  BY <1>4, MarksAreApart
<1>6. Typed'
  BY <1>1, <1>4 DEF Inv, Typed
<1>7. Progress'
  <2>1. Plan0' = Plan0
    BY <1>1 DEF Plan0
  <2>2. planned # NotPlanned
    BY <1>1, PlanFacts
  <2> QED
    BY <1>1, <1>4, <1>5, <2>1, <2>2 DEF Inv, Progress
<1>8. \A q \in before.rows : Moved(q)' <=> Moved(q) \/ q = r
  BY <1>1, <1>2, <1>4, <1>5 DEF Moved
<1>9. \A q \in before.rows : Now(q)' = IF q = r THEN [r EXCEPT !.uid = remap[r.uid]] ELSE Now(q)
  BY <1>1, <1>8 DEF Now
<1>10. \A q \in before.rows : q # r => Now(q) # r
  BY <1>4, NothingInItsPlace
<1>11. rows' = {Now(q)' : q \in before.rows}
  BY <1>2, <1>3, <1>9, <1>10 DEF Inv, Contents
<1>12. Contents'
  BY <1>1, <1>11 DEF Inv, Contents
<1> QED
  BY <1>3, <1>6, <1>7, <1>12 DEF Inv

LEMMA FinishUidKeepsInv == Inv /\ FinishUid => Inv'
<1> SUFFICES ASSUME Inv, FinishUid PROVE Inv'
  OBVIOUS
<1> DEFINE c == current.uid
<1>1. /\ current # Idle /\ current.rows = {} /\ current' = Idle
      /\ devices' = RemapUids(devices, remap, {c}) /\ applied' = applied \union {c}
      /\ UNCHANGED <<remap, before, rows, planned, refused>>
  BY DEF FinishUid, DevicesRenamed, Reported
<1>2. c \in DOMAIN remap /\ planned # NotPlanned /\ c \notin planned \union applied
      /\ applied \subseteq DOMAIN remap
  BY <1>1, PlanFacts DEF Inv, Progress
<1>3. Typed'
  BY <1>1 DEF Inv, Typed
<1>4. Progress'
  <2>1. Plan0' = Plan0
    BY <1>1 DEF Plan0
  <2> QED
    BY <1>1, <1>2, <2>1 DEF Inv, Progress
<1>5. \A q \in before.rows : Moved(q)' <=> Moved(q)
  BY <1>1 DEF Moved
<1>6. \A q \in before.rows : Now(q)' = Now(q)
  BY <1>1, <1>5 DEF Now
<1>7. ASSUME NEW d
      PROVE  Renamed(Renamed(d, remap, applied), remap, {c}) = Renamed(d, remap, applied')
  <2>1. d \in applied => remap[d] # c
    BY <1>2, RemapFacts DEF Inv, Typed
  <2> QED
    BY <1>1, <2>1 DEF Renamed
<1>8. devices' = {Renamed(d, remap, applied') : d \in before.devices}
  BY <1>1, <1>7 DEF Inv, Contents, RemapUids
<1>9. Contents'
  BY <1>1, <1>6, <1>8 DEF Inv, Contents, RemapUids
<1> QED
  BY <1>1, <1>3, <1>4, <1>9 DEF Inv

\* The invariant: the registry is always the one before with the rows of the plan
\* moved as far as the loop has come, and it has refused nothing.
THEOREM InvHolds == Spec => []Inv
<1>1. Inv /\ [Next]_vars => Inv'
  <2> SUFFICES ASSUME Inv, [Next]_vars PROVE Inv'
    OBVIOUS
  <2>1. CASE UNCHANGED vars
    <3>1. Typed' /\ Progress'
      BY <2>1 DEF vars, Inv, Typed, Progress, Plan0
    <3>2. \A q : Now(q)' = Now(q)
      BY <2>1 DEF vars, Now, Moved
    <3>3. Contents'
      BY <2>1, <3>2 DEF vars, Inv, Contents
    <3> QED
      BY <2>1, <3>1, <3>3 DEF vars, Inv
  <2> QED
    BY <2>1, PlanKeepsInv, StartUidKeepsInv, RenameRowKeepsInv, FinishUidKeepsInv DEF Next
<1> QED
  BY <1>1, InitEstablishesInv, PTL DEF Spec

\* TypeOK: the sets of UIDs and rows that the loop works on are what it takes them for.
THEOREM TypeCorrect == Spec => []TypeOK
<1>1. Inv => TypeOK
  <2> SUFFICES ASSUME Inv PROVE TypeOK
    OBVIOUS
  <2>1. rows \subseteq Key
    BY NowFacts DEF Inv, Contents
  <2>2. devices \subseteq Uid
    BY PlanFacts, RemapFacts DEF Inv, Typed, Contents, RemapUids, Renamed
  <2> QED
    BY <2>1, <2>2, PlanFacts DEF Inv, Typed, TypeOK
<1> QED
  BY <1>1, InvHolds, PTL

\* NeverRefused: whatever registries, mapping and order, no renaming of the plan meets
\* a unique_id in use, so remap_connection_uids never raises half way.
THEOREM NeverRefusedHolds == Spec => []NeverRefused
<1>1. Inv => NeverRefused
  BY DEF Inv, NeverRefused
<1> QED
  BY <1>1, InvHolds, PTL

\* LoopMatchesOperators: what the loop has done at its end is the one-step renaming
\* that Integration uses.
THEOREM LoopMatches == Spec => []LoopMatchesOperators
<1>1. Inv => LoopMatchesOperators
  <2> SUFFICES ASSUME Inv, Done PROVE LoopMatchesOperators
    BY DEF LoopMatchesOperators
  <2>1. planned # NotPlanned
    BY MarksAreApart DEF Done
  <2>2. applied = Plan0
    BY <2>1 DEF Inv, Progress, Done
  <2>3. \A q \in before.rows : Now(q) = [q EXCEPT !.uid = Renamed(q.uid, remap, applied)]
    BY PlanFacts DEF Done, Now, Moved, Renamed, Key
  <2>4. rows = RemapRows(before.rows, remap, applied)
    BY <2>3 DEF Inv, Contents, RemapRows
  <2> QED
    BY <2>2, <2>4 DEF Inv, Contents, LoopMatchesOperators, Plan0
<1> QED
  BY <1>1, InvHolds, PTL

\* AllOrNothing: at the end each UID has moved with all its rows and its device, or has
\* kept them all.
THEOREM AllOrNothingHolds == Spec => []AllOrNothing
<1>1. Inv => AllOrNothing
  <2> SUFFICES ASSUME Inv, Done, NEW u \in DOMAIN remap
               PROVE  IF u \in applied
                      THEN RowsOf(rows, u) = {} /\ u \notin devices
                      ELSE RowsOf(rows, u) = RowsOf(before.rows, u)
                             /\ (u \in devices <=> u \in before.devices)
    BY DEF AllOrNothing
  <2>1. \A q \in before.rows : Moved(q) <=> q.uid \in applied
    BY DEF Done, Moved
  <2>2. \A q \in before.rows : Now(q).uid = u => ~Moved(q) /\ Now(q) = q
    BY NothingInItsPlace
  <2>3. \A q \in before.rows : q.uid = u /\ u \notin applied => Now(q) = q
    BY <2>1, NowFacts
  <2>4. \A d : Renamed(d, remap, applied) = u <=> d = u /\ u \notin applied
    BY PlanFacts, RemapFacts DEF Inv, Typed, Renamed
  <2>5. u \in devices <=> u \in before.devices /\ u \notin applied
    BY <2>4 DEF Inv, Contents, RemapUids
  <2>6. RowsOf(rows, u) = IF u \in applied THEN {} ELSE RowsOf(before.rows, u)
    BY <2>1, <2>2, <2>3 DEF Inv, Contents, RowsOf
  <2> QED
    BY <2>5, <2>6
<1> QED
  BY <1>1, InvHolds, PTL

\* A function that sends no two members of a finite set to the same place leaves as
\* many as there were.
LEMMA OneToOneKeepsCount ==
  ASSUME NEW S, NEW T, IsFiniteSet(S), NEW f \in [S -> T],
         \A a, b \in S : f[a] = f[b] => a = b,
         \A t \in T : \E a \in S : f[a] = t
  PROVE  Cardinality(T) = Cardinality(S)
<1>1. f \in Bijection(S, T)
  BY DEF Bijection, Injection, Surjection, IsInjective
<1> QED
  BY <1>1, FS_Bijection DEF ExistsBijection

\* No two rows are in the same place: a moved row has the UID of no row on its
\* platform, and two of them have different ones.
LEMMA RowsStayApart ==
  ASSUME Inv, NEW p \in before.rows, NEW q \in before.rows, Now(p) = Now(q)
  PROVE  p = q
<1>1. ASSUME NEW a \in before.rows, NEW b \in before.rows, Now(a) = Now(b),
             Moved(a), ~Moved(b)
      PROVE  FALSE
  <2>1. /\ a.uid \in DOMAIN remap /\ a.uid \in Plan0
        /\ b.uid = remap[a.uid] /\ b.platform = a.platform
    BY <1>1, NowFacts
  <2>2. a.uid \in Conflicted(before.rows, before.devices, remap)
    BY <2>1 DEF Conflicted, RowsOf, HasKey
  <2> QED
    BY <2>1, <2>2 DEF Plan0, Applied
<1>2. CASE Moved(p) /\ Moved(q)
  <2>1. /\ p.uid \in DOMAIN remap /\ q.uid \in DOMAIN remap
        /\ remap[p.uid] = remap[q.uid] /\ p.platform = q.platform
    BY <1>2, NowFacts
  <2>2. p.uid = q.uid
    BY <2>1, RemapFacts DEF Inv, Typed
  <2> QED
    BY <2>1, <2>2, NowFacts DEF Key
<1>3. CASE ~Moved(p) /\ ~Moved(q)
  BY <1>3, NowFacts
<1> QED
  BY <1>1, <1>2, <1>3

\* Nor are two devices: one whose new UID has a device already is not renamed.
LEMMA DevicesStayApart ==
  ASSUME Inv, NEW d \in before.devices, NEW e \in before.devices,
         Renamed(d, remap, applied) = Renamed(e, remap, applied)
  PROVE  d = e
<1>1. ASSUME NEW a \in before.devices, a \in applied
      PROVE  a \in DOMAIN remap /\ remap[a] \notin before.devices
  <2>1. a \in DOMAIN remap /\ a \in Plan0
    BY <1>1, PlanFacts
  <2>2. a \notin Conflicted(before.rows, before.devices, remap)
    BY <2>1 DEF Plan0, Applied
  <2> QED
    BY <1>1, <2>1, <2>2 DEF Conflicted
<1> QED
  BY <1>1, RemapFacts DEF Renamed, Inv, Typed

\* NothingLost: of a registry, which is finite, no row and no device is lost and no
\* two are merged, at any point of the loop.
THEOREM NothingLostHolds ==
  Spec => [](IsFiniteSet(before.rows) /\ IsFiniteSet(before.devices) => NothingLost)
<1>1. ASSUME Inv, IsFiniteSet(before.rows), IsFiniteSet(before.devices)
      PROVE  NothingLost
  <2>1. Cardinality(rows) = Cardinality(before.rows)
    <3> DEFINE f == [q \in before.rows |-> Now(q)]
    <3>1. f \in [before.rows -> rows] /\ \A t \in rows : \E q \in before.rows : f[q] = t
      BY <1>1 DEF Inv, Contents
    <3>2. \A p, q \in before.rows : f[p] = f[q] => p = q
      BY <1>1, RowsStayApart
    <3> HIDE DEF f
    <3> QED
      BY <1>1, <3>1, <3>2, OneToOneKeepsCount
  <2>2. Cardinality(devices) = Cardinality(before.devices)
    <3> DEFINE f == [d \in before.devices |-> Renamed(d, remap, applied)]
    <3>1. /\ f \in [before.devices -> devices]
          /\ \A t \in devices : \E d \in before.devices : f[d] = t
      BY <1>1 DEF Inv, Contents, RemapUids
    <3>2. \A d, e \in before.devices : f[d] = f[e] => d = e
      BY <1>1, DevicesStayApart
    <3> HIDE DEF f
    <3> QED
      BY <1>1, <3>1, <3>2, OneToOneKeepsCount
  <2> QED
    BY <2>1, <2>2 DEF NothingLost
<1> QED
  BY <1>1, InvHolds, PTL
==============================================================================
