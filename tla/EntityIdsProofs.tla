--------------------------- MODULE EntityIdsProofs ---------------------------
(***************************************************************************)
(* What holds of entity IDs for any platforms, names and UIDs.             *)
(*                                                                         *)
(* Each repair by itself, for any rows: no two get the same ID, none gets  *)
(* an ID of another integration, and no row of a VPN that is listed is     *)
(* removed.  So Home Assistant has no reason to refuse an update half way  *)
(* through a repair.  All of EntityIds: the registries stay in order       *)
(* (EInv), and listed rows stay.  And where no name ends in a number:      *)
(* setup leaves IDs as they were asked for, a repair merges what it should *)
(* (SInv, which says of every row what it was asked for), and repairs      *)
(* come to an end (RInv, which counts the entities that are not on the ID  *)
(* of their name).                                                         *)
(***************************************************************************)
EXTENDS EntityIds, TLAPS, FiniteSetTheorems

Rows == [platform : Platform \union {Broken}, uid : Uid \union {NoName},
         wanted : Seq(Word), id : Seq(Word)]

\* The registry before and after a repair
Proper(rws, others) == UniqueIds(rws) /\ Ids(rws) \intersect others = {}

\* The kept rows, of which some have moved
Moved(kept, moving, target) ==
  {IF r \in moving THEN [r EXCEPT !.id = target[r]] ELSE r : r \in kept}

\* The number of a numbered ID is one of the numerals.
LEMMA NumberOfType ==
  ASSUME NEW id, Numbered(id)
  PROVE  NumberOf(id) \in {1, 2, 3, 4, 5}
<1>1. Len(Numerals) = 5
  BY DEF Numerals
<1>2. \E n \in 1..Len(Numerals) : Numerals[n] = Last(id)
  BY DEF Numbered
<1>3. NumberOf(id) \in 1..Len(Numerals)
  BY <1>2 DEF NumberOf
<1> QED
  BY <1>1, <1>3

\* Among numbered rows there is one with the lowest number.
LEMMA LowestNumberExists ==
  ASSUME NEW candidates, candidates # {},
         \A r \in candidates : Numbered(r.id)
  PROVE  LowestNumber(candidates) \in candidates
<1> DEFINE Low(r) == \A s \in candidates : NumberOf(r.id) <= NumberOf(s.id)
           Of(n) == {r \in candidates : NumberOf(r.id) = n}
<1>1. \A r \in candidates : NumberOf(r.id) \in {1, 2, 3, 4, 5}
  BY NumberOfType
<1>2. \E r \in candidates : Low(r)
  <2>1. CASE Of(1) # {}
    BY <1>1, <2>1
  <2>2. CASE Of(1) = {} /\ Of(2) # {}
    BY <1>1, <2>2
  <2>3. CASE Of(1) = {} /\ Of(2) = {} /\ Of(3) # {}
    BY <1>1, <2>3
  <2>4. CASE Of(1) = {} /\ Of(2) = {} /\ Of(3) = {} /\ Of(4) # {}
    BY <1>1, <2>4
  <2>5. CASE Of(1) = {} /\ Of(2) = {} /\ Of(3) = {} /\ Of(4) = {}
    BY <1>1, <2>5
  <2> QED
    BY <2>1, <2>2, <2>3, <2>4, <2>5
<1> QED
  BY <1>2 DEF LowestNumber

-----------------------------------------------------------------------------

\* Rows that move to IDs that nobody has, and no two to the same one, end up with
\* IDs of their own.  Rows may be removed on the way.
LEMMA MovesKeepIdsProper ==
  ASSUME NEW rws \in SUBSET Rows, NEW others, Proper(rws, others),
         NEW kept \in SUBSET rws, NEW moving \in SUBSET kept,
         NEW target \in [moving -> Seq(Word)],
         \A r \in moving : target[r] \notin others,
         \A r \in moving : \A s \in kept \ moving : target[r] # s.id,
         \A r, s \in moving : target[r] = target[s] => r = s
  PROVE  Proper(Moved(kept, moving, target), others)
<1> DEFINE moved(r) == IF r \in moving THEN [r EXCEPT !.id = target[r]] ELSE r
           id(r) == IF r \in moving THEN target[r] ELSE r.id
           after == {moved(r) : r \in kept}
<1>1. ASSUME NEW r \in kept
      PROVE  moved(r).id = id(r)
  BY DEF Rows
<1>2. ASSUME NEW r \in kept, NEW s \in kept, id(r) = id(s)
      PROVE  r = s
  BY <1>2 DEF Proper, UniqueIds
<1>3. \A r \in kept : id(r) \notin others
  BY DEF Proper, Ids
<1> HIDE DEF moved, id
<1>4. UniqueIds(after)
  BY <1>1, <1>2 DEF UniqueIds
<1>5. Ids(after) \intersect others = {}
  BY <1>1, <1>3 DEF Ids
<1>6. Proper(after, others)
  BY <1>4, <1>5 DEF Proper
<1> QED
  BY <1>6 DEF moved, Moved

\* repair_legacy_entity_object_ids, whichever of the rows that want an ID gets it:
\* IDs stay unique and foreign ones untouched, so the registry refuses nothing
\* but the updates of the losers, which the code takes for what they are.
THEOREM LegacyRepairKeepsIdsProper ==
  ASSUME NEW rws \in SUBSET Rows, NEW others, NEW devs, Proper(rws, others),
         \A r \in rws : HasExpected(r, devs) => ExpectedOf(r, devs) \in Seq(Word),
         NEW winners \in LegacyWinners(rws, devs, others)
  PROVE  Proper(LegacyRepaired(rws, devs, winners), others)
<1> DEFINE target == [r \in winners |-> ExpectedOf(r, devs)]
<1>1. winners \in SUBSET rws
  BY DEF LegacyWinners, LegacyPlan
<1>2. \A r \in winners : target[r] \notin others /\ target[r] \notin Ids(rws)
  BY DEF LegacyWinners, LegacyPlan
<1>3. \A r, s \in winners : target[r] = target[s] => r = s
  BY DEF LegacyWinners
<1>4. \A r \in winners : \A s \in rws \ winners : target[r] # s.id
  BY <1>2 DEF Ids
<1>5. target \in [winners -> Seq(Word)]
  BY <1>1 DEF LegacyWinners, LegacyPlan
<1>6. \A r \in winners : target[r] = ExpectedOf(r, devs)
  OBVIOUS
<1> HIDE DEF target
<1>7. Proper(Moved(rws, winners, target), others)
  BY <1>1, <1>2, <1>3, <1>4, <1>5, MovesKeepIdsProper
<1>8. LegacyRepaired(rws, devs, winners)
        = Moved(rws, winners, target)
  BY <1>6 DEF LegacyRepaired, Moved
<1> QED
  BY <1>7, <1>8

-----------------------------------------------------------------------------

\* The base of a numbered ID is an ID.
LEMMA BaseType ==
  ASSUME NEW id \in Seq(Word), Numbered(id)
  PROVE  Base(id) \in Seq(Word)
<1>1. Len(id) - 1 \in Nat
  BY DEF Numbered
<1>2. Base(id) = [i \in 1..Len(id) - 1 |-> id[i]]
  BY DEF Base, Front
<1>3. \A i \in 1..Len(id) - 1 : id[i] \in Word
  BY <1>1
<1> QED
  BY <1>1, <1>2, <1>3

\* Whom the suffix repair moves is a numbered row of the registry, one for each
\* base, and nobody has that base.
LEMMA SuffixPlanFacts ==
  ASSUME NEW rws, NEW others,
         NEW r \in SuffixPlan(rws, others)
  PROVE  /\ r \in rws
         /\ Base(r.id) \in Bases(rws) \ (Ids(rws) \union others)
         /\ r = LowestNumber(NumberedOn(rws, Base(r.id)))
<1>1. PICK b \in Bases(rws) \ (Ids(rws) \union others) :
        r = LowestNumber(NumberedOn(rws, b))
  BY DEF SuffixPlan
<1>2. NumberedOn(rws, b) # {} /\ \A s \in NumberedOn(rws, b) : Numbered(s.id)
  BY <1>1 DEF Bases, NumberedOn
<1>3. r \in NumberedOn(rws, b)
  BY <1>1, <1>2, LowestNumberExists
<1>4. r \in rws /\ Base(r.id) = b
  BY <1>3 DEF NumberedOn
<1> QED
  BY <1>1, <1>4

\* As it moves rows to free bases only, it removes none: what allow_replace_base
\* would do never happens.
LEMMA SuffixRepairReplacesNothing ==
  ASSUME NEW rws, NEW others
  PROVE  SuffixRepaired(rws, others) =
           {IF r \in SuffixPlan(rws, others) THEN [r EXCEPT !.id = Base(@)] ELSE r : r \in rws}
<1> DEFINE plan == SuffixPlan(rws, others)
           replaced == {r \in rws \ plan : \E s \in plan : r.id = Base(s.id)}
<1>1. replaced = {}
  BY SuffixPlanFacts DEF Ids
<1>2. rws \ replaced = rws
  BY <1>1
<1> HIDE DEF plan, replaced
<1> QED
  BY <1>2 DEF SuffixRepaired, plan, replaced

\* repair_entity_id_suffixes keeps IDs unique and foreign ones untouched.
THEOREM SuffixRepairKeepsIdsProper ==
  ASSUME NEW rws \in SUBSET Rows, NEW others, Proper(rws, others)
  PROVE  Proper(SuffixRepaired(rws, others), others)
<1> DEFINE plan == SuffixPlan(rws, others)
           target == [r \in plan |-> Base(r.id)]
<1>1. plan \in SUBSET rws
  BY SuffixPlanFacts
<1>2. \A r \in plan : target[r] \notin others /\ target[r] \notin Ids(rws)
  BY SuffixPlanFacts
<1>3. \A r, s \in plan : target[r] = target[s] => r = s
  BY SuffixPlanFacts
<1>4. \A r \in plan : \A s \in rws \ plan : target[r] # s.id
  BY <1>2 DEF Ids
<1>5. target \in [plan -> Seq(Word)]
  <2>1. ASSUME NEW r \in plan
        PROVE  Base(r.id) \in Seq(Word)
    <3>1. PICK s \in rws : Numbered(s.id) /\ Base(s.id) = Base(r.id)
      BY SuffixPlanFacts DEF Bases
    <3>2. s.id \in Seq(Word)
      BY DEF Rows
    <3> QED
      BY <3>1, <3>2, BaseType
  <2> QED
    BY <2>1
<1>6. \A r \in plan : target[r] = Base(r.id)
  OBVIOUS
<1> HIDE DEF plan, target
<1>7. Proper(Moved(rws, plan, target), others)
  BY <1>1, <1>2, <1>3, <1>4, <1>5, MovesKeepIdsProper
<1>8. SuffixRepaired(rws, others)
        = Moved(rws, plan, target)
  BY <1>1, <1>6, SuffixRepairReplacesNothing DEF plan, Moved
<1> QED
  BY <1>7, <1>8

\* It removes no row, of a VPN on the box or not ("Setup/reload no longer
\* destructively renames _2 entities over an existing base entity ID", v1.2.4b1).
THEOREM SuffixRepairKeepsRows ==
  ASSUME NEW rws \in SUBSET Rows, NEW others, NEW r \in rws
  PROVE  \E s \in SuffixRepaired(rws, others) : SameKey(r, s)
<1> DEFINE moved == IF r \in SuffixPlan(rws, others) THEN [r EXCEPT !.id = Base(@)] ELSE r
<1>1. moved \in SuffixRepaired(rws, others)
  BY SuffixRepairReplacesNothing
<1>2. SameKey(r, moved)
  BY DEF SameKey, Rows
<1> QED
  BY <1>1, <1>2

-----------------------------------------------------------------------------

\* Whom a merge moves is a listed row, and the base it moves to is that of an
\* orphan that the merge removes.
LEMMA MergeFacts ==
  ASSUME NEW rws, NEW current,
         NEW r \in MergedOnto(rws, current)
  PROVE  /\ r \in rws /\ r.uid \in current
         /\ \E o \in MergedAway(rws, current) :
              Base(r.id) = o.id /\ r = LowestNumber(Mergeable(rws, current, o.id))
<1>1. PICK o \in MergedAway(rws, current) : r = LowestNumber(Mergeable(rws, current, o.id))
  BY DEF MergedOnto
<1>2. /\ Mergeable(rws, current, o.id) # {}
      /\ \A s \in Mergeable(rws, current, o.id) : Numbered(s.id)
  BY <1>1 DEF MergedAway, Mergeable, NumberedOn
<1>3. r \in Mergeable(rws, current, o.id)
  BY <1>1, <1>2, LowestNumberExists
<1> QED
  BY <1>1, <1>3 DEF Mergeable, NumberedOn

\* repair_orphan_base_suffix_merges keeps IDs unique: every base has one owner
\* before it is given away, and one after.
THEOREM MergeKeepsIdsProper ==
  ASSUME NEW rws \in SUBSET Rows, NEW others, NEW current, Proper(rws, others)
  PROVE  Proper(Merged(rws, current), others)
<1> DEFINE moving == MergedOnto(rws, current)
           away == MergedAway(rws, current)
           kept == rws \ away
           target == [r \in moving |-> Base(r.id)]
<1>1. away \in SUBSET rws /\ \A o \in away : o.uid \notin current
  BY DEF MergedAway, OrphanBases
<1>2. moving \in SUBSET kept
  BY <1>1, MergeFacts
<1>3. \A r \in moving : \E o \in away : target[r] = o.id
                                        /\ r = LowestNumber(Mergeable(rws, current, o.id))
  BY MergeFacts
<1>4. \A r, s \in moving : target[r] = target[s] => r = s
  BY <1>3
<1>5. target \in [moving -> Seq(Word)]
  <2>1. ASSUME NEW r \in moving
        PROVE  Base(r.id) \in Seq(Word)
    <3>1. PICK o \in away : Base(r.id) = o.id
      BY <1>3
    <3> QED
      BY <1>1, <3>1 DEF Rows
  <2> QED
    BY <2>1
<1>6. \A r \in moving : target[r] = Base(r.id)
  OBVIOUS
<1> HIDE DEF moving, away, target
<1>7. \A r \in moving : target[r] \notin others
  BY <1>1, <1>3 DEF Proper, Ids
<1>8. \A r \in moving : \A s \in kept \ moving : target[r] # s.id
  BY <1>1, <1>3 DEF Proper, UniqueIds
<1>9. Proper(Moved(kept, moving, target), others)
  BY <1>2, <1>4, <1>5, <1>7, <1>8, MovesKeepIdsProper
<1>10. Merged(rws, current)
        = Moved(kept, moving, target)
  BY <1>6 DEF Merged, Moved, moving, away
<1> QED
  BY <1>9, <1>10

\* A merge removes no row of a listed VPN.
THEOREM MergeKeepsListedRows ==
  ASSUME NEW rws \in SUBSET Rows, NEW current,
         NEW r \in rws, r.uid \in current
  PROVE  \E s \in Merged(rws, current) : SameKey(r, s)
<1> DEFINE moved == IF r \in MergedOnto(rws, current) THEN [r EXCEPT !.id = Base(@)] ELSE r
<1>1. r \notin MergedAway(rws, current)
  BY DEF MergedAway, OrphanBases
<1>2. moved \in Merged(rws, current)
  BY <1>1 DEF Merged
<1>3. SameKey(r, moved)
  BY DEF SameKey, Rows
<1> QED
  BY <1>2, <1>3

-----------------------------------------------------------------------------
(* The rows that a repair carries over                                     *)

\* Each row of the domain becomes one of the same key, and nothing else is left.
Carries(move, after) ==
  /\ after = {move[r] : r \in DOMAIN move}
  /\ \A r \in DOMAIN move :
       /\ move[r] \in Rows /\ SameKey(r, move[r]) /\ move[r].wanted = r.wanted

\* What is known of the keys of the rows
Keyed(rws) ==
  /\ rws \in SUBSET Rows
  /\ UniqueKeys(WithoutShadows(rws))
  /\ \A r \in WithoutShadows(rws) : r.platform \in Platform /\ r.uid \in Uid

LEMMA CarriedKeys ==
  ASSUME NEW rws, Keyed(rws), NEW move, NEW after, Carries(move, after), DOMAIN move \subseteq rws
  PROVE  Keyed(after)
<1>1. ASSUME NEW s \in after
      PROVE  \E r \in rws : r \in DOMAIN move /\ s = move[r] /\ SameKey(r, s) /\ s \in Rows
  BY DEF Carries
<1>2. ASSUME NEW s \in WithoutShadows(after), NEW t \in WithoutShadows(after),
             s.platform = t.platform /\ s.uid = t.uid
      PROVE  s = t
  <2>1. PICK r \in rws : r \in DOMAIN move /\ s = move[r] /\ SameKey(r, s)
    BY <1>1 DEF WithoutShadows
  <2>2. PICK q \in rws : q \in DOMAIN move /\ t = move[q] /\ SameKey(q, t)
    BY <1>1 DEF WithoutShadows
  <2>3. r \in WithoutShadows(rws) /\ q \in WithoutShadows(rws)
    BY <2>1, <2>2 DEF WithoutShadows, SameKey
  <2>4. r = q
    BY <1>2, <2>1, <2>2, <2>3 DEF Keyed, UniqueKeys, SameKey
  <2> QED
    BY <2>1, <2>2, <2>4
<1>3. ASSUME NEW s \in WithoutShadows(after)
      PROVE  s.platform \in Platform /\ s.uid \in Uid
  <2>1. PICK r \in rws : SameKey(r, s)
    BY <1>1 DEF WithoutShadows
  <2>2. r \in WithoutShadows(rws)
    BY <2>1 DEF WithoutShadows, SameKey
  <2> QED
    BY <2>1, <2>2 DEF Keyed, SameKey
<1>4. after \in SUBSET Rows
  BY <1>1
<1> QED
  BY <1>2, <1>3, <1>4 DEF Keyed, UniqueKeys

LegacyMove(rws, devs, winners) ==
  [r \in rws |-> IF r \in winners THEN [r EXCEPT !.id = ExpectedOf(r, devs)] ELSE r]
SuffixMove(rws, others) ==
  [r \in rws |-> IF r \in SuffixPlan(rws, others) THEN [r EXCEPT !.id = Base(@)] ELSE r]
MergeMove(rws, current) ==
  [r \in rws \ MergedAway(rws, current) |->
     IF r \in MergedOnto(rws, current) THEN [r EXCEPT !.id = Base(@)] ELSE r]

LEMMA MovedRow ==
  ASSUME NEW r \in Rows, NEW id \in Seq(Word)
  PROVE  LET s == [r EXCEPT !.id = id]
         IN s \in Rows /\ SameKey(r, s) /\ s.wanted = r.wanted /\ s.id = id
BY DEF Rows, SameKey

LEMMA LegacyCarries ==
  ASSUME NEW rws \in SUBSET Rows, NEW others, NEW devs,
         \A r \in rws : HasExpected(r, devs) => ExpectedOf(r, devs) \in Seq(Word),
         NEW winners \in LegacyWinners(rws, devs, others)
  PROVE  Carries(LegacyMove(rws, devs, winners), LegacyRepaired(rws, devs, winners))
<1> DEFINE move == LegacyMove(rws, devs, winners)
<1>1. winners \in SUBSET rws /\ \A r \in winners : ExpectedOf(r, devs) \in Seq(Word)
  BY DEF LegacyWinners, LegacyPlan
<1>2. ASSUME NEW r \in rws
      PROVE  move[r] \in Rows /\ SameKey(r, move[r]) /\ move[r].wanted = r.wanted
  <2>1. CASE r \in winners
    <3>1. move[r] = [r EXCEPT !.id = ExpectedOf(r, devs)]
      BY <2>1 DEF LegacyMove
    <3> QED
      BY <1>1, <2>1, <3>1, MovedRow
  <2>2. CASE r \notin winners
    BY <2>2 DEF LegacyMove, SameKey
  <2> QED
    BY <2>1, <2>2
<1>3. DOMAIN move = rws
  BY DEF LegacyMove
<1>4. LegacyRepaired(rws, devs, winners) = {move[r] : r \in rws}
  BY DEF LegacyRepaired, LegacyMove
<1> HIDE DEF move
<1>5. Carries(move, LegacyRepaired(rws, devs, winners))
  BY <1>2, <1>3, <1>4 DEF Carries
<1> QED
  BY <1>5 DEF move

LEMMA SuffixCarries ==
  ASSUME NEW rws \in SUBSET Rows, NEW others
  PROVE  /\ Carries(SuffixMove(rws, others), SuffixRepaired(rws, others))
         /\ \A r \in SuffixPlan(rws, others) : Numbered(r.id)
<1> DEFINE move == SuffixMove(rws, others)
<1>1. ASSUME NEW r \in SuffixPlan(rws, others)
      PROVE  Numbered(r.id) /\ Base(r.id) \in Seq(Word) /\ r \in rws
  <2>1. r \in rws /\ Base(r.id) \in Bases(rws) /\ r = LowestNumber(NumberedOn(rws, Base(r.id)))
    BY SuffixPlanFacts
  <2>a. PICK q \in rws : Numbered(q.id) /\ Base(q.id) = Base(r.id)
    BY <2>1 DEF Bases
  <2>2. q \in NumberedOn(rws, Base(r.id)) /\ \A s \in NumberedOn(rws, Base(r.id)) : Numbered(s.id)
    BY <2>a DEF NumberedOn
  <2>3. Numbered(r.id)
    BY <2>1, <2>2, LowestNumberExists
  <2>4. r.id \in Seq(Word)
    BY <2>1 DEF Rows
  <2> QED
    BY <2>1, <2>3, <2>4, BaseType
<1>2. ASSUME NEW r \in rws
      PROVE  move[r] \in Rows /\ SameKey(r, move[r]) /\ move[r].wanted = r.wanted
  <2>1. CASE r \in SuffixPlan(rws, others)
    <3>1. move[r] = [r EXCEPT !.id = Base(r.id)]
      BY <2>1 DEF SuffixMove
    <3> QED
      BY <1>1, <2>1, <3>1, MovedRow
  <2>2. CASE r \notin SuffixPlan(rws, others)
    BY <2>2 DEF SuffixMove, SameKey
  <2> QED
    BY <2>1, <2>2
<1>3. DOMAIN move = rws
  BY DEF SuffixMove
<1>4. SuffixRepaired(rws, others) = {move[r] : r \in rws}
  BY SuffixRepairReplacesNothing DEF SuffixMove
<1> HIDE DEF move
<1>5. Carries(move, SuffixRepaired(rws, others))
  BY <1>2, <1>3, <1>4 DEF Carries
<1> QED
  BY <1>1, <1>5 DEF move

LEMMA MergeCarries ==
  ASSUME NEW rws \in SUBSET Rows, NEW current
  PROVE  /\ Carries(MergeMove(rws, current), Merged(rws, current))
         /\ \A r \in MergedOnto(rws, current) : Numbered(r.id)
<1> DEFINE move == MergeMove(rws, current)
           kept == rws \ MergedAway(rws, current)
<1>1. ASSUME NEW r \in MergedOnto(rws, current)
      PROVE  Numbered(r.id) /\ Base(r.id) \in Seq(Word)
  <2>1. r \in rws
    BY MergeFacts
  <2>2. PICK o \in MergedAway(rws, current) : r = LowestNumber(Mergeable(rws, current, o.id))
    BY DEF MergedOnto
  <2>3. /\ Mergeable(rws, current, o.id) # {}
        /\ \A s \in Mergeable(rws, current, o.id) : Numbered(s.id)
    BY <2>2 DEF MergedAway, Mergeable, NumberedOn
  <2>4. Numbered(r.id)
    BY <2>2, <2>3, LowestNumberExists
  <2>5. r.id \in Seq(Word)
    BY <2>1 DEF Rows
  <2> QED
    BY <2>4, <2>5, BaseType
<1>2. ASSUME NEW r \in kept
      PROVE  move[r] \in Rows /\ SameKey(r, move[r]) /\ move[r].wanted = r.wanted
  <2>1. CASE r \in MergedOnto(rws, current)
    <3>1. move[r] = [r EXCEPT !.id = Base(r.id)]
      BY <2>1 DEF MergeMove
    <3> QED
      BY <1>1, <2>1, <3>1, MovedRow
  <2>2. CASE r \notin MergedOnto(rws, current)
    BY <2>2 DEF MergeMove, SameKey
  <2> QED
    BY <2>1, <2>2
<1>3. DOMAIN move = kept
  BY DEF MergeMove
<1>4. Merged(rws, current) = {move[r] : r \in kept}
  BY DEF Merged, MergeMove
<1> HIDE DEF move, kept
<1>5. Carries(move, Merged(rws, current))
  BY <1>2, <1>3, <1>4 DEF Carries
<1> QED
  BY <1>1, <1>5 DEF move

-----------------------------------------------------------------------------
(* New entities                                                            *)

Devices == [Uid -> Device \union {NoDevice}]

LEMMA ExpectedType ==
  ASSUME NEW devs \in Devices, NEW r, r.platform \in Platform, r.uid \in Uid,
         devs[r.uid] # NoDevice
  PROVE  /\ DeviceName(devs[r.uid]) \in Name
         /\ ExpectedOf(r, devs) = ExpectedId(r.platform, DeviceName(devs[r.uid]))
         /\ ExpectedOf(r, devs) \in Seq(Word)
<1>1. devs[r.uid] \in Device
  BY DEF Devices
<1>2. DeviceName(devs[r.uid]) \in Name
  BY <1>1 DEF Device, DeviceName
<1>4. Suffix[r.platform] \in Seq(Word) /\ Domain[r.platform] \in Word
  BY IdsAssumption
<1>5. DeviceName(devs[r.uid]) \in Seq(Word)
  BY <1>2, IdsAssumption
<1>6. ExpectedId(r.platform, DeviceName(devs[r.uid])) \in Seq(Word)
  BY <1>4, <1>5 DEF ExpectedId
<1> QED
  BY <1>2, <1>6 DEF ExpectedOf

LEMMA CandidateType ==
  ASSUME NEW wanted \in Seq(Word), NEW n \in 0..Len(Numerals)
  PROVE  Candidate(wanted, n) \in Seq(Word)
<1>1. \A i \in 1..Len(Numerals) : Numerals[i] \in Word
  <2>1. DOMAIN Numerals = 1..Len(Numerals)
    BY DEF Numerals
  <2> QED
    BY <2>1, IdsAssumption
<1>2. CASE n = 0
  BY <1>2 DEF Candidate
<1>3. CASE n # 0
  <2>1. n \in 1..Len(Numerals)
    <3>1. Len(Numerals) = 5
      BY DEF Numerals
    <3> QED
      BY <1>3, <3>1
  <2> QED
    BY <1>1, <1>3, <2>1 DEF Candidate
<1> QED
  BY <1>2, <1>3

\* A row that was not there: of a key that had none, asking for the ID of its VPN
NewFor(s, some, uids, devs) ==
  /\ s \in Rows /\ s.platform \in Platform /\ s.uid \in uids
  /\ ~HasKey(some, s.platform, s.uid)
  /\ s.wanted = ExpectedOf(s, devs)
  /\ \E n \in 0..Len(Numerals) : s.id = Candidate(s.wanted, n)

LEMMA EntitiesAdded ==
  ASSUME NEW some, Keyed(some), Proper(some, foreign), NEW uids \in SUBSET Uid,
         NEW devs \in Devices, \A u \in uids : devs[u] # NoDevice,
         NEW after \in WithEntities(some, uids, devs)
  PROVE  /\ Keyed(after) /\ Proper(after, foreign) /\ some \subseteq after
         /\ \A s \in after \ some : NewFor(s, some, uids, devs)
         /\ \A p \in Platform, u \in uids : HasKey(after, p, u)
<1> DEFINE keys == NewKeys(some, uids)
           New(numbers, which) == {NewRow(key, numbers[key], devs) : key \in which}
<1>1. PICK numbers \in [keys -> 0..Len(Numerals)] :
        /\ after = some \union New(numbers, keys)
        /\ \A key \in keys :
             IsFirstFree(ExpectedOf(key, devs), numbers[key],
                         foreign \union Ids(some \union New(numbers, keys \ {key})))
  BY DEF WithEntities
<1> DEFINE Row(key) == NewRow(key, numbers[key], devs)
<1>2. ASSUME NEW key \in keys
      PROVE  /\ key \in [platform : Platform, uid : uids]
             /\ ~HasKey(some, key.platform, key.uid)
             /\ ExpectedOf(key, devs) \in Seq(Word)
  <2>1. key \in [platform : Platform, uid : uids] /\ ~HasKey(some, key.platform, key.uid)
    BY DEF NewKeys
  <2> QED
    BY <2>1, ExpectedType
<1>3. ASSUME NEW key \in keys
      PROVE  /\ Row(key).platform = key.platform /\ Row(key).uid = key.uid
             /\ Row(key).wanted = ExpectedOf(key, devs)
             /\ Row(key).id = Candidate(ExpectedOf(key, devs), numbers[key])
             /\ Row(key) \in Rows
  <2>1. /\ Row(key).platform = key.platform /\ Row(key).uid = key.uid
        /\ Row(key).wanted = ExpectedOf(key, devs)
        /\ Row(key).id = Candidate(ExpectedOf(key, devs), numbers[key])
    BY DEF NewRow
  <2>2. numbers[key] \in 0..Len(Numerals)
    OBVIOUS
  <2>3. Candidate(ExpectedOf(key, devs), numbers[key]) \in Seq(Word)
    BY <1>2, <2>2, CandidateType
  <2>4. key.platform \in Platform /\ key.uid \in Uid
    BY <1>2
  <2>5. Row(key) \in Rows
    BY <1>2, <2>3, <2>4 DEF NewRow, Rows
  <2> QED
    BY <2>1, <2>5
<1>4. ASSUME NEW key \in keys
      PROVE  NewFor(Row(key), some, uids, devs)
  <2>1. ExpectedOf(Row(key), devs) = ExpectedOf(key, devs)
    BY <1>3 DEF ExpectedOf
  <2>2. numbers[key] \in 0..Len(Numerals)
    OBVIOUS
  <2> HIDE DEF Row
  <2> QED
    BY <1>2, <1>3, <2>1, <2>2 DEF NewFor
<1>5. ASSUME NEW key \in keys, NEW s \in some \union New(numbers, keys \ {key})
      PROVE  Row(key).id # s.id
  <2>1. Candidate(ExpectedOf(key, devs), numbers[key])
          \notin foreign \union Ids(some \union New(numbers, keys \ {key}))
    BY <1>1 DEF IsFirstFree
  <2>2. s.id \in Ids(some \union New(numbers, keys \ {key}))
    BY <1>5 DEF Ids
  <2> QED
    BY <1>3, <2>1, <2>2
<1>6. ASSUME NEW key \in keys
      PROVE  Row(key).id \notin foreign
  BY <1>1, <1>3 DEF IsFirstFree
<1>7. after = some \union {Row(key) : key \in keys}
  BY <1>1
<1>8. ASSUME NEW key \in keys, NEW other \in keys, Row(key).id = Row(other).id
      PROVE  key = other
  <2>1. other # key => Row(other) \in New(numbers, keys \ {key})
    OBVIOUS
  <2> HIDE DEF New, Row
  <2> QED
    BY <1>5, <1>8, <2>1
<1>9. ASSUME NEW key \in keys, NEW s \in some PROVE Row(key).id # s.id
  BY <1>5
<1> HIDE DEF keys, New, Row
<1>10. \A s \in after \ some : NewFor(s, some, uids, devs)
  BY <1>4, <1>7
<1>11. Proper(after, foreign)
  <2>1. ASSUME NEW s \in after, NEW t \in after, s.id = t.id PROVE s = t
    BY <1>7, <1>8, <1>9, <2>1 DEF Proper, UniqueIds
  <2>2. \A s \in after : s.id \notin foreign
    BY <1>6, <1>7 DEF Proper, Ids
  <2> QED
    BY <2>1, <2>2 DEF Proper, UniqueIds, Ids
<1>12. Keyed(after)
  <2>1. after \in SUBSET Rows
    BY <1>3, <1>7 DEF Keyed
  <2>2. \A r \in WithoutShadows(after) : r.platform \in Platform /\ r.uid \in Uid
    BY <1>10 DEF Keyed, WithoutShadows, NewFor
  <2>3. ASSUME NEW s \in WithoutShadows(after), NEW t \in WithoutShadows(after),
               s.platform = t.platform, s.uid = t.uid
        PROVE  s = t
    <3>1. CASE s \in some /\ t \in some
      BY <2>3, <3>1 DEF Keyed, UniqueKeys, WithoutShadows
    <3>2. CASE s \in some /\ t \notin some
      BY <1>10, <2>3, <3>2 DEF WithoutShadows, NewFor, HasKey
    <3>3. CASE s \notin some /\ t \in some
      BY <1>10, <2>3, <3>3 DEF WithoutShadows, NewFor, HasKey
    <3>4. CASE s \notin some /\ t \notin some
      <4>1. PICK key \in keys : s = Row(key)
        BY <1>7, <3>4 DEF WithoutShadows
      <4>2. PICK other \in keys : t = Row(other)
        BY <1>7, <3>4 DEF WithoutShadows
      <4>3. key.platform = other.platform /\ key.uid = other.uid
        BY <1>3, <2>3, <4>1, <4>2
      <4>4. key = other
        BY <1>2, <4>3
      <4> QED
        BY <4>1, <4>2, <4>4
    <3> QED
      BY <3>1, <3>2, <3>3, <3>4
  <2> QED
    BY <2>1, <2>2, <2>3 DEF Keyed, UniqueKeys
<1>13. ASSUME NEW p \in Platform, NEW u \in uids
       PROVE  HasKey(after, p, u)
  <2> DEFINE key == [platform |-> p, uid |-> u]
  <2>1. CASE HasKey(some, p, u)
    BY <1>7, <2>1 DEF HasKey
  <2>2. CASE ~HasKey(some, p, u)
    <3>1. key \in keys
      BY <2>2 DEF keys, NewKeys
    <3>2. Row(key).platform = p /\ Row(key).uid = u /\ Row(key) \in after
      BY <1>3, <1>7, <3>1
    <3> QED
      BY <3>2 DEF HasKey
  <2> QED
    BY <2>1, <2>2
<1> QED
  BY <1>7, <1>10, <1>11, <1>12, <1>13

-----------------------------------------------------------------------------
(* Registries that are in order, and what keeps them so                    *)

Registries(rws, devs) ==
  /\ Keyed(rws) /\ Proper(rws, foreign) /\ devs \in Devices
  /\ \A r \in WithoutShadows(rws) : devs[r.uid] # NoDevice

LEMMA CarriedRegistries ==
  ASSUME NEW rws, NEW devs, Registries(rws, devs), NEW move, NEW after, Carries(move, after),
         DOMAIN move \subseteq rws, Proper(after, foreign)
  PROVE  Registries(after, devs)
<1>1. Keyed(after)
  BY CarriedKeys DEF Registries
<1>2. ASSUME NEW s \in WithoutShadows(after)
      PROVE  devs[s.uid] # NoDevice
  <2>1. PICK r \in DOMAIN move : s = move[r] /\ SameKey(r, s)
    BY DEF Carries, WithoutShadows
  <2>2. r \in WithoutShadows(rws)
    BY <2>1 DEF WithoutShadows, SameKey
  <2> QED
    BY <2>1, <2>2 DEF Registries, SameKey
<1> QED
  BY <1>1, <1>2 DEF Registries

LEMMA ExpectedIds ==
  ASSUME NEW rws, NEW devs, Registries(rws, devs), NEW r \in rws, HasExpected(r, devs)
  PROVE  /\ r \in WithoutShadows(rws) /\ ExpectedOf(r, devs) \in Seq(Word)
         /\ \E n \in Name : ExpectedOf(r, devs) = ExpectedId(r.platform, n)
<1>1. r \in WithoutShadows(rws) /\ devs[r.uid] # NoDevice
  BY DEF HasExpected, WithoutShadows
<1>2. r.platform \in Platform /\ r.uid \in Uid /\ devs \in Devices
  BY <1>1 DEF Registries, Keyed
<1> QED
  BY <1>1, <1>2, ExpectedType

LEMMA LegacyKeeps ==
  ASSUME NEW rws, NEW devs, Registries(rws, devs), NEW winners \in LegacyWinners(rws, devs, foreign)
  PROVE  Registries(LegacyRepaired(rws, devs, winners), devs)
<1>1. \A r \in rws : HasExpected(r, devs) => ExpectedOf(r, devs) \in Seq(Word)
  BY ExpectedIds
<1>2. rws \in SUBSET Rows /\ Proper(rws, foreign)
  BY DEF Registries, Keyed
<1>3. Proper(LegacyRepaired(rws, devs, winners), foreign)
  BY <1>1, <1>2, LegacyRepairKeepsIdsProper
<1>4. Carries(LegacyMove(rws, devs, winners), LegacyRepaired(rws, devs, winners))
  BY <1>1, <1>2, LegacyCarries
<1>5. DOMAIN LegacyMove(rws, devs, winners) = rws
  BY DEF LegacyMove
<1> QED
  BY <1>3, <1>4, <1>5, CarriedRegistries

LEMMA SuffixKeeps ==
  ASSUME NEW rws, NEW devs, Registries(rws, devs)
  PROVE  Registries(SuffixRepaired(rws, foreign), devs)
<1>1. rws \in SUBSET Rows /\ Proper(rws, foreign)
  BY DEF Registries, Keyed
<1>2. Proper(SuffixRepaired(rws, foreign), foreign)
  BY <1>1, SuffixRepairKeepsIdsProper
<1>3. Carries(SuffixMove(rws, foreign), SuffixRepaired(rws, foreign))
  BY <1>1, SuffixCarries
<1>4. DOMAIN SuffixMove(rws, foreign) = rws
  BY DEF SuffixMove
<1> QED
  BY <1>2, <1>3, <1>4, CarriedRegistries

\* The device of a merged orphan goes only when no row is left on it.
LEMMA MergeKeeps ==
  ASSUME NEW rws, NEW devs, Registries(rws, devs), NEW current
  PROVE  Registries(Merged(rws, current), DevicesAfterMerge(rws, devs, current))
<1> DEFINE after == Merged(rws, current)
           devs2 == DevicesAfterMerge(rws, devs, current)
<1>1. rws \in SUBSET Rows /\ Proper(rws, foreign)
  BY DEF Registries, Keyed
<1>2. Proper(after, foreign)
  BY <1>1, MergeKeepsIdsProper
<1>3. Carries(MergeMove(rws, current), after)
  BY <1>1, MergeCarries
<1>4. DOMAIN MergeMove(rws, current) \subseteq rws
  BY DEF MergeMove
<1> HIDE DEF after
<1>5. Registries(after, devs)
  BY <1>2, <1>3, <1>4, CarriedRegistries
<1>6. DOMAIN devs = Uid /\ \A u \in Uid : devs2[u] \in {devs[u], NoDevice}
  BY DEF DevicesAfterMerge, Registries, Devices
<1>7. devs2 \in Devices
  <2>1. devs2 = [u \in Uid |-> devs2[u]]
    BY <1>6 DEF DevicesAfterMerge
  <2>2. \A u \in Uid : devs[u] \in Device \union {NoDevice}
    BY DEF Registries, Devices
  <2> HIDE DEF devs2
  <2> QED
    BY <1>6, <2>1, <2>2 DEF Devices
<1>8. ASSUME NEW s \in WithoutShadows(after)
      PROVE  devs2[s.uid] # NoDevice
  <2>1. devs[s.uid] # NoDevice /\ s.uid \in Uid
    BY <1>5 DEF Registries, Keyed
  <2>2. RowsOf(after, s.uid) # {}
    BY DEF RowsOf, WithoutShadows
  <2> QED
    BY <1>6, <2>1, <2>2 DEF DevicesAfterMerge, after
<1> QED
  BY <1>5, <1>7, <1>8 DEF Registries, after

LEMMA AsAskedKeeps ==
  ASSUME NEW rws, NEW devs, Registries(rws, devs)
  PROVE  Registries(AsAsked(rws), devs)
<1> DEFINE asked(r) == IF r \in rows THEN r ELSE [r EXCEPT !.wanted = r.id]
<1>1. ASSUME NEW r \in rws
      PROVE  asked(r) \in Rows /\ SameKey(r, asked(r)) /\ asked(r).id = r.id
  BY DEF Registries, Keyed, Rows, SameKey
<1>2. AsAsked(rws) = {asked(r) : r \in rws}
  BY DEF AsAsked
<1> HIDE DEF asked
<1>3. ASSUME NEW s \in AsAsked(rws)
      PROVE  \E r \in rws : s = asked(r) /\ SameKey(r, s) /\ s.id = r.id /\ s \in Rows
  BY <1>1, <1>2
<1>4. Proper(AsAsked(rws), foreign)
  <2>1. ASSUME NEW s \in AsAsked(rws), NEW t \in AsAsked(rws), s.id = t.id PROVE s = t
    BY <1>3, <2>1 DEF Registries, Proper, UniqueIds
  <2>2. \A s \in AsAsked(rws) : s.id \notin foreign
    BY <1>3 DEF Registries, Proper, Ids
  <2> QED
    BY <2>1, <2>2 DEF Proper, UniqueIds, Ids
<1>5. ASSUME NEW s \in WithoutShadows(AsAsked(rws))
      PROVE  \E r \in WithoutShadows(rws) : s = asked(r) /\ SameKey(r, s)
  BY <1>3 DEF WithoutShadows, SameKey
<1>6. Keyed(AsAsked(rws))
  <2>1. AsAsked(rws) \in SUBSET Rows
    BY <1>3
  <2>2. \A s \in WithoutShadows(AsAsked(rws)) : s.platform \in Platform /\ s.uid \in Uid
    BY <1>5 DEF Registries, Keyed, SameKey
  <2>3. ASSUME NEW s \in WithoutShadows(AsAsked(rws)), NEW t \in WithoutShadows(AsAsked(rws)),
               s.platform = t.platform, s.uid = t.uid
        PROVE  s = t
    <3>1. PICK r \in WithoutShadows(rws) : s = asked(r) /\ SameKey(r, s)
      BY <1>5
    <3>2. PICK q \in WithoutShadows(rws) : t = asked(q) /\ SameKey(q, t)
      BY <1>5
    <3>3. r = q
      BY <2>3, <3>1, <3>2 DEF Registries, Keyed, UniqueKeys, SameKey
    <3> QED
      BY <3>1, <3>2, <3>3
  <2> QED
    BY <2>1, <2>2, <2>3 DEF Keyed, UniqueKeys
<1>7. \A s \in WithoutShadows(AsAsked(rws)) : devs[s.uid] # NoDevice
  BY <1>5 DEF Registries, SameKey
<1> QED
  BY <1>4, <1>6, <1>7 DEF Registries

\* Some rows removed, of each UID all or none that has lost its device
LEMMA RemovalKeeps ==
  ASSUME NEW rws, NEW devs, Registries(rws, devs), NEW after \in SUBSET rws,
         NEW devs2 \in Devices,
         \A r \in WithoutShadows(after) : devs2[r.uid] # NoDevice
  PROVE  Registries(after, devs2)
BY DEF Registries, Keyed, Proper, UniqueIds, Ids, UniqueKeys, WithoutShadows

LEMMA RegisteredType ==
  ASSUME NEW devs \in Devices, NEW list \in [Uid -> Name \union {Absent}],
         NEW uids \in SUBSET Listed(list)
  PROVE  /\ Registered(devs, uids, list) \in Devices
         /\ \A u \in uids : Registered(devs, uids, list)[u] # NoDevice
         /\ \A u \in Uid : devs[u] # NoDevice => Registered(devs, uids, list)[u] # NoDevice
<1> DEFINE devs2 == Registered(devs, uids, list)
<1>1. ASSUME NEW u \in uids
      PROVE  u \in Uid /\ devs2[u] \in Device
  <2>1. u \in Uid /\ list[u] \in Name
    BY DEF Listed
  <2>2. devs2[u] = [name |-> list[u],
                    by_user |-> IF devs[u] = NoDevice THEN NoName ELSE devs[u].by_user]
    BY <2>1 DEF Registered
  <2>3. devs[u] = NoDevice \/ devs[u].by_user \in Name \union {NoName}
    BY <2>1 DEF Devices, Device
  <2> QED
    BY <2>1, <2>2, <2>3 DEF Device
<1>2. \A u \in Uid \ uids : devs2[u] = devs[u]
  BY DEF Registered
<1>3. devs2 \in Devices
  <2>1. devs2 = [u \in Uid |-> devs2[u]]
    BY DEF Registered
  <2> HIDE DEF devs2
  <2> QED
    BY <1>1, <1>2, <2>1 DEF Devices
<1> QED
  BY <1>1, <1>2, <1>3, IdsAssumption

LEMMA AddedKeeps ==
  ASSUME NEW some, NEW devs, Registries(some, devs),
         NEW list \in [Uid -> Name \union {Absent}], NEW uids \in SUBSET Listed(list),
         NEW after \in WithEntities(some, uids, Registered(devs, uids, list))
  PROVE  Registries(after, Registered(devs, uids, list))
<1> DEFINE devs2 == Registered(devs, uids, list)
<1>1. /\ devs2 \in Devices /\ \A u \in uids : devs2[u] # NoDevice
      /\ \A u \in Uid : devs[u] # NoDevice => devs2[u] # NoDevice
  BY RegisteredType DEF Registries
<1>2. uids \in SUBSET Uid /\ Keyed(some) /\ Proper(some, foreign)
  BY DEF Listed, Registries
<1>a. after \in WithEntities(some, uids, devs2)
  OBVIOUS
<1> HIDE DEF devs2
<1>3. /\ Keyed(after) /\ Proper(after, foreign)
      /\ \A s \in after \ some : NewFor(s, some, uids, devs2)
  BY <1>1, <1>2, <1>a, EntitiesAdded
<1>4. ASSUME NEW s \in WithoutShadows(after)
      PROVE  devs2[s.uid] # NoDevice
  <2>1. CASE s \in some
    BY <1>1, <2>1 DEF Registries, Keyed, WithoutShadows
  <2>2. CASE s \notin some
    BY <1>1, <1>3, <2>2 DEF NewFor, WithoutShadows
  <2> QED
    BY <2>1, <2>2
<1> QED
  BY <1>1, <1>3, <1>4 DEF Registries, devs2

Lists == [Uid -> Name \union {Absent}]

\* TypeOK with what repairs rely on: the type of the rows and names of the devices
EInv ==
  /\ Registries(rows, devices)
  /\ data \in Lists
  /\ known \subseteq Uid
  /\ loaded \in BOOLEAN
  /\ known # {} => loaded

LEMMA LegacyRowsOrdered ==
  ASSUME data \in Lists, NEW some \in LegacyRows,
         UniqueIds(some), Ids(some) \intersect foreign = {},
         NEW devs, devs = [u \in Uid |-> IF u \in Listed(data)
                             THEN [name |-> data[u], by_user |-> NoName] ELSE NoDevice]
  PROVE  Registries(some, devs)
<1> DEFINE Row(p, u) == [platform |-> p, uid |-> u, wanted |-> LegacyId(p, data[u]),
                         id |-> LegacyId(p, data[u])]
           valid == {Row(p, u) : p \in Platform, u \in Listed(data)}
           Shadow(id) == [platform |-> Broken, uid |-> NoName, wanted |-> id, id |-> id]
<1>1. some = valid \/ \E p \in Platform, n \in Name : some = valid \union {Shadow(ExpectedId(p, n))}
  BY DEF LegacyRows
<1>2. ASSUME NEW p \in Platform, NEW n \in Name
      PROVE  ExpectedId(p, n) \in Seq(Word) /\ LegacyId(p, n) \in Seq(Word)
  BY IdsAssumption DEF ExpectedId, LegacyId
<1>3. \A u \in Listed(data) : u \in Uid /\ data[u] \in Name
  BY DEF Listed, Lists
<1>4. \A r \in valid : /\ r \in Rows /\ r.platform \in Platform /\ r.uid \in Listed(data)
                       /\ r = Row(r.platform, r.uid)
  BY <1>2, <1>3 DEF Rows
<1>5. \A r \in some : r \in valid \/ (r \in Rows /\ r.platform = Broken)
  BY <1>1, <1>2 DEF Rows
<1> HIDE DEF valid
<1>6. \A r \in WithoutShadows(some) : r \in valid
  BY <1>5 DEF WithoutShadows
<1>7. UniqueKeys(WithoutShadows(some))
  BY <1>4, <1>6 DEF UniqueKeys
<1>8. Keyed(some)
  BY <1>3, <1>4, <1>5, <1>6, <1>7 DEF Keyed
<1>9. devs \in Devices
  <2>1. \A u \in Uid : u \in Listed(data) => devs[u] \in Device
    BY <1>3 DEF Device
  <2> QED
    BY <2>1 DEF Devices
<1>10. \A r \in WithoutShadows(some) : devs[r.uid] # NoDevice
  <2>1. \A u \in Listed(data) : devs[u] \in Device
    BY <1>3 DEF Device
  <2> QED
    BY <1>4, <1>6, <2>1, IdsAssumption
<1> QED
  BY <1>8, <1>9, <1>10 DEF Registries, Proper

LEMMA EInvInit == Init => EInv
<1> SUFFICES ASSUME Init PROVE EInv
  OBVIOUS
<1>1. data \in Lists /\ known = {} /\ loaded = FALSE
  BY DEF Init, Lists
<1>2. Registries(rows, devices)
  <2>1. CASE rows = {} /\ devices = [u \in Uid |-> NoDevice]
    BY <2>1 DEF Registries, Keyed, Proper, UniqueIds, Ids, UniqueKeys, WithoutShadows, Devices
  <2>2. CASE /\ rows \in {some \in LegacyRows :
                           UniqueIds(some) /\ Ids(some) \intersect foreign = {}}
             /\ devices = [u \in Uid |-> IF u \in Listed(data)
                             THEN [name |-> data[u], by_user |-> NoName] ELSE NoDevice]
    BY <1>1, <2>2, LegacyRowsOrdered
  <2> QED
    BY <2>1, <2>2 DEF Init
<1> QED
  BY <1>1, <1>2 DEF EInv

-----------------------------------------------------------------------------
(* The steps                                                               *)

LEMMA OrderedAfter ==
  ASSUME foreign' = foreign, Registries(rows', devices')
  PROVE  Registries(rows, devices)'
BY DEF Registries, Proper

LEMMA MigrateStep == ASSUME EInv, Migrate PROVE EInv'
<1>1. PICK winners \in LegacyWinners(rows, devices, foreign) :
        rows' = AsAsked(LegacyRepaired(rows, devices, winners))
  BY DEF Migrate
<1>2. Registries(LegacyRepaired(rows, devices, winners), devices)
  BY LegacyKeeps DEF EInv
<1>3. Registries(rows', devices)
  BY <1>1, <1>2, AsAskedKeeps
<1>4. devices' = devices /\ foreign' = foreign
  BY DEF Migrate
<1>5. Registries(rows, devices)'
  BY <1>3, <1>4, OrderedAfter
<1> QED
  BY <1>5 DEF EInv, Migrate

\* What setup leaves before and after the platforms add their entities
LEMMA SetupSteps ==
  ASSUME EInv, Setup,
         NEW valid, valid = IF Listed(data) = {} THEN rows ELSE WithoutShadows(rows),
         NEW registered,
         registered = Registered(DevicesAfterMerge(valid, devices, CurrentUids), Listed(data), data)
  PROVE  /\ Registries(valid, devices)
         /\ Registries(RepairedAtSetup(valid), DevicesAfterMerge(valid, devices, CurrentUids))
         /\ rows' \in WithEntities(RepairedAtSetup(valid), Listed(data), registered)
         /\ devices' = WithoutEmpty(rows', registered)
<1>1. Registries(rows, devices)
  BY DEF EInv
<1>2. valid \subseteq rows
  BY DEF WithoutShadows
<1>3. Registries(valid, devices)
  BY <1>1, <1>2, RemovalKeeps DEF Registries, WithoutShadows
<1>4. Registries(Merged(valid, CurrentUids), DevicesAfterMerge(valid, devices, CurrentUids))
  BY <1>3, MergeKeeps
<1>5. Registries(RepairedAtSetup(valid), DevicesAfterMerge(valid, devices, CurrentUids))
  BY <1>4, SuffixKeeps DEF RepairedAtSetup
<1> QED
  BY <1>3, <1>5 DEF Setup

LEMMA SetupStep == ASSUME EInv, Setup PROVE EInv'
<1> DEFINE valid == IF Listed(data) = {} THEN rows ELSE WithoutShadows(rows)
           kept == DevicesAfterMerge(valid, devices, CurrentUids)
           registered == Registered(kept, Listed(data), data)
<1>1. /\ Registries(RepairedAtSetup(valid), kept)
      /\ rows' \in WithEntities(RepairedAtSetup(valid), Listed(data), registered)
      /\ devices' = WithoutEmpty(rows', registered)
  BY SetupSteps
<1>2. data \in [Uid -> Name \union {Absent}] /\ Listed(data) \in SUBSET Listed(data)
  BY DEF EInv, Lists
<1> HIDE DEF valid, kept
<1>3. Registries(rows', registered)
  BY <1>1, <1>2, AddedKeeps
<1> HIDE DEF registered
<1>4. registered \in Devices
  BY <1>3 DEF Registries
<1>5. devices' \in Devices /\ \A u \in Uid : RowsOf(rows', u) # {} => devices'[u] = registered[u]
  BY <1>1, <1>4 DEF WithoutEmpty, Devices
<1>6. \A s \in WithoutShadows(rows') : s.uid \in Uid /\ RowsOf(rows', s.uid) # {}
  BY <1>3 DEF Registries, Keyed, RowsOf, WithoutShadows
<1>7. Registries(rows', devices')
  BY <1>3, <1>5, <1>6 DEF Registries
<1>8. Registries(rows, devices)'
  BY <1>7, OrderedAfter DEF Setup
<1> QED
  BY <1>8 DEF EInv, Setup, Listed

LEMMA RepairStep == ASSUME EInv, Repair PROVE EInv'
<1>1. PICK winners \in LegacyWinners(rows, devices, foreign) :
        LET named == LegacyRepaired(rows, devices, winners)
        IN /\ rows' = AsAsked(SuffixRepaired(Merged(named, CurrentUids), foreign))
           /\ devices' = DevicesAfterMerge(named, devices, CurrentUids)
  BY DEF Repair
<1> DEFINE named == LegacyRepaired(rows, devices, winners)
<1>2. Registries(named, devices)
  BY LegacyKeeps DEF EInv
<1> HIDE DEF named
<1>3. Registries(Merged(named, CurrentUids), DevicesAfterMerge(named, devices, CurrentUids))
  BY <1>2, MergeKeeps
<1>4. Registries(rows', devices')
  BY <1>1, <1>3, SuffixKeeps, AsAskedKeeps DEF named
<1>5. Registries(rows, devices)'
  BY <1>4, OrderedAfter DEF Repair, Reloading
<1> QED
  BY <1>5 DEF EInv, Repair, Reloading

LEMMA CleanupStep == ASSUME EInv, Cleanup PROVE EInv'
<1> DEFINE orphans == Orphaned(WithoutShadows(rows), Listed(data))
<1>1. /\ rows' = rows \ orphans
      /\ devices' = [u \in Uid |-> IF u \in UidsOf(orphans) THEN NoDevice ELSE devices[u]]
  BY DEF Cleanup
<1>2. devices' \in Devices
  BY <1>1 DEF EInv, Registries, Devices
<1>3. ASSUME NEW r \in WithoutShadows(rows')
      PROVE  devices'[r.uid] # NoDevice
  <2>1. r \in WithoutShadows(rows) /\ r \notin orphans
    BY <1>1 DEF WithoutShadows
  <2>2. r.uid \in Listed(data)
    BY <2>1 DEF Orphaned
  <2>3. r.uid \notin UidsOf(orphans)
    BY <2>2 DEF UidsOf, Orphaned
  <2>4. r.uid \in Uid /\ devices[r.uid] # NoDevice
    BY <2>1 DEF EInv, Registries, Keyed
  <2> QED
    BY <1>1, <2>3, <2>4
<1>4. Registries(rows', devices')
  BY <1>1, <1>2, <1>3, RemovalKeeps DEF EInv
<1>5. Registries(rows, devices)'
  BY <1>4, OrderedAfter DEF Cleanup, Reloading
<1> QED
  BY <1>5 DEF EInv, Cleanup, Reloading

LEMMA ListChangesStep == ASSUME EInv, ListChanges PROVE EInv'
<1> DEFINE new == IF loaded THEN Listed(data') \ known ELSE {}
<1>1. /\ devices' = Registered(devices, new, data')
      /\ rows' \in WithEntities(rows, new, devices')
      /\ known' = known \union new /\ data' \in [Uid -> Name \union {Absent}]
  BY DEF ListChanges
<1>2. new \in SUBSET Listed(data') /\ Listed(data') \subseteq Uid
  BY DEF Listed
<1>3. new # {} => loaded
  OBVIOUS
<1> HIDE DEF new
<1>4. Registries(rows', devices')
  BY <1>1, <1>2, AddedKeeps DEF EInv
<1>5. Registries(rows, devices)'
  BY <1>4, OrderedAfter DEF ListChanges
<1> QED
  BY <1>1, <1>2, <1>3, <1>5 DEF EInv, ListChanges, Lists

LEMMA UserNamesDeviceStep == ASSUME EInv, UserNamesDevice PROVE EInv'
<1>1. PICK u \in Uid, n \in Name \union {NoName} :
        devices[u] # NoDevice /\ devices' = [devices EXCEPT ![u].by_user = n]
  BY DEF UserNamesDevice
<1>2. devices \in Devices
  BY DEF EInv, Registries
<1>3. devices'[u] \in Device /\ \A v \in Uid \ {u} : devices'[v] = devices[v]
  <2>1. devices[u] \in Device
    BY <1>1, <1>2 DEF Devices
  <2>2. devices'[u] = [devices[u] EXCEPT !.by_user = n]
    BY <1>1, <1>2 DEF Devices
  <2> QED
    BY <1>1, <1>2, <2>1, <2>2 DEF Devices, Device
<1>4. devices' \in Devices
  <2>1. DOMAIN devices' = Uid /\ devices' = [v \in Uid |-> devices'[v]]
    BY <1>1, <1>2 DEF Devices
  <2> QED
    BY <1>2, <1>3, <2>1 DEF Devices
<1>5. \A v \in Uid : devices[v] # NoDevice => devices'[v] # NoDevice
  BY <1>3, IdsAssumption
<1>6. Registries(rows', devices')
  BY <1>4, <1>5 DEF UserNamesDevice, EInv, Registries, Keyed
<1>7. Registries(rows, devices)'
  BY <1>6, OrderedAfter DEF UserNamesDevice
<1> QED
  BY <1>7 DEF EInv, UserNamesDevice, Changes

LEMMA UserNamesEntityStep == ASSUME EInv, UserNamesEntity PROVE EInv'
<1>1. PICK r \in WithoutShadows(rows), n \in Name :
        /\ ExpectedId(r.platform, n) \notin Ids(rows) \union foreign
        /\ rows' = (rows \ {r}) \union {[r EXCEPT !.id = ExpectedId(r.platform, n),
                                               !.wanted = ExpectedId(r.platform, n)]}
  BY DEF UserNamesEntity
<1> DEFINE id == ExpectedId(r.platform, n)
           s == [r EXCEPT !.id = id, !.wanted = id]
<1>2. /\ r \in rows /\ r \in Rows /\ r.platform \in Platform /\ r.uid \in Uid
      /\ devices[r.uid] # NoDevice
  BY DEF EInv, Registries, Keyed, WithoutShadows
<1>3. id \in Seq(Word)
  BY <1>2, IdsAssumption DEF ExpectedId
<1>4. s \in Rows /\ SameKey(r, s) /\ s.id = id
  BY <1>2, <1>3 DEF Rows, SameKey
<1>5. id \notin Ids(rows) /\ id \notin foreign /\ rows' = (rows \ {r}) \union {s}
  BY <1>1
<1> HIDE DEF id, s
<1>6. Proper(rows', foreign)
  BY <1>4, <1>5 DEF EInv, Registries, Proper, UniqueIds, Ids
<1>7. Keyed(rows')
  <2>1. rows' \in SUBSET Rows
    BY <1>4, <1>5 DEF EInv, Registries, Keyed
  <2>2. \A t \in WithoutShadows(rows') : t.platform \in Platform /\ t.uid \in Uid
    BY <1>2, <1>4, <1>5 DEF EInv, Registries, Keyed, SameKey, WithoutShadows
  <2>3. UniqueKeys(WithoutShadows(rows'))
    BY <1>2, <1>4, <1>5 DEF EInv, Registries, Keyed, UniqueKeys, SameKey, WithoutShadows
  <2> QED
    BY <2>1, <2>2, <2>3 DEF Keyed
<1>8. \A t \in WithoutShadows(rows') : devices'[t.uid] # NoDevice
  BY <1>2, <1>4, <1>5 DEF UserNamesEntity, EInv, Registries, SameKey, WithoutShadows
<1>9. Registries(rows', devices')
  BY <1>6, <1>7, <1>8 DEF UserNamesEntity, EInv, Registries
<1>10. Registries(rows, devices)'
  BY <1>9, OrderedAfter DEF UserNamesEntity
<1> QED
  BY <1>10 DEF EInv, UserNamesEntity, Changes

LEMMA EInvNext == EInv /\ [Next]_vars => EInv'
<1> SUFFICES ASSUME EInv, [Next]_vars PROVE EInv'
  OBVIOUS
<1>1. CASE Unload
  BY <1>1, OrderedAfter DEF EInv, Unload
<1>2. CASE UNCHANGED vars
  BY <1>2, OrderedAfter DEF EInv, vars
<1> QED
  BY <1>1, <1>2, MigrateStep, SetupStep, RepairStep, CleanupStep, ListChangesStep,
     UserNamesDeviceStep, UserNamesEntityStep DEF Next

LEMMA EInvHolds == Spec => []EInv
BY EInvInit, EInvNext, PTL DEF Spec

\* The registries stay in order whatever list the box shows, whatever the user names
\* and whenever entries are set up, repaired and cleaned up: no unique_id and no
\* entity ID twice, none on an ID of another integration, a device for every row.
THEOREM TypeCorrect == Spec => []TypeOK
<1>1. EInv => TypeOK
  BY DEF EInv, Registries, Keyed, Proper, TypeOK
<1> QED
  BY <1>1, EInvHolds, PTL

-----------------------------------------------------------------------------
(* No row of a listed VPN is lost                                          *)

LEMMA CarriedRow ==
  ASSUME NEW move, NEW after, Carries(move, after), NEW r \in DOMAIN move
  PROVE  \E s \in after : SameKey(r, s)
BY DEF Carries

LEMMA AskedRow ==
  ASSUME NEW rws \in SUBSET Rows, NEW r \in rws
  PROVE  \E s \in AsAsked(rws) : SameKey(r, s)
<1> DEFINE s == IF r \in rows THEN r ELSE [r EXCEPT !.wanted = r.id]
<1>1. s \in AsAsked(rws) /\ SameKey(r, s)
  BY DEF AsAsked, SameKey, Rows
<1> QED
  BY <1>1

\* Without current UIDs nothing is merged.
LEMMA NothingMerged ==
  ASSUME NEW rws
  PROVE  /\ MergedAway(rws, {}) = {} /\ MergedOnto(rws, {}) = {} /\ Merged(rws, {}) = rws
<1>1. MergedAway(rws, {}) = {}
  BY DEF MergedAway, Mergeable
<1>2. MergedOnto(rws, {}) = {}
  BY <1>1 DEF MergedOnto
<1> QED
  BY <1>1, <1>2 DEF Merged

LEMMA SameKeyFollows ==
  ASSUME NEW r, NEW s, NEW t, SameKey(r, s), SameKey(s, t)
  PROVE  SameKey(r, t)
BY DEF SameKey

\* remove_orphaned_entities apart, what removes a row is a merge, and that only where
\* the UID of the row is not listed: the row of a VPN on the box stays.
THEOREM ListedRowsKeptHolds == Spec => ListedRowsKept
<1> DEFINE Kept == \A r \in WithoutShadows(rows) : r.uid \in Listed(data) =>
                     \E s \in rows' : SameKey(r, s)
<1>1. ASSUME EInv, [Next]_vars PROVE [Kept]_vars
  <2> SUFFICES ASSUME Next, NEW r \in WithoutShadows(rows), r.uid \in Listed(data)
               PROVE  \E s \in rows' : SameKey(r, s)
    BY <1>1
  <2>1. r \in rows /\ rows \in SUBSET Rows /\ SameKey(r, r)
    BY <1>1 DEF EInv, Registries, Keyed, WithoutShadows, SameKey
  <2>2. ASSUME NEW winners \in LegacyWinners(rows, devices, foreign)
        PROVE  /\ \E q \in LegacyRepaired(rows, devices, winners) : SameKey(r, q)
               /\ Registries(LegacyRepaired(rows, devices, winners), devices)
    <3>1. Registries(rows, devices)
      BY <1>1 DEF EInv
    <3>2. \A q \in rows : HasExpected(q, devices) => ExpectedOf(q, devices) \in Seq(Word)
      BY <3>1, ExpectedIds
    <3>3. Carries(LegacyMove(rows, devices, winners), LegacyRepaired(rows, devices, winners))
      BY <2>1, <3>2, LegacyCarries
    <3>4. r \in DOMAIN LegacyMove(rows, devices, winners)
      BY <2>1 DEF LegacyMove
    <3> QED
      BY <3>1, <3>3, <3>4, CarriedRow, LegacyKeeps
  <2>3. ASSUME NEW rws \in SUBSET Rows, NEW q \in rws, SameKey(r, q)
        PROVE  \E s \in SuffixRepaired(rws, foreign) : SameKey(r, s)
    BY <2>3, SuffixRepairKeepsRows, SameKeyFollows
  <2>4. ASSUME NEW rws \in SUBSET Rows, NEW q \in rws, SameKey(r, q)
        PROVE  \E s \in Merged(rws, CurrentUids) : SameKey(r, s)
    <3>1. CASE loaded
      <4>1. q.uid \in CurrentUids
        BY <2>4, <3>1 DEF SameKey, CurrentUids
      <4> QED
        BY <2>4, <4>1, MergeKeepsListedRows, SameKeyFollows
    <3>2. CASE ~loaded
      <4>1. Merged(rws, CurrentUids) = rws
        BY <3>2, NothingMerged DEF CurrentUids
      <4> QED
        BY <2>4, <4>1
    <3> QED
      BY <3>1, <3>2
  <2>5. CASE Migrate
    <3>1. PICK winners \in LegacyWinners(rows, devices, foreign) :
            rows' = AsAsked(LegacyRepaired(rows, devices, winners))
      BY <2>5 DEF Migrate
    <3>2. PICK q \in LegacyRepaired(rows, devices, winners) : SameKey(r, q)
      BY <2>2
    <3>3. LegacyRepaired(rows, devices, winners) \in SUBSET Rows
      BY <2>2 DEF Registries, Keyed
    <3> QED
      BY <3>1, <3>2, <3>3, AskedRow, SameKeyFollows
  <2>6. CASE Setup
    <3> DEFINE valid == IF Listed(data) = {} THEN rows ELSE WithoutShadows(rows)
               kept == DevicesAfterMerge(valid, devices, CurrentUids)
               registered == Registered(kept, Listed(data), data)
    <3>1. /\ Registries(valid, devices) /\ Registries(RepairedAtSetup(valid), kept)
          /\ rows' \in WithEntities(RepairedAtSetup(valid), Listed(data), registered)
      BY <1>1, <2>6, SetupSteps
    <3>2. r \in valid
      BY <2>1
    <3>3. data \in [Uid -> Name \union {Absent}] /\ Listed(data) \in SUBSET Uid
      BY <1>1 DEF EInv, Lists, Listed
    <3>4. registered \in Devices /\ \A u \in Listed(data) : registered[u] # NoDevice
      BY <3>1, <3>3, RegisteredType DEF Registries
    <3> HIDE DEF valid, kept, registered
    <3>5. RepairedAtSetup(valid) \subseteq rows'
      BY <3>1, <3>3, <3>4, EntitiesAdded DEF Registries
    <3>6. valid \in SUBSET Rows
      BY <3>1 DEF Registries, Keyed
    <3>7. PICK q \in Merged(valid, CurrentUids) : SameKey(r, q)
      BY <2>1, <2>4, <3>2, <3>6
    <3>8. Merged(valid, CurrentUids) \in SUBSET Rows
      BY <3>1, MergeKeeps DEF Registries, Keyed
    <3>9. \E s \in RepairedAtSetup(valid) : SameKey(r, s)
      BY <2>3, <3>7, <3>8 DEF RepairedAtSetup
    <3> QED
      BY <3>5, <3>9
  <2>7. CASE Unload
    BY <2>1, <2>7 DEF Unload
  <2>8. CASE Repair
    <3>1. PICK winners \in LegacyWinners(rows, devices, foreign) :
            rows' = AsAsked(SuffixRepaired(Merged(LegacyRepaired(rows, devices, winners),
                                                  CurrentUids), foreign))
      BY <2>8 DEF Repair
    <3> DEFINE named == LegacyRepaired(rows, devices, winners)
    <3>2. PICK q \in named : SameKey(r, q)
      BY <2>2
    <3>3. Registries(named, devices)
      BY <2>2
    <3> HIDE DEF named
    <3>4. Registries(Merged(named, CurrentUids), DevicesAfterMerge(named, devices, CurrentUids))
      BY <3>3, MergeKeeps
    <3> DEFINE merged == Merged(named, CurrentUids)
               numbered == SuffixRepaired(merged, foreign)
    <3>5. named \in SUBSET Rows /\ merged \in SUBSET Rows
      BY <3>3, <3>4 DEF Registries, Keyed
    <3>6. numbered \in SUBSET Rows
      BY <3>4, SuffixKeeps DEF Registries, Keyed
    <3>7. PICK m \in merged : SameKey(r, m)
      BY <2>4, <3>2, <3>5
    <3> HIDE DEF merged
    <3>8. PICK t \in numbered : SameKey(r, t)
      BY <2>3, <3>5, <3>7
    <3> HIDE DEF numbered
    <3>9. PICK s \in AsAsked(numbered) : SameKey(t, s)
      BY <3>6, <3>8, AskedRow
    <3>10. rows' = AsAsked(numbered)
      BY <3>1 DEF numbered, merged, named
    <3> QED
      BY <3>8, <3>9, <3>10, SameKeyFollows
  <2>9. CASE Cleanup
    <3>1. r \in rows'
      BY <2>1, <2>9 DEF Cleanup, Orphaned
    <3> QED
      BY <2>1, <3>1
  <2>10. CASE ListChanges
    <3> DEFINE new == IF loaded THEN Listed(data') \ known ELSE {}
    <3>1. /\ devices' = Registered(devices, new, data')
          /\ rows' \in WithEntities(rows, new, devices')
          /\ data' \in [Uid -> Name \union {Absent}]
      BY <2>10 DEF ListChanges
    <3>2. new \in SUBSET Listed(data') /\ new \in SUBSET Uid
      BY DEF Listed
    <3> HIDE DEF new
    <3>3. devices' \in Devices /\ \A u \in new : devices'[u] # NoDevice
      BY <1>1, <3>1, <3>2, RegisteredType DEF EInv, Registries
    <3>4. rows \subseteq rows'
      BY <1>1, <3>1, <3>2, <3>3, EntitiesAdded DEF EInv, Registries
    <3> QED
      BY <2>1, <3>4
  <2>11. CASE UserNamesDevice
    BY <2>1, <2>11 DEF UserNamesDevice
  <2>12. CASE UserNamesEntity
    <3>1. PICK q \in WithoutShadows(rows), n \in Name :
            rows' = (rows \ {q}) \union {[q EXCEPT !.id = ExpectedId(q.platform, n),
                                                   !.wanted = ExpectedId(q.platform, n)]}
      BY <2>12 DEF UserNamesEntity
    <3>2. SameKey(q, [q EXCEPT !.id = ExpectedId(q.platform, n),
                               !.wanted = ExpectedId(q.platform, n)])
      BY <2>1 DEF SameKey, Rows, WithoutShadows
    <3> QED
      BY <2>1, <3>1, <3>2
  <2> QED
    BY <2>5, <2>6, <2>7, <2>8, <2>9, <2>10, <2>11, <2>12 DEF Next
<1> QED
  BY <1>1, EInvHolds, PTL DEF Spec, ListedRowsKept

-----------------------------------------------------------------------------
(* Numbers of IDs, when no name ends in one                                *)

\* "Office 2" is such a name: with it, a row that asked for an ID with a number is
\* taken for one that was numbered.
NamesUnnumbered == \A n \in Name : \A i \in 1..Len(Numerals) : Last(n) # Numerals[i]

LEMMA LastWord ==
  ASSUME NEW d \in Word, NEW n \in Seq(Word), n # <<>>, NEW t \in Seq(Word)
  PROVE  LET id == <<d>> \o n \o t
         IN id \in Seq(Word) /\ Len(id) > 1 /\ Last(id) = IF t = <<>> THEN Last(n) ELSE Last(t)
<1> DEFINE front == <<d>> \o n
           id == front \o t
<1>1. Len(n) > 0 /\ Len(n) \in Nat /\ Len(t) \in Nat
  OBVIOUS
<1>2. front \in Seq(Word) /\ Len(front) = 1 + Len(n) /\ front[1 + Len(n)] = n[Len(n)]
  BY <1>1
<1> HIDE DEF front
<1>3. id \in Seq(Word) /\ Len(id) = 1 + Len(n) + Len(t)
  BY <1>1, <1>2
<1>4. CASE t = <<>>
  <2>1. Len(t) = 0 /\ id = front
    BY <1>2, <1>4
  <2> QED
    BY <1>1, <1>2, <1>3, <1>4, <2>1 DEF Last, front
<1>5. CASE t # <<>>
  <2>1. Len(t) > 0
    BY <1>1, <1>5
  <2>2. id[1 + Len(n) + Len(t)] = t[Len(t)]
    BY <1>1, <1>2, <2>1
  <2> QED
    BY <1>1, <1>3, <1>5, <2>2 DEF Last, front
<1> QED
  BY <1>4, <1>5

LEMMA UnnumberedIds ==
  ASSUME NamesUnnumbered, NEW p \in Platform, NEW n \in Name
  PROVE  /\ ExpectedId(p, n) \in Seq(Word) /\ Len(ExpectedId(p, n)) > 1
         /\ ~Numbered(ExpectedId(p, n)) /\ ~Numbered(LegacyId(p, n))
<1>1. /\ p \in DOMAIN Suffix /\ Domain[p] \in Word /\ Suffix[p] \in Seq(Word)
      /\ n \in Seq(Word) /\ n # <<>> /\ "vpn" \in Word
  BY IdsAssumption
<1>2. \A i \in 1..Len(Numerals) : Numerals[i] \in {"2", "3", "4", "5", "6"}
  BY DEF Numerals
<1>3. Suffix[p] = <<>> \/ Last(Suffix[p]) \in {"connected", "status", "uid"}
  <2>1. DOMAIN Suffix = {"switch", "connected", "status", "uid", "vpn_uid"}
    BY DEF Suffix
  <2>2. /\ Suffix["switch"] = <<>> /\ Suffix["connected"] = <<"connected">>
        /\ Suffix["status"] = <<"status">> /\ Suffix["uid"] = <<"uid">>
        /\ Suffix["vpn_uid"] = <<"vpn", "uid">>
    BY DEF Suffix
  <2>3. /\ Last(<<"connected">>) = "connected" /\ Last(<<"status">>) = "status"
        /\ Last(<<"uid">>) = "uid" /\ Last(<<"vpn", "uid">>) = "uid"
    BY DEF Last
  <2> QED
    BY <1>1, <2>1, <2>2, <2>3
<1>4. \A i \in 1..Len(Numerals) :
        (Suffix[p] # <<>> => Last(Suffix[p]) # Numerals[i]) /\ Last(n) # Numerals[i]
  BY <1>2, <1>3 DEF NamesUnnumbered
<1>5. /\ ExpectedId(p, n) \in Seq(Word) /\ Len(ExpectedId(p, n)) > 1
      /\ Last(ExpectedId(p, n)) = IF Suffix[p] = <<>> THEN Last(n) ELSE Last(Suffix[p])
  BY <1>1, LastWord DEF ExpectedId
<1>6. ~Numbered(ExpectedId(p, n))
  BY <1>4, <1>5 DEF Numbered
<1> DEFINE vpn == IF p = "switch" THEN <<"vpn">> ELSE <<>>
<1>7. vpn \in Seq(Word) /\ (vpn # <<>> => Last(vpn) = "vpn")
  BY <1>1 DEF Last
<1>8. LegacyId(p, n) = <<Domain[p]>> \o n \o vpn
  BY DEF LegacyId
<1> HIDE DEF vpn
<1>9. Last(LegacyId(p, n)) = IF vpn = <<>> THEN Last(n) ELSE Last(vpn)
  BY <1>1, <1>7, <1>8, LastWord
<1>10. ~Numbered(LegacyId(p, n))
  BY <1>2, <1>4, <1>7, <1>9 DEF Numbered
<1> QED
  BY <1>5, <1>6, <1>10

\* A number given by Home Assistant is one that repairs take off again.
LEMMA CandidateNumbered ==
  ASSUME NEW wanted \in Seq(Word), Len(wanted) > 1, NEW k \in 0..Len(Numerals)
  PROVE  \/ Candidate(wanted, k) = wanted
         \/ Numbered(Candidate(wanted, k)) /\ Base(Candidate(wanted, k)) = wanted
<1> DEFINE id == Candidate(wanted, k)
<1>1. CASE k = 0
  BY <1>1 DEF Candidate
<1>2. CASE k # 0
  <2>1. k \in 1..Len(Numerals) /\ Numerals[k] \in Word
    <3>1. Len(Numerals) = 5 /\ DOMAIN Numerals = 1..5
      BY DEF Numerals
    <3> QED
      BY <1>2, <3>1, IdsAssumption
  <2>2. id = Append(wanted, Numerals[k])
    BY <1>2 DEF Candidate
  <2>3. id \in Seq(Word) /\ Len(id) = Len(wanted) + 1 /\ id[Len(wanted) + 1] = Numerals[k]
    BY <2>1, <2>2
  <2>4. Len(wanted) \in Nat
    OBVIOUS
  <2>5. Numbered(id)
    BY <2>1, <2>3, <2>4 DEF Numbered, Last
  <2>6. Base(id) = [i \in 1..Len(wanted) |-> id[i]]
    BY <2>3, <2>4 DEF Base, Front
  <2>7. \A i \in 1..Len(wanted) : id[i] = wanted[i]
    BY <2>1, <2>2, <2>4
  <2>8. wanted = [i \in 1..Len(wanted) |-> wanted[i]]
    OBVIOUS
  <2> HIDE DEF id
  <2>9. Base(id) = wanted
    BY <2>6, <2>7, <2>8
  <2> QED
    BY <2>5, <2>9 DEF id
<1> QED
  BY <1>1, <1>2

\* A row has the ID it was made for, or was asked for since, or that ID with a number.
Served(r) ==
  /\ ~Numbered(r.wanted)
  /\ r.id = r.wanted \/ (Numbered(r.id) /\ Base(r.id) = r.wanted)
AllServed(rws) == \A r \in rws : Served(r)

\* While a repair is at work: rows it has not moved are those of the registry, and
\* what it has moved has no number.
Settled(rws) == \A t \in rws : t \in rows \/ ~Numbered(t.id)

SInv == EInv /\ AllServed(rows)

LEMMA NumberedSettled ==
  ASSUME AllServed(rows), NEW rws, Settled(rws), NEW t \in rws, Numbered(t.id)
  PROVE  t \in rows /\ Base(t.id) = t.wanted /\ ~Numbered(Base(t.id))
BY DEF Settled, AllServed, Served

LEMMA ExpectedUnnumbered ==
  ASSUME NamesUnnumbered, NEW rws, NEW devs, Registries(rws, devs), NEW r \in rws,
         HasExpected(r, devs)
  PROVE  ~Numbered(ExpectedOf(r, devs))
<1>1. r.platform \in Platform
  BY DEF HasExpected, Registries, Keyed, WithoutShadows
<1> QED
  BY <1>1, ExpectedIds, UnnumberedIds

\* What a row becomes in each repair
LEMMA LegacyMoves ==
  ASSUME NEW rws, NEW devs, Registries(rws, devs), NEW winners \in LegacyWinners(rws, devs, foreign)
  PROVE  /\ Carries(LegacyMove(rws, devs, winners), LegacyRepaired(rws, devs, winners))
         /\ \A r \in rws : LET s == LegacyMove(rws, devs, winners)[r]
                           IN s = r \/ (HasExpected(r, devs) /\ s.id = ExpectedOf(r, devs))
<1>1. \A r \in rws : HasExpected(r, devs) => ExpectedOf(r, devs) \in Seq(Word)
  BY ExpectedIds
<1>2. rws \in SUBSET Rows
  BY DEF Registries, Keyed
<1>3. Carries(LegacyMove(rws, devs, winners), LegacyRepaired(rws, devs, winners))
  BY <1>1, <1>2, LegacyCarries
<1>4. \A r \in winners : HasExpected(r, devs)
  BY DEF LegacyWinners, LegacyPlan
<1>5. ASSUME NEW r \in rws, r \in winners
      PROVE  LegacyMove(rws, devs, winners)[r].id = ExpectedOf(r, devs)
  <2>1. LegacyMove(rws, devs, winners)[r] = [r EXCEPT !.id = ExpectedOf(r, devs)]
    BY <1>5 DEF LegacyMove
  <2> QED
    BY <1>1, <1>2, <1>4, <1>5, <2>1, MovedRow
<1>6. \A r \in rws : r \notin winners => LegacyMove(rws, devs, winners)[r] = r
  BY DEF LegacyMove
<1> QED
  BY <1>3, <1>4, <1>5, <1>6

LEMMA SuffixMoves ==
  ASSUME NEW rws \in SUBSET Rows, NEW others
  PROVE  /\ Carries(SuffixMove(rws, others), SuffixRepaired(rws, others))
         /\ DOMAIN SuffixMove(rws, others) = rws
         /\ \A r \in rws : LET s == SuffixMove(rws, others)[r]
                           IN \/ s = r
                              \/ /\ r \in SuffixPlan(rws, others)
                                 /\ Numbered(r.id) /\ s.id = Base(r.id)
<1>1. /\ Carries(SuffixMove(rws, others), SuffixRepaired(rws, others))
      /\ \A r \in SuffixPlan(rws, others) : Numbered(r.id)
  BY SuffixCarries
<1>2. ASSUME NEW r \in rws, r \in SuffixPlan(rws, others)
      PROVE  SuffixMove(rws, others)[r].id = Base(r.id)
  <2>1. r.id \in Seq(Word) /\ Numbered(r.id)
    BY <1>1, <1>2 DEF Rows
  <2>2. SuffixMove(rws, others)[r] = [r EXCEPT !.id = Base(r.id)]
    BY <1>2 DEF SuffixMove
  <2> QED
    BY <2>1, <2>2, BaseType, MovedRow
<1>3. \A r \in rws : r \notin SuffixPlan(rws, others) => SuffixMove(rws, others)[r] = r
  BY DEF SuffixMove
<1> QED
  BY <1>1, <1>2, <1>3 DEF SuffixMove

LEMMA MergeMoves ==
  ASSUME NEW rws \in SUBSET Rows, NEW current
  PROVE  /\ Carries(MergeMove(rws, current), Merged(rws, current))
         /\ DOMAIN MergeMove(rws, current) = rws \ MergedAway(rws, current)
         /\ \A r \in rws \ MergedAway(rws, current) :
              LET s == MergeMove(rws, current)[r]
              IN s = r \/ (Numbered(r.id) /\ r.uid \in current /\ s.id = Base(r.id))
<1>1. /\ Carries(MergeMove(rws, current), Merged(rws, current))
      /\ \A r \in MergedOnto(rws, current) : Numbered(r.id)
  BY MergeCarries
<1>2. ASSUME NEW r \in rws \ MergedAway(rws, current), r \in MergedOnto(rws, current)
      PROVE  MergeMove(rws, current)[r].id = Base(r.id) /\ r.uid \in current
  <2>1. r.id \in Seq(Word) /\ Numbered(r.id)
    BY <1>1, <1>2 DEF Rows
  <2>2. MergeMove(rws, current)[r] = [r EXCEPT !.id = Base(r.id)]
    BY <1>2 DEF MergeMove
  <2> QED
    BY <1>2, <2>1, <2>2, BaseType, MovedRow, MergeFacts
<1>3. \A r \in rws \ MergedAway(rws, current) :
        r \notin MergedOnto(rws, current) => MergeMove(rws, current)[r] = r
  BY DEF MergeMove
<1> QED
  BY <1>1, <1>2, <1>3 DEF MergeMove

\* A row that is left has come from one of the same key.
LEMMA CarriedFrom ==
  ASSUME NEW move, NEW after, Carries(move, after), NEW s \in after
  PROVE  \E r \in DOMAIN move : s = move[r] /\ SameKey(r, s) /\ s.wanted = r.wanted
BY DEF Carries

LEMMA LegacySettles ==
  ASSUME NamesUnnumbered, EInv, NEW winners \in LegacyWinners(rows, devices, foreign)
  PROVE  Settled(LegacyRepaired(rows, devices, winners))
<1>1. Registries(rows, devices) /\ DOMAIN LegacyMove(rows, devices, winners) = rows
  BY DEF EInv, LegacyMove
<1>2. ASSUME NEW s \in LegacyRepaired(rows, devices, winners)
      PROVE  s \in rows \/ ~Numbered(s.id)
  <2>1. PICK r \in rows : s = LegacyMove(rows, devices, winners)[r]
    BY <1>1, LegacyMoves, CarriedFrom
  <2>2. s = r \/ (HasExpected(r, devices) /\ s.id = ExpectedOf(r, devices))
    BY <1>1, <2>1, LegacyMoves
  <2> QED
    BY <1>1, <2>2, ExpectedUnnumbered
<1> QED
  BY <1>2 DEF Settled

LEMMA MergeSettles ==
  ASSUME AllServed(rows), NEW rws \in SUBSET Rows, Settled(rws), NEW current
  PROVE  Settled(Merged(rws, current))
<1>1. ASSUME NEW s \in Merged(rws, current)
      PROVE  s \in rows \/ ~Numbered(s.id)
  <2>1. /\ Carries(MergeMove(rws, current), Merged(rws, current))
        /\ DOMAIN MergeMove(rws, current) = rws \ MergedAway(rws, current)
        /\ \A r \in rws \ MergedAway(rws, current) :
             LET x == MergeMove(rws, current)[r]
             IN x = r \/ (Numbered(r.id) /\ r.uid \in current /\ x.id = Base(r.id))
    BY MergeMoves
  <2>2. PICK r \in rws \ MergedAway(rws, current) : s = MergeMove(rws, current)[r]
    BY <2>1, CarriedFrom
  <2>3. r \in rws /\ (s = r \/ (Numbered(r.id) /\ s.id = Base(r.id)))
    BY <2>1, <2>2
  <2> QED
    BY <2>3, NumberedSettled DEF Settled
<1> QED
  BY <1>1 DEF Settled

LEMMA SuffixSettles ==
  ASSUME AllServed(rows), NEW rws \in SUBSET Rows, Settled(rws), NEW others
  PROVE  Settled(SuffixRepaired(rws, others))
<1>1. ASSUME NEW s \in SuffixRepaired(rws, others)
      PROVE  s \in rows \/ ~Numbered(s.id)
  <2>1. PICK r \in rws : s = SuffixMove(rws, others)[r]
    BY SuffixMoves, CarriedFrom
  <2>2. s = r \/ (Numbered(r.id) /\ s.id = Base(r.id))
    BY <2>1, SuffixMoves
  <2> QED
    BY <2>1, <2>2, NumberedSettled DEF Settled
<1> QED
  BY <1>1 DEF Settled

LEMMA AsAskedServes ==
  ASSUME AllServed(rows), NEW rws \in SUBSET Rows, Settled(rws)
  PROVE  AllServed(AsAsked(rws))
<1>1. ASSUME NEW s \in AsAsked(rws)
      PROVE  Served(s)
  <2>1. PICK t \in rws : s = IF t \in rows THEN t ELSE [t EXCEPT !.wanted = t.id]
    BY DEF AsAsked
  <2>2. CASE t \in rows
    BY <2>1, <2>2 DEF AllServed
  <2>3. CASE t \notin rows
    <3>1. s.wanted = t.id /\ s.id = t.id
      BY <2>1, <2>3 DEF Rows
    <3> QED
      BY <2>3, <3>1 DEF Settled, Served
  <2> QED
    BY <2>2, <2>3
<1> QED
  BY <1>1 DEF AllServed

\* Setup leaves rows as they were asked for.
LEMMA SuffixServes ==
  ASSUME NEW rws \in SUBSET Rows, NEW others, AllServed(rws)
  PROVE  AllServed(SuffixRepaired(rws, others))
<1>1. ASSUME NEW s \in SuffixRepaired(rws, others)
      PROVE  Served(s)
  <2>1. PICK r \in rws : s = SuffixMove(rws, others)[r] /\ s.wanted = r.wanted
    BY SuffixMoves, CarriedFrom
  <2>2. s = r \/ (Numbered(r.id) /\ s.id = Base(r.id))
    BY <2>1, SuffixMoves
  <2> QED
    BY <2>1, <2>2 DEF AllServed, Served
<1> QED
  BY <1>1 DEF AllServed

LEMMA AddedServed ==
  ASSUME NamesUnnumbered, NEW some, NEW devs, Registries(some, devs), AllServed(some),
         NEW list \in Lists, NEW uids \in SUBSET Listed(list),
         NEW after \in WithEntities(some, uids, Registered(devs, uids, list))
  PROVE  some \subseteq after /\ AllServed(after)
<1> DEFINE devs2 == Registered(devs, uids, list)
<1>1. devs2 \in Devices /\ \A u \in uids : devs2[u] # NoDevice
  BY RegisteredType DEF Registries, Lists
<1>2. uids \in SUBSET Uid /\ Keyed(some) /\ Proper(some, foreign)
  BY DEF Listed, Registries
<1>3. after \in WithEntities(some, uids, devs2)
  OBVIOUS
<1> HIDE DEF devs2
<1>4. some \subseteq after /\ \A s \in after \ some : NewFor(s, some, uids, devs2)
  BY <1>1, <1>2, <1>3, EntitiesAdded
<1>5. ASSUME NEW s \in after \ some
      PROVE  Served(s)
  <2>1. /\ s.platform \in Platform /\ s.uid \in uids /\ s.wanted = ExpectedOf(s, devs2)
        /\ \E n \in 0..Len(Numerals) : s.id = Candidate(s.wanted, n)
    BY <1>4, <1>5 DEF NewFor
  <2>2. PICK n \in Name : s.wanted = ExpectedId(s.platform, n)
    BY <1>1, <1>2, <2>1, ExpectedType
  <2>3. s.wanted \in Seq(Word) /\ Len(s.wanted) > 1 /\ ~Numbered(s.wanted)
    BY <2>1, <2>2, UnnumberedIds
  <2> QED
    BY <2>1, <2>3, CandidateNumbered DEF Served
<1> QED
  BY <1>4, <1>5 DEF AllServed

LEMMA SInvInit == ASSUME NamesUnnumbered PROVE Init => SInv
<1> SUFFICES ASSUME Init, NEW r \in rows PROVE Served(r)
  BY EInvInit DEF SInv, AllServed
<1>1. EInv
  BY EInvInit
<1> DEFINE Row(p, u) == [platform |-> p, uid |-> u, wanted |-> LegacyId(p, data[u]),
                         id |-> LegacyId(p, data[u])]
           valid == {Row(p, u) : p \in Platform, u \in Listed(data)}
           Shadow(id) == [platform |-> Broken, uid |-> NoName, wanted |-> id, id |-> id]
<1>2. rows \in LegacyRows
  BY <1>1 DEF Init
<1>3. rows = valid \/ \E p \in Platform, n \in Name : rows = valid \union {Shadow(ExpectedId(p, n))}
  BY <1>2 DEF LegacyRows
<1>4. CASE r \in valid
  <2>1. PICK p \in Platform, u \in Listed(data) : r = Row(p, u)
    BY <1>4
  <2>2. data[u] \in Name
    BY <1>1 DEF Listed, EInv, Lists
  <2>3. r.wanted = LegacyId(p, data[u]) /\ r.id = r.wanted
    BY <2>1
  <2> QED
    BY <2>2, <2>3, UnnumberedIds DEF Served
<1>5. CASE \E p \in Platform, n \in Name : r = Shadow(ExpectedId(p, n))
  BY <1>5, UnnumberedIds DEF Served
<1> QED
  BY <1>3, <1>4, <1>5

LEMMA MigrateServes == ASSUME NamesUnnumbered, SInv, Migrate PROVE AllServed(rows')
<1>1. PICK winners \in LegacyWinners(rows, devices, foreign) :
        rows' = AsAsked(LegacyRepaired(rows, devices, winners))
  BY DEF Migrate
<1>2. Settled(LegacyRepaired(rows, devices, winners))
  BY LegacySettles DEF SInv
<1>3. LegacyRepaired(rows, devices, winners) \in SUBSET Rows
  BY LegacyKeeps DEF SInv, EInv, Registries, Keyed
<1> QED
  BY <1>1, <1>2, <1>3, AsAskedServes DEF SInv

\* Setup leaves every row, moved to the ID it was asked for or not at all.
LEMMA SetupServes ==
  ASSUME NamesUnnumbered, SInv, Setup
  PROVE  /\ AllServed(rows')
         /\ \A r \in WithoutShadows(rows) :
              \E s \in rows' : SameKey(r, s) /\ (s.id = r.id \/ s.id = r.wanted)
<1> DEFINE valid == IF Listed(data) = {} THEN rows ELSE WithoutShadows(rows)
           kept == DevicesAfterMerge(valid, devices, CurrentUids)
           registered == Registered(kept, Listed(data), data)
<1>1. /\ Registries(valid, devices) /\ Registries(RepairedAtSetup(valid), kept)
      /\ rows' \in WithEntities(RepairedAtSetup(valid), Listed(data), registered)
  BY SetupSteps DEF SInv
<1>2. CurrentUids = {}
  BY DEF Setup, CurrentUids
<1>3. valid \subseteq rows /\ WithoutShadows(rows) \subseteq valid
  BY DEF WithoutShadows
<1>4. AllServed(valid)
  BY <1>3 DEF SInv, AllServed
<1>5. data \in Lists /\ Listed(data) \in SUBSET Listed(data)
  BY DEF SInv, EInv
<1> HIDE DEF valid, kept
<1>6. RepairedAtSetup(valid) = SuffixRepaired(valid, foreign)
  BY <1>2, NothingMerged DEF RepairedAtSetup
<1>7. valid \in SUBSET Rows
  BY <1>1 DEF Registries, Keyed
<1>8. AllServed(RepairedAtSetup(valid))
  BY <1>4, <1>6, <1>7, SuffixServes
<1>9. RepairedAtSetup(valid) \subseteq rows' /\ AllServed(rows')
  BY <1>1, <1>5, <1>8, AddedServed
<1>10. ASSUME NEW r \in WithoutShadows(rows)
       PROVE  \E s \in rows' : SameKey(r, s) /\ (s.id = r.id \/ s.id = r.wanted)
  <2> DEFINE s == SuffixMove(valid, foreign)[r]
  <2>1. r \in valid
    BY <1>3
  <2>2. /\ Carries(SuffixMove(valid, foreign), SuffixRepaired(valid, foreign))
        /\ DOMAIN SuffixMove(valid, foreign) = valid
        /\ s = r \/ (Numbered(r.id) /\ s.id = Base(r.id))
    BY <1>7, <2>1, SuffixMoves
  <2>3. s \in rows' /\ SameKey(r, s)
    BY <1>6, <1>9, <2>1, <2>2 DEF Carries
  <2>4. Served(r)
    BY DEF SInv, AllServed, WithoutShadows
  <2>5. s.id = r.id \/ s.id = r.wanted
    BY <2>2, <2>4 DEF Served
  <2> QED
    BY <2>3, <2>5
<1> QED
  BY <1>9, <1>10

\* What the repair makes of the rows, in the order of its three parts
Named(winners) == LegacyRepaired(rows, devices, winners)
MergedRows(winners) == Merged(Named(winners), CurrentUids)
Renumbered(winners) == SuffixRepaired(MergedRows(winners), foreign)
DevicesLeft(winners) == DevicesAfterMerge(Named(winners), devices, CurrentUids)

LEMMA RepairSteps ==
  ASSUME NamesUnnumbered, SInv, NEW winners \in LegacyWinners(rows, devices, foreign)
  PROVE  /\ Named(winners) \in SUBSET Rows /\ Settled(Named(winners))
         /\ MergedRows(winners) \in SUBSET Rows /\ Settled(MergedRows(winners))
         /\ Renumbered(winners) \in SUBSET Rows /\ Settled(Renumbered(winners))
         /\ Registries(Renumbered(winners), DevicesLeft(winners))
<1>1. AllServed(rows) /\ EInv /\ Registries(rows, devices)
  BY DEF SInv, EInv
<1>2. Registries(Named(winners), devices) /\ Settled(Named(winners))
  BY <1>1, LegacyKeeps, LegacySettles DEF Named
<1>3. Registries(MergedRows(winners), DevicesLeft(winners))
  BY <1>2, MergeKeeps DEF MergedRows, DevicesLeft
<1>4. Registries(Renumbered(winners), DevicesLeft(winners))
  BY <1>3, SuffixKeeps DEF Renumbered
<1>5. /\ Named(winners) \in SUBSET Rows /\ MergedRows(winners) \in SUBSET Rows
      /\ Renumbered(winners) \in SUBSET Rows
  BY <1>2, <1>3, <1>4 DEF Registries, Keyed
<1>6. Settled(MergedRows(winners))
  BY <1>1, <1>2, <1>5, MergeSettles DEF MergedRows
<1>7. Settled(Renumbered(winners))
  BY <1>1, <1>5, <1>6, SuffixSettles DEF Renumbered
<1> QED
  BY <1>2, <1>4, <1>5, <1>6, <1>7

LEMMA RepairedRows ==
  ASSUME Repair
  PROVE  \E winners \in LegacyWinners(rows, devices, foreign) :
           /\ rows' = AsAsked(Renumbered(winners))
           /\ devices' = DevicesLeft(winners)
           /\ winners \union MergedOnto(Named(winners), CurrentUids)
                \union SuffixPlan(MergedRows(winners), foreign) # {}
BY DEF Repair, Named, MergedRows, Renumbered, DevicesLeft

LEMMA RepairServes == ASSUME NamesUnnumbered, SInv, Repair PROVE AllServed(rows')
BY RepairedRows, RepairSteps, AsAskedServes DEF SInv

LEMMA SInvNext == ASSUME NamesUnnumbered PROVE SInv /\ [Next]_vars => SInv'
<1> SUFFICES ASSUME SInv, [Next]_vars PROVE SInv'
  OBVIOUS
<1>1. EInv'
  BY EInvNext DEF SInv
<1>2. AllServed(rows')
  <2>1. CASE Cleanup
    BY <2>1 DEF Cleanup, SInv, AllServed
  <2>2. CASE ListChanges
    <3> DEFINE new == IF loaded THEN Listed(data') \ known ELSE {}
    <3>1. /\ rows' \in WithEntities(rows, new, Registered(devices, new, data'))
          /\ data' \in Lists
      BY <2>2 DEF ListChanges, Lists
    <3>2. new \in SUBSET Listed(data')
      OBVIOUS
    <3> HIDE DEF new
    <3>3. Registries(rows, devices) /\ AllServed(rows)
      BY DEF SInv, EInv
    <3> QED
      BY <3>1, <3>2, <3>3, AddedServed
  <2>3. CASE UserNamesEntity
    <3>1. PICK r \in WithoutShadows(rows), n \in Name :
            rows' = (rows \ {r}) \union {[r EXCEPT !.id = ExpectedId(r.platform, n),
                                                   !.wanted = ExpectedId(r.platform, n)]}
      BY <2>3 DEF UserNamesEntity
    <3>2. r.platform \in Platform /\ r \in Rows
      BY DEF SInv, EInv, Registries, Keyed, WithoutShadows
    <3> DEFINE id == ExpectedId(r.platform, n)
               s == [r EXCEPT !.id = id, !.wanted = id]
    <3>3. s.id = id /\ s.wanted = id
      BY <3>2 DEF Rows
    <3>4. Served(s)
      BY <3>2, <3>3, UnnumberedIds DEF Served
    <3>5. rows' = (rows \ {r}) \union {s}
      BY <3>1
    <3> HIDE DEF s
    <3> QED
      BY <3>4, <3>5 DEF SInv, AllServed
  <2>4. CASE rows' = rows
    BY <2>4 DEF SInv
  <2> QED
    BY <2>1, <2>2, <2>3, <2>4, MigrateServes, SetupServes, RepairServes
       DEF Next, Unload, UserNamesDevice, vars
<1> QED
  BY <1>1, <1>2 DEF SInv, AllServed

LEMMA SInvHolds == ASSUME NamesUnnumbered PROVE Spec => []SInv
<1>1. Init => SInv
  BY SInvInit
<1>2. SInv /\ [Next]_vars => SInv'
  BY SInvNext
<1> QED
  BY <1>1, <1>2, PTL DEF Spec

\* Where no name ends in a number, setup moves a row only to the ID it was made for, or
\* was asked for since: no reload and no new name, of device or VPN, changes an ID
\* ("Entity IDs no longer change again after you rename a VPN device in Home
\* Assistant", v1.2.2b7).
THEOREM SetupKeepsIdsHolds == ASSUME NamesUnnumbered PROVE Spec => SetupKeepsIds
<1> DEFINE Kept == Setup => \A r \in WithoutShadows(rows), s \in rows' :
                     SameKey(r, s) /\ s.id # r.id => s.id = r.wanted
<1>1. ASSUME SInv, SInv', [Next]_vars PROVE [Kept]_vars
  <2> SUFFICES ASSUME Setup, NEW r \in WithoutShadows(rows), NEW s \in rows',
                      SameKey(r, s), s.id # r.id
               PROVE  s.id = r.wanted
    OBVIOUS
  <2>1. PICK t \in rows' : SameKey(r, t) /\ (t.id = r.id \/ t.id = r.wanted)
    BY <1>1, SetupServes
  <2>2. s \in WithoutShadows(rows') /\ t \in WithoutShadows(rows')
    BY <2>1 DEF WithoutShadows, SameKey
  <2>3. UniqueKeys(WithoutShadows(rows'))
    BY <1>1 DEF SInv, EInv, Registries, Keyed
  <2>4. s = t
    BY <2>1, <2>2, <2>3 DEF UniqueKeys, SameKey
  <2> QED
    BY <2>1, <2>4
<1>2. Spec => []SInv
  BY SInvHolds
<1> QED
  BY <1>1, <1>2, PTL DEF Spec, SetupKeepsIds

\* Every row of after a repair, and what it was before, with the ID given by its name
\* (q) and after the merge (m)
LEMMA Traced ==
  ASSUME NamesUnnumbered, SInv, NEW winners \in LegacyWinners(rows, devices, foreign),
         NEW s \in AsAsked(Renumbered(winners))
  PROVE  \E r \in rows, q \in Named(winners) \ MergedAway(Named(winners), CurrentUids),
           m \in MergedRows(winners) :
           /\ SameKey(r, q) /\ SameKey(r, m) /\ SameKey(r, s)
           /\ q = LegacyMove(rows, devices, winners)[r]
           /\ m = q \/ (Numbered(q.id) /\ q.uid \in CurrentUids /\ m.id = Base(q.id))
           /\ \/ s.id = m.id
              \/ /\ m \in SuffixPlan(MergedRows(winners), foreign)
                 /\ Numbered(m.id) /\ s.id = Base(m.id)
           /\ Numbered(s.id) => s \in rows
<1> DEFINE named == Named(winners)
           merged == MergedRows(winners)
           numbered == Renumbered(winners)
<1>1. /\ named \in SUBSET Rows /\ merged \in SUBSET Rows /\ numbered \in SUBSET Rows
      /\ Settled(numbered)
  BY RepairSteps
<1>2. PICK t \in numbered : s = IF t \in rows THEN t ELSE [t EXCEPT !.wanted = t.id]
  BY DEF AsAsked
<1>3. SameKey(t, s) /\ s.id = t.id
  BY <1>1, <1>2 DEF Rows, SameKey
<1>4. Numbered(s.id) => s \in rows
  BY <1>1, <1>2, <1>3 DEF Settled
<1>5. /\ Carries(SuffixMove(merged, foreign), numbered)
      /\ DOMAIN SuffixMove(merged, foreign) = merged
      /\ \A m \in merged : LET x == SuffixMove(merged, foreign)[m]
                          IN \/ x = m
                             \/ /\ m \in SuffixPlan(merged, foreign)
                                /\ Numbered(m.id) /\ x.id = Base(m.id)
  BY <1>1, SuffixMoves DEF Renumbered
<1>6. PICK m \in merged : t = SuffixMove(merged, foreign)[m] /\ SameKey(m, t)
  BY <1>5, CarriedFrom
<1>7. /\ Carries(MergeMove(named, CurrentUids), merged)
      /\ DOMAIN MergeMove(named, CurrentUids) = named \ MergedAway(named, CurrentUids)
      /\ \A q \in named \ MergedAway(named, CurrentUids) :
           LET x == MergeMove(named, CurrentUids)[q]
           IN x = q \/ (Numbered(q.id) /\ q.uid \in CurrentUids /\ x.id = Base(q.id))
  BY <1>1, MergeMoves DEF MergedRows
<1>8. PICK q \in named \ MergedAway(named, CurrentUids) :
        m = MergeMove(named, CurrentUids)[q] /\ SameKey(q, m)
  BY <1>7, CarriedFrom
<1>9. /\ Carries(LegacyMove(rows, devices, winners), named)
      /\ DOMAIN LegacyMove(rows, devices, winners) = rows
  BY LegacyMoves DEF SInv, EInv, Named, LegacyMove
<1>10. PICK r \in rows : q = LegacyMove(rows, devices, winners)[r] /\ SameKey(r, q)
  BY <1>8, <1>9, CarriedFrom
<1> HIDE DEF named, merged, numbered
<1>11. SameKey(r, m) /\ SameKey(r, t)
  BY <1>6, <1>8, <1>10, SameKeyFollows
<1>12. SameKey(r, s)
  BY <1>3, <1>11, SameKeyFollows
<1>13. m = q \/ (Numbered(q.id) /\ q.uid \in CurrentUids /\ m.id = Base(q.id))
  BY <1>7, <1>8
<1>14. \/ s.id = m.id
       \/ m \in SuffixPlan(merged, foreign) /\ Numbered(m.id) /\ s.id = Base(m.id)
  BY <1>3, <1>5, <1>6
<1> QED
  BY <1>4, <1>6, <1>8, <1>10, <1>11, <1>12, <1>13, <1>14 DEF named, merged, numbered

\* A row that has a number after a repair: the repair has not moved it.
LEMMA NumberedUnmoved ==
  ASSUME NamesUnnumbered, SInv, NEW winners \in LegacyWinners(rows, devices, foreign),
         NEW s \in AsAsked(Renumbered(winners)), Numbered(s.id)
  PROVE  s \in rows /\ s \in Named(winners) /\ s \in MergedRows(winners)
<1>1. PICK r \in rows, q \in Named(winners) \ MergedAway(Named(winners), CurrentUids),
           m \in MergedRows(winners) :
        /\ m = q \/ (Numbered(q.id) /\ q.uid \in CurrentUids /\ m.id = Base(q.id))
        /\ s.id = m.id \/ (Numbered(m.id) /\ s.id = Base(m.id))
        /\ Numbered(s.id) => s \in rows
  BY Traced
<1>2. Settled(Named(winners)) /\ Settled(MergedRows(winners)) /\ AllServed(rows)
  BY RepairSteps DEF SInv
<1>3. s.id = m.id
  BY <1>1, <1>2, NumberedSettled
<1>4. m = q
  BY <1>1, <1>2, <1>3, NumberedSettled
<1>5. q \in rows /\ q.id = s.id
  BY <1>2, <1>3, <1>4, NumberedSettled
<1>6. UniqueIds(rows)
  BY DEF SInv, EInv, Registries, Proper
<1>7. q = s
  BY <1>1, <1>5, <1>6 DEF UniqueIds
<1> QED
  BY <1>1, <1>4, <1>7

\* The row of an absent VPN that had no number: it had its ID when the merge passed it.
LEMMA OrphanUnmerged ==
  ASSUME NamesUnnumbered, SInv, NEW winners \in LegacyWinners(rows, devices, foreign),
         NEW o \in WithoutShadows(rows), ~Numbered(o.id), o.uid \notin CurrentUids,
         NEW p \in AsAsked(Renumbered(winners)), SameKey(o, p)
  PROVE  \E q \in Named(winners) \ MergedAway(Named(winners), CurrentUids) :
           SameKey(o, q) /\ q.id = p.id
<1>1. PICK r \in rows, q \in Named(winners) \ MergedAway(Named(winners), CurrentUids),
           m \in MergedRows(winners) :
        /\ SameKey(r, q) /\ SameKey(r, m) /\ SameKey(r, p)
        /\ m = q \/ (Numbered(q.id) /\ q.uid \in CurrentUids /\ m.id = Base(q.id))
        /\ p.id = m.id \/ (Numbered(m.id) /\ p.id = Base(m.id))
  BY Traced
<1>2. SameKey(o, q) /\ SameKey(o, m)
  BY <1>1 DEF SameKey
<1>3. UniqueKeys(WithoutShadows(rows))
  BY DEF SInv, EInv, Registries, Keyed
<1>4. ASSUME Numbered(m.id) PROVE FALSE
  <2>1. m \in rows
    BY <1>4, RepairSteps, NumberedSettled DEF SInv
  <2>2. m = o
    BY <1>2, <1>3, <2>1 DEF UniqueKeys, SameKey, WithoutShadows
  <2> QED
    BY <1>4, <2>2
<1>5. m = q
  BY <1>1, <1>2 DEF SameKey
<1> QED
  BY <1>1, <1>2, <1>4, <1>5

\* Where no name ends in a number, a repair of a loaded entry leaves no live row
\* numbered beside the orphan it was beside ("Orphan base entity + live _2 pairs are
\* merged on setup and via Options/Service repair", v1.2.4b4).
THEOREM RepairMergesHolds == ASSUME NamesUnnumbered PROVE Spec => RepairMerges
<1>1. ASSUME SInv, [Next]_vars PROVE [Repair /\ loaded => PairsMerged]_vars
  <2> SUFFICES ASSUME Repair, loaded,
                      NEW r \in WithoutShadows(rows), NEW o \in WithoutShadows(rows),
                      NEW s \in rows', NEW p \in rows',
                      Beside(r, o), SameKey(r, s), SameKey(o, p), Beside(s, p)
               PROVE  FALSE
    BY DEF PairsMerged
  <2>1. PICK winners \in LegacyWinners(rows, devices, foreign) :
          rows' = AsAsked(Renumbered(winners))
    BY RepairedRows
  <2> DEFINE named == Named(winners)
  <2>2. /\ r.uid \in CurrentUids /\ o.uid \notin CurrentUids
        /\ Numbered(r.id) /\ Base(r.id) = o.id
        /\ Numbered(s.id) /\ Base(s.id) = p.id
    BY DEF Beside, CurrentUids
  <2>3. ~Numbered(o.id)
    BY <1>1, <2>2 DEF SInv, AllServed, Served, WithoutShadows
  <2>4. s \in rows /\ s \in named
    BY <1>1, <2>1, <2>2, NumberedUnmoved
  <2>5. PICK q \in named \ MergedAway(named, CurrentUids) : q.id = p.id /\ SameKey(o, q)
    BY <1>1, <2>1, <2>2, <2>3, OrphanUnmerged
  <2> HIDE DEF named
  <2>6. s \in Mergeable(named, CurrentUids, q.id)
    BY <2>2, <2>4, <2>5 DEF Mergeable, NumberedOn, WithoutShadows, SameKey
  <2>7. q \in MergedAway(named, CurrentUids)
    BY <2>2, <2>5, <2>6 DEF MergedAway, OrphanBases, WithoutShadows, SameKey
  <2> QED
    BY <2>5, <2>7
<1>2. Spec => []SInv
  BY SInvHolds
<1> QED
  BY <1>1, <1>2, PTL DEF Spec, RepairMerges

-----------------------------------------------------------------------------
(* The end of repairs                                                      *)

Places == Cardinality(Platform) * Cardinality(Uid)

\* Entities whose ID is not the one of their name: each repair that moves some of
\* them to it leaves fewer.
Misplaced(rws, devs) ==
  {key \in Platform \X Uid : \E r \in rws :
     /\ r.platform = key[1] /\ r.uid = key[2]
     /\ HasExpected(r, devs) /\ r.id # ExpectedOf(r, devs)}

\* Since the first repair no base of a number is free, unless another integration has it,
\* and repairs by name may go on as long as some are misplaced.  Once there is none to
\* make, there never will be, and what is left is one merge.
RInv ==
  /\ repairs \in Nat
  /\ version = 1 => repairs = 0
  /\ repairs > 0 =>
       /\ SuffixPlan(rows, foreign) = {}
       /\ \/ repairs + Cardinality(Misplaced(rows, devices)) <= Places
          \/ /\ LegacyPlan(rows, devices, foreign) = {}
             /\ \/ repairs = 1
                \/ repairs <= Places + 1 /\ MergedOnto(rows, Listed(data)) = {}

LEMMA PlacesFinite ==
  ASSUME IsFiniteSet(Uid)
  PROVE  /\ IsFiniteSet(Platform \X Uid) /\ Places \in Nat
         /\ Cardinality(Platform \X Uid) = Places
<1>1. IsFiniteSet({}) /\ \A x : IsFiniteSet({x})
  BY FS_EmptySet, FS_Singleton
<1>2. IsFiniteSet({"switch", "connected", "status", "uid", "vpn_uid"})
  <2>1. IsFiniteSet({"switch"} \union {"connected"})
    BY <1>1, FS_AddElement
  <2>2. IsFiniteSet(({"switch"} \union {"connected"}) \union {"status"})
    BY <2>1, FS_AddElement
  <2>3. IsFiniteSet((({"switch"} \union {"connected"}) \union {"status"}) \union {"uid"})
    BY <2>2, FS_AddElement
  <2>4. IsFiniteSet(((({"switch"} \union {"connected"}) \union {"status"}) \union {"uid"})
                     \union {"vpn_uid"})
    BY <2>3, FS_AddElement
  <2>5. ((({"switch"} \union {"connected"}) \union {"status"}) \union {"uid"}) \union {"vpn_uid"}
          = {"switch", "connected", "status", "uid", "vpn_uid"}
    OBVIOUS
  <2> QED
    BY <2>4, <2>5
<1>3. DOMAIN Suffix = {"switch", "connected", "status", "uid", "vpn_uid"}
  BY DEF Suffix
<1>4. Platform \in SUBSET {"switch", "connected", "status", "uid", "vpn_uid"}
  BY <1>3, IdsAssumption
<1>5. IsFiniteSet(Platform)
  BY <1>2, <1>4, FS_Subset
<1>6. Cardinality(Platform) \in Nat /\ Cardinality(Uid) \in Nat
  BY <1>5, FS_CardinalityType
<1>7. IsFiniteSet(Platform \X Uid) /\ Cardinality(Platform \X Uid) = Places
  BY <1>5, FS_Product DEF Places
<1> QED
  BY <1>6, <1>7 DEF Places

\* An ID without a number stays in use through a repair: its row keeps it, or an orphan
\* leaves it to the row that replaces it.
LEMMA IdsMerged ==
  ASSUME NEW rws \in SUBSET Rows, NEW current, NEW id \in Ids(rws), ~Numbered(id)
  PROVE  id \in Ids(Merged(rws, current))
<1>1. PICK x \in rws : x.id = id
  BY DEF Ids
<1>2. /\ Carries(MergeMove(rws, current), Merged(rws, current))
      /\ DOMAIN MergeMove(rws, current) = rws \ MergedAway(rws, current)
      /\ \A r \in rws \ MergedAway(rws, current) :
           LET s == MergeMove(rws, current)[r]
           IN s = r \/ (Numbered(r.id) /\ r.uid \in current /\ s.id = Base(r.id))
  BY MergeMoves
<1>3. CASE x \notin MergedAway(rws, current)
  <2>1. MergeMove(rws, current)[x] = x
    BY <1>1, <1>2, <1>3
  <2> QED
    BY <1>1, <1>2, <1>3, <2>1 DEF Carries, Ids
<1>4. CASE x \in MergedAway(rws, current)
  <2> DEFINE r == LowestNumber(Mergeable(rws, current, x.id))
  <2>1. Mergeable(rws, current, x.id) # {}
    BY <1>4 DEF MergedAway
  <2>2. \A s \in Mergeable(rws, current, x.id) : Numbered(s.id)
    BY DEF Mergeable, NumberedOn
  <2>3. r \in Mergeable(rws, current, x.id)
    BY <2>1, <2>2, LowestNumberExists
  <2>4. r \in MergedOnto(rws, current)
    BY <1>4 DEF MergedOnto
  <2> HIDE DEF r
  <2>5. r \in rws /\ Numbered(r.id) /\ Base(r.id) = x.id /\ r.uid \in current
    BY <2>3 DEF Mergeable, NumberedOn
  <2>6. r \in rws \ MergedAway(rws, current)
    BY <2>5 DEF MergedAway, OrphanBases
  <2>7. MergeMove(rws, current)[r] = [r EXCEPT !.id = Base(r.id)]
    BY <2>4, <2>6 DEF MergeMove
  <2>8. r \in Rows /\ x.id \in Seq(Word)
    BY <1>1, <2>5 DEF Rows
  <2>9. MergeMove(rws, current)[r].id = x.id
    BY <2>5, <2>7, <2>8, MovedRow
  <2> QED
    BY <1>1, <1>2, <2>6, <2>9 DEF Carries, Ids
<1> QED
  BY <1>3, <1>4

LEMMA IdsRenumbered ==
  ASSUME NEW rws \in SUBSET Rows, NEW others, NEW id \in Ids(rws), ~Numbered(id)
  PROVE  id \in Ids(SuffixRepaired(rws, others))
<1>1. PICK x \in rws : x.id = id
  BY DEF Ids
<1>2. /\ Carries(SuffixMove(rws, others), SuffixRepaired(rws, others))
      /\ DOMAIN SuffixMove(rws, others) = rws
      /\ SuffixMove(rws, others)[x] = x
  BY <1>1, SuffixMoves
<1> QED
  BY <1>1, <1>2 DEF Carries, Ids

LEMMA IdsAsked ==
  ASSUME NEW rws \in SUBSET Rows
  PROVE  Ids(AsAsked(rws)) = Ids(rws)
<1> DEFINE asked(r) == IF r \in rows THEN r ELSE [r EXCEPT !.wanted = r.id]
<1>1. \A r \in rws : asked(r).id = r.id
  BY DEF Rows
<1>2. AsAsked(rws) = {asked(r) : r \in rws}
  BY DEF AsAsked
<1> HIDE DEF asked
<1> QED
  BY <1>1, <1>2 DEF Ids

LEMMA IdsStay ==
  ASSUME NamesUnnumbered, SInv, NEW winners \in LegacyWinners(rows, devices, foreign),
         NEW id, ~Numbered(id)
  PROVE  /\ id \in Ids(Named(winners)) => id \in Ids(MergedRows(winners))
         /\ id \in Ids(MergedRows(winners)) => id \in Ids(AsAsked(Renumbered(winners)))
<1>1. /\ Named(winners) \in SUBSET Rows /\ MergedRows(winners) \in SUBSET Rows
      /\ Renumbered(winners) \in SUBSET Rows
  BY RepairSteps
<1>2. id \in Ids(Named(winners)) => id \in Ids(MergedRows(winners))
  BY <1>1, IdsMerged DEF MergedRows
<1>3. id \in Ids(MergedRows(winners)) => id \in Ids(Renumbered(winners))
  BY <1>1, IdsRenumbered DEF Renumbered
<1> QED
  BY <1>1, <1>2, <1>3, IdsAsked

\* Whose base is free, is in the plan, or another row with the same base.
LEMMA FreeBaseMoves ==
  ASSUME NEW rws \in SUBSET Rows, NEW others, NEW s \in rws, Numbered(s.id),
         Base(s.id) \notin Ids(rws), Base(s.id) \notin others
  PROVE  /\ SuffixPlan(rws, others) # {}
         /\ Base(s.id) \in Ids(SuffixRepaired(rws, others))
<1> DEFINE b == Base(s.id)
           r == LowestNumber(NumberedOn(rws, b))
<1>1. b \in Bases(rws) \ (Ids(rws) \union others)
  BY DEF Bases
<1>2. s \in NumberedOn(rws, b) /\ \A t \in NumberedOn(rws, b) : Numbered(t.id)
  BY DEF NumberedOn
<1>3. r \in NumberedOn(rws, b)
  BY <1>2, LowestNumberExists
<1>4. r \in SuffixPlan(rws, others)
  BY <1>1 DEF SuffixPlan
<1> HIDE DEF r
<1>5. r \in rws /\ Base(r.id) = b /\ Numbered(r.id)
  BY <1>3 DEF NumberedOn
<1>6. SuffixMove(rws, others)[r] = [r EXCEPT !.id = Base(r.id)]
  BY <1>4, <1>5 DEF SuffixMove
<1>7. r \in Rows /\ Base(r.id) \in Seq(Word)
  BY <1>5, BaseType DEF Rows
<1>8. SuffixMove(rws, others)[r].id = b
  BY <1>5, <1>6, <1>7, MovedRow
<1>9. /\ Carries(SuffixMove(rws, others), SuffixRepaired(rws, others))
      /\ DOMAIN SuffixMove(rws, others) = rws
  BY SuffixMoves
<1> QED
  BY <1>4, <1>5, <1>8, <1>9 DEF Carries, Ids

LEMMA BasesTaken ==
  ASSUME NamesUnnumbered, SInv, NEW winners \in LegacyWinners(rows, devices, foreign)
  PROVE  SuffixPlan(AsAsked(Renumbered(winners)), foreign) = {}
<1> DEFINE after == AsAsked(Renumbered(winners))
<1> SUFFICES ASSUME NEW x \in SuffixPlan(after, foreign) PROVE FALSE
  OBVIOUS
<1>1. Base(x.id) \in Bases(after) /\ Base(x.id) \notin Ids(after) /\ Base(x.id) \notin foreign
  BY SuffixPlanFacts
<1>2. PICK s \in after : Numbered(s.id) /\ Base(s.id) = Base(x.id)
  BY <1>1 DEF Bases
<1>3. s \in rows /\ s \in MergedRows(winners)
  BY <1>2, NumberedUnmoved
<1>4. ~Numbered(Base(s.id))
  BY <1>2, <1>3 DEF SInv, AllServed, Served
<1>5. MergedRows(winners) \in SUBSET Rows /\ Renumbered(winners) \in SUBSET Rows
  BY RepairSteps
<1>6. Base(s.id) \notin Ids(MergedRows(winners))
  BY <1>1, <1>2, <1>4, IdsStay
<1>7. Base(s.id) \in Ids(Renumbered(winners))
  BY <1>1, <1>2, <1>3, <1>5, <1>6, FreeBaseMoves DEF Renumbered
<1> QED
  BY <1>1, <1>2, <1>5, <1>7, IdsAsked

\* A row that has an expected ID after the repair had the same one before.
LEMMA SameExpected ==
  ASSUME NamesUnnumbered, SInv, NEW winners \in LegacyWinners(rows, devices, foreign),
         NEW s \in AsAsked(Renumbered(winners)), HasExpected(s, DevicesLeft(winners)),
         NEW r \in rows, SameKey(r, s)
  PROVE  /\ HasExpected(r, devices) /\ ExpectedOf(r, devices) = ExpectedOf(s, DevicesLeft(winners))
         /\ ~Numbered(ExpectedOf(r, devices))
<1>1. Registries(rows, devices)
  BY DEF SInv, EInv
<1>2. r.platform = s.platform /\ r.uid = s.uid /\ r.platform # Broken
  BY DEF SameKey, HasExpected
<1>3. r.uid \in Uid /\ DOMAIN devices = Uid
  BY <1>1, <1>2 DEF Registries, Keyed, Devices, WithoutShadows
<1>4. DevicesLeft(winners)[r.uid] # NoDevice
  BY <1>2 DEF HasExpected
<1>5. DevicesLeft(winners)[r.uid] = devices[r.uid]
  BY <1>3, <1>4 DEF DevicesAfterMerge, DevicesLeft
<1>6. HasExpected(r, devices)
  BY <1>2, <1>4, <1>5 DEF HasExpected
<1>7. ExpectedOf(r, devices) = ExpectedOf(s, DevicesLeft(winners))
  BY <1>2, <1>5 DEF ExpectedOf
<1> QED
  BY <1>1, <1>6, <1>7, ExpectedUnnumbered

\* No repair by name takes an entity off its ID or makes room for another one when none
\* can move.
LEMMA StaysStuck ==
  ASSUME NamesUnnumbered, SInv, NEW winners \in LegacyWinners(rows, devices, foreign),
         LegacyPlan(rows, devices, foreign) = {}
  PROVE  /\ Named(winners) = rows
         /\ LegacyPlan(AsAsked(Renumbered(winners)), DevicesLeft(winners), foreign) = {}
<1>1. winners = {}
  BY DEF LegacyWinners
<1>2. Named(winners) = rows
  BY <1>1 DEF Named, LegacyRepaired
<1>3. ASSUME NEW s \in LegacyPlan(AsAsked(Renumbered(winners)), DevicesLeft(winners), foreign)
      PROVE  FALSE
  <2>1. /\ s \in AsAsked(Renumbered(winners)) /\ HasExpected(s, DevicesLeft(winners))
        /\ ExpectedOf(s, DevicesLeft(winners)) \notin Ids(AsAsked(Renumbered(winners)))
        /\ ExpectedOf(s, DevicesLeft(winners)) \notin foreign
    BY <1>3 DEF LegacyPlan
  <2>2. PICK r \in rows : SameKey(r, s)
    BY <2>1, Traced
  <2>3. /\ HasExpected(r, devices) /\ ExpectedOf(r, devices) = ExpectedOf(s, DevicesLeft(winners))
        /\ ~Numbered(ExpectedOf(r, devices))
    BY <2>1, <2>2, SameExpected
  <2>4. ExpectedOf(r, devices) \in Ids(rows)
    BY <2>1, <2>3 DEF LegacyPlan
  <2> QED
    BY <1>2, <2>1, <2>3, <2>4, IdsStay
<1> QED
  BY <1>2, <1>3

\* An entity that is not on its ID after a repair was not before.
LEMMA MisplacedBefore ==
  ASSUME NamesUnnumbered, SInv, NEW winners \in LegacyWinners(rows, devices, foreign),
         NEW s \in AsAsked(Renumbered(winners)), HasExpected(s, DevicesLeft(winners)),
         s.id # ExpectedOf(s, DevicesLeft(winners))
  PROVE  \E r \in rows : /\ SameKey(r, s) /\ HasExpected(r, devices)
                         /\ r.id # ExpectedOf(r, devices) /\ r \notin winners
<1>1. PICK r \in rows, q \in Named(winners) \ MergedAway(Named(winners), CurrentUids),
           m \in MergedRows(winners) :
        /\ SameKey(r, s)
        /\ q = LegacyMove(rows, devices, winners)[r]
        /\ m = q \/ (Numbered(q.id) /\ q.uid \in CurrentUids /\ m.id = Base(q.id))
        /\ \/ s.id = m.id
           \/ /\ m \in SuffixPlan(MergedRows(winners), foreign)
              /\ Numbered(m.id) /\ s.id = Base(m.id)
  BY Traced
<1>2. /\ HasExpected(r, devices) /\ ExpectedOf(r, devices) = ExpectedOf(s, DevicesLeft(winners))
      /\ ~Numbered(ExpectedOf(r, devices))
  BY <1>1, SameExpected
<1>3. q.id # ExpectedOf(r, devices)
  BY <1>1, <1>2
<1>4. Registries(rows, devices)
  BY DEF SInv, EInv
<1>5. r \in winners => q.id = ExpectedOf(r, devices)
  <2>1. r \in Rows /\ ExpectedOf(r, devices) \in Seq(Word)
    BY <1>2, <1>4, ExpectedIds DEF Registries, Keyed
  <2> QED
    BY <1>1, <2>1, MovedRow DEF LegacyMove
<1>6. r \notin winners => q = r
  BY <1>1 DEF LegacyMove
<1> QED
  BY <1>1, <1>2, <1>3, <1>5, <1>6

LEMMA FewerMisplaced ==
  ASSUME NamesUnnumbered, SInv, NEW winners \in LegacyWinners(rows, devices, foreign)
  PROVE  LET after == Misplaced(AsAsked(Renumbered(winners)), DevicesLeft(winners))
         IN /\ after \subseteq Misplaced(rows, devices)
            /\ winners # {} => after # Misplaced(rows, devices)
<1> DEFINE after == Misplaced(AsAsked(Renumbered(winners)), DevicesLeft(winners))
<1>1. ASSUME NEW key \in after
      PROVE  /\ key \in Platform \X Uid
             /\ \E r \in rows : /\ r.platform = key[1] /\ r.uid = key[2]
                                /\ HasExpected(r, devices) /\ r.id # ExpectedOf(r, devices)
                                /\ r \notin winners
  <2>1. PICK s \in AsAsked(Renumbered(winners)) :
          /\ s.platform = key[1] /\ s.uid = key[2]
          /\ HasExpected(s, DevicesLeft(winners)) /\ s.id # ExpectedOf(s, DevicesLeft(winners))
    BY DEF Misplaced
  <2>2. PICK r \in rows : /\ SameKey(r, s) /\ HasExpected(r, devices)
                          /\ r.id # ExpectedOf(r, devices) /\ r \notin winners
    BY <2>1, MisplacedBefore
  <2> QED
    BY <2>1, <2>2 DEF SameKey, Misplaced
<1>2. ASSUME NEW w \in winners
      PROVE  /\ <<w.platform, w.uid>> \in Misplaced(rows, devices)
             /\ <<w.platform, w.uid>> \notin after
  <2>1. w \in rows /\ HasExpected(w, devices) /\ ExpectedOf(w, devices) \notin Ids(rows)
    BY DEF LegacyWinners, LegacyPlan
  <2>2. w.id # ExpectedOf(w, devices)
    BY <2>1 DEF Ids
  <2>3. w \in WithoutShadows(rows)
    BY <2>1 DEF WithoutShadows, HasExpected
  <2>4. w.platform \in Platform /\ w.uid \in Uid /\ UniqueKeys(WithoutShadows(rows))
    BY <2>3 DEF SInv, EInv, Registries, Keyed
  <2>5. <<w.platform, w.uid>> \in Misplaced(rows, devices)
    BY <2>1, <2>2, <2>4 DEF Misplaced
  <2>6. ASSUME <<w.platform, w.uid>> \in after PROVE FALSE
    <3>1. PICK r \in rows : /\ r.platform = w.platform /\ r.uid = w.uid
                            /\ HasExpected(r, devices) /\ r \notin winners
      BY <1>1, <2>6
    <3>2. r \in WithoutShadows(rows)
      BY <3>1 DEF WithoutShadows, HasExpected
    <3> QED
      BY <2>3, <2>4, <3>1, <3>2 DEF UniqueKeys
  <2> QED
    BY <2>5, <2>6
<1>3. after \subseteq Misplaced(rows, devices)
  BY <1>1 DEF Misplaced
<1> QED
  BY <1>2, <1>3

\* While no base is free and no repair by name can be made, a merge leaves no base free.
LEMMA BasesStayTaken ==
  ASSUME NamesUnnumbered, SInv, NEW winners \in LegacyWinners(rows, devices, foreign),
         Named(winners) = rows, SuffixPlan(rows, foreign) = {}
  PROVE  SuffixPlan(MergedRows(winners), foreign) = {}
<1> SUFFICES ASSUME NEW x \in SuffixPlan(MergedRows(winners), foreign) PROVE FALSE
  OBVIOUS
<1>1. /\ Base(x.id) \in Bases(MergedRows(winners))
      /\ Base(x.id) \notin Ids(MergedRows(winners)) /\ Base(x.id) \notin foreign
  BY SuffixPlanFacts
<1>2. PICK m \in MergedRows(winners) : Numbered(m.id) /\ Base(m.id) = Base(x.id)
  BY <1>1 DEF Bases
<1>3. Settled(MergedRows(winners)) /\ AllServed(rows) /\ rows \in SUBSET Rows
  BY RepairSteps DEF SInv
<1>4. m \in rows /\ ~Numbered(Base(m.id))
  BY <1>2, <1>3, NumberedSettled
<1>5. Base(m.id) \in Ids(rows)
  BY <1>1, <1>2, <1>3, <1>4, FreeBaseMoves
<1> QED
  BY <1>1, <1>2, <1>4, <1>5, IdsStay

\* Then nothing is left to merge.
LEMMA MergedOnce ==
  ASSUME NamesUnnumbered, SInv, NEW winners \in LegacyWinners(rows, devices, foreign),
         Named(winners) = rows, SuffixPlan(rows, foreign) = {}, loaded
  PROVE  MergedOnto(AsAsked(Renumbered(winners)), Listed(data)) = {}
<1> DEFINE after == AsAsked(Renumbered(winners))
<1> SUFFICES ASSUME NEW y \in MergedOnto(after, Listed(data)) PROVE FALSE
  OBVIOUS
<1>1. CurrentUids = Listed(data)
  BY DEF CurrentUids
<1>2. PICK o \in MergedAway(after, Listed(data)) : TRUE
  BY DEF MergedOnto
<1>3. o \in after /\ o.platform # Broken /\ o.uid \notin Listed(data)
  BY <1>2 DEF MergedAway, OrphanBases
<1>4. PICK s \in Mergeable(after, Listed(data), o.id) : TRUE
  BY <1>2 DEF MergedAway
<1>5. /\ s \in after /\ Numbered(s.id) /\ Base(s.id) = o.id
      /\ s.platform # Broken /\ s.uid \in Listed(data)
  BY <1>4 DEF Mergeable, NumberedOn
<1>6. s \in rows
  BY <1>5, NumberedUnmoved
<1>7. PICK r \in rows, q \in Named(winners) \ MergedAway(Named(winners), CurrentUids),
           m \in MergedRows(winners) :
        /\ SameKey(r, q) /\ SameKey(r, m) /\ SameKey(r, o)
        /\ m = q \/ (Numbered(q.id) /\ q.uid \in CurrentUids /\ m.id = Base(q.id))
        /\ \/ o.id = m.id
           \/ /\ m \in SuffixPlan(MergedRows(winners), foreign)
              /\ Numbered(m.id) /\ o.id = Base(m.id)
  BY <1>3, Traced
<1>8. o.id = m.id
  BY <1>7, BasesStayTaken
<1>9. q.platform # Broken /\ q.uid \notin Listed(data)
  BY <1>3, <1>7 DEF SameKey
<1>10. q.id = o.id
  BY <1>1, <1>7, <1>8, <1>9
<1>11. s \in Mergeable(rows, CurrentUids, q.id)
  BY <1>1, <1>5, <1>6, <1>10 DEF Mergeable, NumberedOn
<1>12. q \in rows /\ q \notin MergedAway(rows, CurrentUids)
  BY <1>7
<1> QED
  BY <1>1, <1>9, <1>11, <1>12 DEF MergedAway, OrphanBases

LEMMA MisplacedCount ==
  ASSUME IsFiniteSet(Uid), NEW rws, NEW devs
  PROVE  /\ IsFiniteSet(Misplaced(rws, devs)) /\ Cardinality(Misplaced(rws, devs)) \in Nat
         /\ Cardinality(Misplaced(rws, devs)) <= Places
<1>1. Misplaced(rws, devs) \in SUBSET (Platform \X Uid)
  BY DEF Misplaced
<1> QED
  BY <1>1, PlacesFinite, FS_Subset, FS_CardinalityType

LEMMA RepairCounts ==
  ASSUME NamesUnnumbered, IsFiniteSet(Uid), SInv, RInv, Repair
  PROVE  RInv'
<1>1. PICK winners \in LegacyWinners(rows, devices, foreign) :
        /\ rows' = AsAsked(Renumbered(winners))
        /\ devices' = DevicesLeft(winners)
        /\ winners \union MergedOnto(Named(winners), CurrentUids)
             \union SuffixPlan(MergedRows(winners), foreign) # {}
  BY RepairedRows
<1>2. /\ repairs' = repairs + 1 /\ version' # 1
      /\ foreign' = foreign /\ data' = data /\ repairs \in Nat
  BY DEF Repair, Reloading, RInv
<1>3. SuffixPlan(rows', foreign) = {}
  BY <1>1, BasesTaken
<1> DEFINE before == Misplaced(rows, devices)
           after == Misplaced(rows', devices')
<1>4. /\ IsFiniteSet(before) /\ Cardinality(before) \in Nat /\ Cardinality(before) <= Places
      /\ Cardinality(after) \in Nat /\ Places \in Nat
  BY MisplacedCount, PlacesFinite
<1>5. CASE winners # {}
  <2>1. after \in SUBSET before /\ after # before
    BY <1>1, <1>5, FewerMisplaced
  <2> HIDE DEF before, after
  <2>2. Cardinality(after) <= Cardinality(before) /\ Cardinality(before) # Cardinality(after)
    BY <1>4, <2>1, FS_Subset
  <2>3. Cardinality(after) + 1 <= Cardinality(before)
    BY <1>4, <2>2
  <2>4. LegacyPlan(rows, devices, foreign) # {}
    BY <1>5 DEF LegacyWinners
  <2>5. repairs = 0 \/ repairs + Cardinality(before) <= Places
    BY <1>2, <2>4 DEF RInv, before
  <2>6. repairs' + Cardinality(after) <= Places
    BY <1>2, <1>4, <2>3, <2>5
  <2> QED
    BY <1>2, <1>3, <2>6 DEF RInv, Misplaced, after, Places
<1>6. CASE winners = {}
  <2>1. LegacyPlan(rows, devices, foreign) = {}
    BY <1>6 DEF LegacyWinners
  <2>2. Named(winners) = rows /\ LegacyPlan(rows', devices', foreign) = {}
    BY <1>1, <2>1, StaysStuck
  <2>3. CASE repairs = 0
    BY <1>2, <1>3, <2>2, <2>3 DEF RInv
  <2>4. CASE repairs > 0
    <3>1. SuffixPlan(MergedRows(winners), foreign) = {}
      BY <2>2, <2>4, BasesStayTaken DEF RInv
    <3>2. MergedOnto(rows, CurrentUids) # {}
      BY <1>1, <1>6, <2>2, <3>1
    <3>3. loaded /\ CurrentUids = Listed(data)
      BY <3>2, NothingMerged DEF CurrentUids
    <3>4. MergedOnto(rows', Listed(data)) = {}
      BY <1>1, <2>2, <2>4, <3>3, MergedOnce DEF RInv
    <3>5. repairs = 1 \/ repairs + Cardinality(before) <= Places
      BY <2>4, <3>2, <3>3 DEF RInv
    <3>6. Places # 0
      <4>1. PICK o \in rows : o.platform # Broken
        BY <3>2 DEF MergedOnto, MergedAway, OrphanBases
      <4>2. <<o.platform, o.uid>> \in Platform \X Uid
        BY <4>1 DEF SInv, EInv, Registries, Keyed, WithoutShadows
      <4>3. Platform \X Uid # {}
        BY <4>2
      <4> QED
        BY <4>3, PlacesFinite, FS_EmptySet
    <3> HIDE DEF before, after
    <3>7. repairs' <= Places + 1
      BY <1>2, <1>4, <3>5, <3>6
    <3> QED
      BY <1>2, <1>3, <2>2, <3>4, <3>7 DEF RInv, Places
  <2> QED
    BY <1>2, <2>3, <2>4
<1> QED
  BY <1>5, <1>6

LEMMA RInvNext ==
  ASSUME NamesUnnumbered, IsFiniteSet(Uid)
  PROVE  SInv /\ RInv /\ [Next]_vars => RInv'
<1> SUFFICES ASSUME SInv, RInv, [Next]_vars PROVE RInv'
  OBVIOUS
<1>1. CASE repairs' = 0 /\ version' = version
  BY <1>1 DEF RInv
<1>2. CASE /\ rows' = rows /\ devices' = devices /\ foreign' = foreign /\ data' = data
           /\ version' = version /\ repairs' = repairs
  BY <1>2 DEF RInv, Misplaced, Places, Listed
<1>3. CASE Migrate
  BY <1>3 DEF Migrate, RInv
<1>4. CASE Setup
  BY <1>1, <1>2, <1>4 DEF Setup
<1>5. CASE Unload
  BY <1>2, <1>5 DEF Unload
<1>6. CASE Cleanup
  BY <1>1, <1>6 DEF Cleanup, Reloading
<1>7. CASE ListChanges \/ UserNamesDevice \/ UserNamesEntity
  BY <1>1, <1>7 DEF ListChanges, UserNamesDevice, UserNamesEntity, Changes
<1>8. CASE UNCHANGED vars
  BY <1>2, <1>8 DEF vars
<1> QED
  BY <1>3, <1>4, <1>5, <1>6, <1>7, <1>8, RepairCounts DEF Next

\* Where no name ends in a number, repairs come to an end: for any finite number of
\* UIDs and any platforms, at most one repair for each entity finds something to
\* rename by its name, and one something else.
THEOREM RepairsEndHolds == ASSUME NamesUnnumbered, IsFiniteSet(Uid) PROVE Spec => []RepairsEnd
<1>1. Init => RInv
  BY DEF Init, RInv
<1>2. SInv /\ RInv /\ [Next]_vars => RInv'
  BY RInvNext
<1>3. RInv => RepairsEnd
  <2> SUFFICES ASSUME RInv PROVE repairs <= Places + 1
    BY DEF RepairsEnd, Places
  <2>1. repairs \in Nat /\ Places \in Nat /\ Cardinality(Misplaced(rows, devices)) \in Nat
    BY MisplacedCount, PlacesFinite DEF RInv
  <2> QED
    BY <2>1 DEF RInv
<1>4. Spec => []SInv
  BY SInvHolds
<1> QED
  BY <1>1, <1>2, <1>3, <1>4, PTL DEF Spec
=============================================================================
