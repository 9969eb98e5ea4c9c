-------------------------- MODULE MCOperatorsProofs --------------------------
(***************************************************************************)
(* The pure functions do what they are compared with for every argument:   *)
(* any finite number of UIDs and names, and any number of VPNs listed.     *)
(***************************************************************************)
EXTENDS MCOperators, FiniteSetTheorems, TLAPS

-----------------------------------------------------------------------------
(* Names that leave no choice                                              *)

PairingsOf(old, new, names) ==
  {f \in [old -> new] :
     /\ \A u \in old : names[f[u]] = names[u]
     /\ \A u, v \in old : f[u] = f[v] => u = v
     /\ \A v \in new : \E u \in old : f[u] = v}

\* The pairings are finitely many: each is known by the pairs it makes.
LEMMA PairingsFinite ==
  ASSUME NEW old, NEW new, NEW names, IsFiniteSet(old), IsFiniteSet(new)
  PROVE  IsFiniteSet(PairingsOf(old, new, names))
<1> DEFINE pairs(f) == {<<u, f[u]>> : u \in old}
           code == [f \in PairingsOf(old, new, names) |-> pairs(f)]
<1>1. IsFiniteSet(SUBSET (old \X new))
  BY FS_Product, FS_SUBSET
<1>2. code \in [PairingsOf(old, new, names) -> SUBSET (old \X new)]
  BY DEF PairingsOf
<1>3. ASSUME NEW f \in PairingsOf(old, new, names), NEW g \in PairingsOf(old, new, names),
             code[f] = code[g]
      PROVE  f = g
  <2>1. pairs(f) = pairs(g)
    BY <1>3
  <2>2. ASSUME NEW u \in old
        PROVE  f[u] = g[u]
    <3>1. <<u, f[u]>> \in pairs(g)
      BY <2>1
    <3> QED
      BY <3>1
  <2> QED
    BY <2>2 DEF PairingsOf
<1> HIDE DEF code
<1>4. code \in Injection(PairingsOf(old, new, names), SUBSET (old \X new))
  BY <1>2, <1>3 DEF Injection, IsInjective
<1> QED
  BY <1>1, <1>4, FS_Injection

\* name_bijection_uid_remap returns the one pairing there is.
LEMMA AcceptedIsThePairing ==
  ASSUME NEW old, NEW new, NEW names, NEW payloads,
         \A v \in new : payloads[v] = names[v],
         RemapAccepted(old, new, names, payloads)
  PROVE  PairingsOf(old, new, names) = {NameRemap(old, new, names, payloads)}
<1> DEFINE f == NameRemap(old, new, names, payloads)
<1>1. ASSUME NEW u \in old
      PROVE  f[u] \in new /\ names[f[u]] = names[u]
  <2>1. \E v \in new : payloads[v] = names[u]
    BY DEF RemapAccepted
  <2>2. f[u] = CHOOSE v \in new : payloads[v] = names[u]
    BY DEF NameRemap
  <2> QED
    BY <2>1, <2>2
<1>2. f \in [old -> new]
  BY <1>1 DEF NameRemap
<1>3. ASSUME NEW v \in new
      PROVE  \E u \in old : f[u] = v
  <2>1. PICK u \in old : names[u] = payloads[v]
    BY DEF RemapAccepted
  <2>2. payloads[f[u]] = payloads[v] /\ f[u] \in new
    BY <1>1, <2>1
  <2> QED
    BY <2>2 DEF RemapAccepted, NamedApart
<1>4. f \in PairingsOf(old, new, names)
  BY <1>1, <1>2, <1>3 DEF PairingsOf, RemapAccepted, NamedApart
<1>5. ASSUME NEW g \in PairingsOf(old, new, names)
      PROVE  g = f
  <2>1. g \in [old -> new] /\ \A u \in old : names[g[u]] = names[u]
    BY DEF PairingsOf
  <2>2. ASSUME NEW u \in old
        PROVE  g[u] = f[u]
    BY <1>1, <2>1 DEF RemapAccepted, NamedApart
  <2> HIDE DEF f
  <2> QED
    BY <1>2, <2>1, <2>2
<1> HIDE DEF f
<1> QED
  BY <1>4, <1>5 DEF f

OnlyPairing(f, old, new, names) == PairingsOf(old, new, names) = {f}

\* If there is one pairing, everyone's name is its own: two UIDs of one name could
\* exchange their new ones for a second pairing.
LEMMA OnePairingTellsApart ==
  ASSUME NEW old, NEW new, NEW names, NEW f, OnlyPairing(f, old, new, names)
  PROVE  \A u, v \in old : names[u] = names[v] => u = v
<1> SUFFICES ASSUME NEW u \in old, NEW v \in old, names[u] = names[v], u # v PROVE FALSE
  OBVIOUS
<1> DEFINE Exchanged(w) == IF w = u THEN v ELSE IF w = v THEN u ELSE w
           g == [w \in old |-> f[Exchanged(w)]]
<1>0. f \in PairingsOf(old, new, names)
  BY DEF OnlyPairing
<1>1. \A w \in old : /\ Exchanged(w) \in old /\ Exchanged(Exchanged(w)) = w
                     /\ names[Exchanged(w)] = names[w]
  OBVIOUS
<1>2. Exchanged(u) = v
  OBVIOUS
<1> HIDE DEF Exchanged
<1>3. g \in [old -> new] /\ \A w \in old : names[g[w]] = names[w]
  BY <1>0, <1>1 DEF PairingsOf
<1>4. ASSUME NEW w \in old, NEW x \in old, g[w] = g[x]
      PROVE  w = x
  <2>1. Exchanged(w) = Exchanged(x)
    BY <1>0, <1>1, <1>4 DEF PairingsOf
  <2> QED
    BY <1>1, <2>1
<1>5. ASSUME NEW t \in new
      PROVE  \E w \in old : g[w] = t
  <2>1. PICK x \in old : f[x] = t
    BY <1>0 DEF PairingsOf
  <2>2. Exchanged(x) \in old /\ g[Exchanged(x)] = t
    BY <1>1, <2>1
  <2> QED
    BY <2>2
<1>6. g \in PairingsOf(old, new, names)
  BY <1>3, <1>4, <1>5 DEF PairingsOf
<1>7. g = f
  BY <1>6 DEF OnlyPairing
<1>8. f[v] = f[u]
  BY <1>2, <1>7
<1> QED
  BY <1>0, <1>8 DEF PairingsOf

LEMMA OnePairingIsAccepted ==
  ASSUME NEW old, NEW new, NEW names, NEW payloads, NEW f,
         \A v \in new : payloads[v] = names[v],
         old # {}, old \intersect new = {},
         \A u \in old \union new : names[u] \in Name,
         OnlyPairing(f, old, new, names)
  PROVE  RemapAccepted(old, new, names, payloads)
<1>1. /\ f \in [old -> new]
      /\ \A u \in old : names[f[u]] = names[u]
      /\ \A v \in new : \E u \in old : f[u] = v
  BY DEF PairingsOf, OnlyPairing
<1>2. \A u, v \in old : names[u] = names[v] => u = v
  BY OnePairingTellsApart
<1>3. \A x, y \in new : names[x] = names[y] => x = y
  BY <1>1, <1>2
<1>4. {names[u] : u \in old} = {payloads[v] : v \in new}
  BY <1>1
<1> QED
  BY <1>1, <1>2, <1>3, <1>4 DEF RemapAccepted, NamedApart

LEMMA RemapsIff ==
  ASSUME NEW old, NEW new, NEW names, NEW payloads,
         IsFiniteSet(old), IsFiniteSet(new), \A v \in new : payloads[v] = names[v]
  PROVE  RemapAccepted(old, new, names, payloads)
           <=> /\ old # {} /\ old \intersect new = {}
               /\ \A u \in old \union new : names[u] \in Name
               /\ Cardinality(PairingsOf(old, new, names)) = 1
<1>1. ASSUME RemapAccepted(old, new, names, payloads)
      PROVE  Cardinality(PairingsOf(old, new, names)) = 1
  BY <1>1, AcceptedIsThePairing, FS_Singleton
<1>2. ASSUME Cardinality(PairingsOf(old, new, names)) = 1
      PROVE  \E f : OnlyPairing(f, old, new, names)
  BY <1>2, PairingsFinite, FS_Singleton DEF OnlyPairing
<1>3. RemapAccepted(old, new, names, payloads) =>
        /\ old # {} /\ old \intersect new = {}
        /\ \A u \in old \union new : names[u] \in Name
  BY DEF RemapAccepted, NamedApart
<1> QED
  BY <1>1, <1>2, <1>3, OnePairingIsAccepted

-----------------------------------------------------------------------------
(* What a listing makes of a list                                          *)

\* Some order of a finite set, everything once
LEMMA OrderFacts ==
  ASSUME NEW S, IsFiniteSet(S)
  PROVE  /\ Cardinality(S) \in Nat
         /\ SetToSeq(S) \in [1..Cardinality(S) -> S]
         /\ \A i, j \in 1..Cardinality(S) : SetToSeq(S)[i] = SetToSeq(S)[j] => i = j
         /\ \A u \in S : \E i \in 1..Cardinality(S) : SetToSeq(S)[i] = u
<1> DEFINE n == Cardinality(S)
           order == SetToSeq(S)
<1>1. n \in Nat /\ ExistsBijection(1..n, S)
  BY FS_CardinalityType
<1>2. \E f \in [1..n -> S] : IsInjective(f)
  BY <1>1 DEF ExistsBijection, Bijection, Injection
<1>3. order \in [1..n -> S] /\ IsInjective(order)
  BY <1>2 DEF SetToSeq
<1>4. IsFiniteSet(1..n) /\ Cardinality(1..n) = n
  BY <1>1, FS_Interval
<1> HIDE DEF order
<1>5. order \in Surjection(1..n, S)
  BY <1>3, <1>4, FS_Injection DEF Injection
<1> QED
  BY <1>1, <1>3, <1>5 DEF Surjection, IsInjective, order

\* An item for every UID, at its place, and others without one
Itemised(S, items, keyed, at) ==
  /\ DOMAIN items \subseteq Nat /\ at \in [S -> DOMAIN items]
  /\ \A u \in S : items[at[u]].object /\ UidOf(items[at[u]], keyed) = {u}
  /\ \A i \in DOMAIN items :
       items[i].object => (\E u \in S : i = at[u]) \/ UidOf(items[i], keyed) = {}

LEMMA NormalizedIs ==
  ASSUME NEW S, NEW items, NEW keyed, NEW at, Itemised(S, items, keyed, at)
  PROVE  Normalized([keyed |-> keyed, items |-> items]) =
           [u \in S |-> [active |-> Active(items[at[u]]), connected |-> items[at[u]].connected]]
<1> DEFINE D == DOMAIN items
           named(u) == {i \in D : items[i].object /\ u \in UidOf(items[i], keyed)}
           uids == UNION {IF items[i].object THEN UidOf(items[i], keyed) ELSE {} : i \in D}
           entry(i) == [active |-> Active(items[i]), connected |-> items[i].connected]
<1> USE DEF Itemised
<1>1. Normalized([keyed |-> keyed, items |-> items]) = [u \in uids |-> entry(Max(named(u)))]
  BY DEF Normalized
<1>2. uids = S
  <2>1. ASSUME NEW u \in S PROVE u \in uids
    BY <2>1
  <2>2. ASSUME NEW u \in uids PROVE u \in S
    <3>1. PICK i \in D : items[i].object /\ u \in UidOf(items[i], keyed)
      BY <2>2
    <3>2. PICK v \in S : i = at[v]
      BY <3>1
    <3> QED
      BY <3>1, <3>2
  <2> HIDE DEF uids
  <2> QED
    BY <2>1, <2>2
<1>3. ASSUME NEW u \in S
      PROVE  Max(named(u)) = at[u]
  <2>1. ASSUME NEW i \in named(u) PROVE i = at[u]
    <3>1. PICK v \in S : i = at[v]
      BY <2>1
    <3> QED
      BY <2>1, <3>1
  <2>2. at[u] \in named(u) /\ at[u] \in Nat
    OBVIOUS
  <2>3. named(u) = {at[u]}
    BY <2>1, <2>2
  <2> HIDE DEF named
  <2> QED
    BY <2>2, <2>3 DEF Max
<1> HIDE DEF named, uids, entry, Itemised
<1> QED
  BY <1>1, <1>2, <1>3 DEF entry

\* How a box writes down one of its VPNs
Written(c, u) ==
  IF c.style.mode = "rest" THEN RestConnection(u, c.box[u], c.style)
  ELSE DataConnection(u, c.box[u], c.style)

LEMMA CallIs ==
  ASSUME NEW c \in ListingCalls
  PROVE  /\ c.style \in Styles /\ Sensible(c.style) /\ c.mode \in {"data_lua", "rest"}
         /\ IsFiniteSet(DOMAIN c.box) /\ c.box \in [DOMAIN c.box -> VpnState]
         /\ c.function = "listing"
<1>1. PICK uids \in SUBSET ListedUid : c.box \in [uids -> VpnState]
  BY DEF ListingCalls, Boxes
<1>2. DOMAIN c.box = uids /\ IsFiniteSet(uids)
  BY <1>1, FiniteAssumption, FS_Subset
<1> QED
  BY <1>1, <1>2 DEF ListingCalls

\* What else is listed is one item at most.
LEMMA OtherIs ==
  ASSUME NEW style \in Styles
  PROVE  \E m \in 0..1 : Other(style) \in [1..m -> {Other(style)[1]}]
<1>1. style.other \in {"nothing", "junk", "nameless", "ipsec"}
  BY DEF Styles
<1>2. CASE style.other = "nothing"
  <2>1. Other(style) = <<>>
    BY <1>2 DEF Other
  <2> QED
    BY <2>1
<1>3. CASE style.other # "nothing"
  <2>1. \E item : Other(style) = <<item>>
    BY <1>1, <1>3 DEF Other
  <2>2. PICK item : Other(style) = <<item>>
    BY <2>1
  <2> HIDE DEF Other
  <2> QED
    BY <2>2
<1> QED
  BY <1>2, <1>3

IsList(s, m) == m \in Nat /\ DOMAIN s = 1..m /\ s = [i \in 1..m |-> s[i]]

\* The list t is the one of n behind the one of m.
IsJoined(t, s, m, r, n) ==
  /\ m \in Nat /\ n \in Nat /\ DOMAIN t = 1..(m + n)
  /\ \A i \in 1..m : t[i] = s[i]
  /\ \A i \in 1..n : t[m + i] = r[i]

LEMMA Behind ==
  ASSUME NEW m, NEW n, NEW s, NEW r, IsList(s, m), IsList(r, n)
  PROVE  IsJoined(s \o r, s, m, r, n)
<1> DEFINE X == {s[i] : i \in 1..m}
           Y == {r[i] : i \in 1..n}
<1>0. /\ m \in Nat /\ n \in Nat
      /\ s \in [1..m -> X \union Y] /\ r \in [1..n -> X \union Y]
  BY DEF IsList
<1> HIDE DEF X, Y
<1>1. s \in Seq(X \union Y) /\ Len(s) = m
  BY <1>0
<1>2. r \in Seq(X \union Y) /\ Len(r) = n
  BY <1>0
<1>3. /\ s \o r \in Seq(X \union Y) /\ Len(s \o r) = m + n
      /\ \A i \in 1..(m + n) : (s \o r)[i] = IF i <= m THEN s[i] ELSE r[i - m]
  BY <1>1, <1>2
<1>4. DOMAIN (s \o r) = 1..(m + n)
  <2>1. DOMAIN (s \o r) = 1..Len(s \o r)
    BY <1>3
  <2> QED
    BY <1>3, <2>1
<1>5. ASSUME NEW i \in 1..m PROVE (s \o r)[i] = s[i]
  BY <1>0, <1>3
<1>6. ASSUME NEW i \in 1..n PROVE (s \o r)[m + i] = r[i]
  <2>1. m + i \in 1..(m + n) /\ ~(m + i <= m) /\ (m + i) - m = i
    BY <1>0
  <2> QED
    BY <1>3, <2>1
<1> QED
  BY <1>0, <1>4, <1>5, <1>6 DEF IsJoined

\* The items of a response: one for each VPN, and others.
LEMMA ItemsAre ==
  ASSUME NEW c \in ListingCalls
  PROVE  /\ DOMAIN Items(c) \subseteq Nat
         /\ \E at \in [DOMAIN c.box -> DOMAIN Items(c)] :
              /\ \A u \in DOMAIN c.box : Items(c)[at[u]] = Written(c, u)
              /\ \A i \in DOMAIN Items(c) :
                   \/ \E u \in DOMAIN c.box : i = at[u]
                   \/ Items(c)[i] = Other(c.style)[1] /\ c.style.other # "nothing"
<1> DEFINE S == DOMAIN c.box
           n == Cardinality(S)
           order == SetToSeq(S)
           listed == [i \in 1..n |-> Written(c, order[i])]
           other == Other(c.style)
<1>1. /\ n \in Nat /\ order \in [1..n -> S]
      /\ \A i, j \in 1..n : order[i] = order[j] => i = j
      /\ \A u \in S : \E i \in 1..n : order[i] = u
  BY CallIs, OrderFacts
<1>2. Items(c) = IF c.style.first THEN other \o listed ELSE listed \o other
  <2>1. DOMAIN order = 1..n
    BY <1>1
  <2> QED
    BY <2>1 DEF Items, Written
<1>3. PICK m \in 0..1 : other \in [1..m -> {other[1]}]
  BY CallIs, OtherIs
<1>4. m = 1 => c.style.other # "nothing"
  <2>1. c.style.other = "nothing" => DOMAIN other = {}
    BY DEF Other
  <2> QED
    BY <1>3, <2>1
<1> HIDE DEF other, order
<1>5. listed \in [1..n -> {Written(c, u) : u \in S}]
  BY <1>1
<1>6. PICK place \in [S -> 1..n] : \A u \in S : order[place[u]] = u
  <2> DEFINE place == [u \in S |-> CHOOSE i \in 1..n : order[i] = u]
  <2>1. \A u \in S : place[u] \in 1..n /\ order[place[u]] = u
    BY <1>1
  <2>2. place \in [S -> 1..n]
    BY <2>1
  <2> HIDE DEF place
  <2> QED
    BY <2>1, <2>2
<1>7. ASSUME NEW i \in 1..n
      PROVE  order[i] \in S /\ place[order[i]] = i
  <2>1. order[i] \in S /\ place[order[i]] \in 1..n
    BY <1>1, <1>6
  <2> QED
    BY <1>1, <1>6, <2>1
<1>8. \A u \in S : listed[place[u]] = Written(c, u)
  BY <1>6
<1>a. IsList(other, m) /\ IsList(listed, n)
  BY <1>1, <1>3, <1>5 DEF IsList
<1> HIDE DEF listed, n, S
<1>9. CASE c.style.first
  <2> DEFINE items == other \o listed
             at == [u \in S |-> m + place[u]]
  <2>1. /\ DOMAIN items = 1..(m + n)
        /\ \A i \in 1..m : items[i] = other[i]
        /\ \A i \in 1..n : items[m + i] = listed[i]
    <3>1. IsJoined(items, other, m, listed, n)
      BY <1>a, Behind
    <3> HIDE DEF items
    <3> QED
      BY <3>1 DEF IsJoined
  <2> HIDE DEF items
  <2>2. at \in [S -> DOMAIN items] /\ \A u \in S : items[at[u]] = Written(c, u)
    <3>1. ASSUME NEW u \in S
          PROVE  at[u] \in DOMAIN items /\ items[at[u]] = listed[place[u]]
      <4>1. place[u] \in 1..n /\ at[u] = m + place[u]
        BY <1>6
      <4>2. m + place[u] \in 1..(m + n)
        BY <1>1, <4>1
      <4> QED
        BY <2>1, <4>1, <4>2
    <3> QED
      BY <1>8, <3>1
  <2>3. ASSUME NEW i \in DOMAIN items
        PROVE  \/ \E u \in S : i = at[u]
               \/ items[i] = other[1] /\ m = 1
    <3>1. CASE i \in 1..m
      BY <1>3, <2>1, <3>1
    <3>2. CASE i \notin 1..m
      <4>1. i - m \in 1..n /\ m + (i - m) = i
        <5>1. m \in Nat /\ n \in Nat /\ i \in 1..(m + n)
          BY <1>1, <2>1
        <5> QED
          BY <3>2, <5>1
      <4>2. order[i - m] \in S /\ at[order[i - m]] = i
        BY <1>7, <4>1
      <4> QED
        BY <4>2
    <3> QED
      BY <3>1, <3>2
  <2> HIDE DEF at
  <2>4. Items(c) = items
    BY <1>2, <1>9 DEF items
  <2>5. DOMAIN Items(c) \subseteq Nat
    BY <1>1, <2>1, <2>4
  <2>6. /\ at \in [S -> DOMAIN Items(c)]
        /\ \A u \in S : Items(c)[at[u]] = Written(c, u)
        /\ \A i \in DOMAIN Items(c) :
             (\E u \in S : i = at[u]) \/ (Items(c)[i] = other[1] /\ c.style.other # "nothing")
    BY <1>4, <2>2, <2>3, <2>4
  <2> QED
    BY <2>5, <2>6 DEF S, other
<1>10. CASE ~c.style.first
  <2> DEFINE items == listed \o other
  <2>1. /\ DOMAIN items = 1..(n + m)
        /\ \A i \in 1..n : items[i] = listed[i]
        /\ \A i \in 1..m : items[n + i] = other[i]
    <3>1. IsJoined(items, listed, n, other, m)
      BY <1>a, Behind
    <3> HIDE DEF items
    <3> QED
      BY <3>1 DEF IsJoined
  <2> HIDE DEF items
  <2>2. place \in [S -> DOMAIN items] /\ \A u \in S : items[place[u]] = Written(c, u)
    BY <1>1, <1>6, <1>8, <2>1
  <2>3. ASSUME NEW i \in DOMAIN items
        PROVE  \/ \E u \in S : i = place[u]
               \/ items[i] = other[1] /\ m = 1
    <3>1. CASE i \in 1..n
      BY <1>7, <3>1
    <3>2. CASE i - n \in 1..m
      BY <1>1, <1>3, <2>1, <3>2
    <3> QED
      BY <1>1, <2>1, <3>1, <3>2
  <2>4. Items(c) = items
    BY <1>2, <1>10 DEF items
  <2>5. DOMAIN Items(c) \subseteq Nat
    BY <1>1, <2>1, <2>4
  <2>6. /\ place \in [S -> DOMAIN Items(c)]
        /\ \A u \in S : Items(c)[place[u]] = Written(c, u)
        /\ \A i \in DOMAIN Items(c) :
             (\E u \in S : i = place[u]) \/ (Items(c)[i] = other[1] /\ c.style.other # "nothing")
    BY <1>4, <2>2, <2>3, <2>4
  <2> QED
    BY <2>5, <2>6 DEF S, other
<1> QED
  BY <1>9, <1>10

Shown(c) ==
  [u \in DOMAIN c.box |->
     [active |-> c.box[u] # "disabled", connected |-> YesNo(c.box[u] = "connected")]]

\* A VPN in the format of data.lua: one UID, and the flags that tell its state
LEMMA DataConnectionIs ==
  ASSUME NEW style \in Styles, Sensible(style), style.mode = "data_lua", NEW u, NEW state
  PROVE  LET item == DataConnection(u, state, style)
         IN /\ item.object /\ UidOf(item, style.keyed) = {u}
            /\ Active(item) = (state # "disabled")
            /\ item.connected = YesNo(state = "connected")
<1> DEFINE item == DataConnection(u, state, style)
           on == YesNo(state # "disabled")
<1>1. style.flag \in {"active", "activated"} /\ style.keyed \in BOOLEAN
  BY DEF Styles
<1>2. /\ item.object = TRUE /\ item.key = u
      /\ item.uid = [kind |-> style.uid, of |-> u]
      /\ item.active = IF style.flag = "active" THEN on ELSE Missing
      /\ item.activated = IF style.flag = "active" THEN Missing ELSE on
      /\ item.connected = YesNo(state = "connected")
  BY DEF DataConnection, Blank
<1> HIDE DEF item
<1>3. on # Missing /\ (on = "yes") = (state # "disabled")
  BY MissingAssumption DEF YesNo
<1>4. UidOf(item, style.keyed) = {u}
  BY <1>2 DEF UidOf, NormalizedUid, Sensible
<1>5. Active(item) = (state # "disabled")
  BY <1>1, <1>2, <1>3 DEF Active
<1> QED
  BY <1>2, <1>4, <1>5 DEF item

\* A VPN in the REST format, as the code rewrites it
LEMMA RestConnectionIs ==
  ASSUME NEW style \in Styles, style.mode = "rest", NEW u, NEW state
  PROVE  LET item == RestConnection(u, state, style)
             entry == RestEntry(item)
         IN /\ item.object /\ item.wireguard
            /\ entry.object /\ UidOf(entry, FALSE) = {u}
            /\ Active(entry) = (state # "disabled")
            /\ entry.connected = YesNo(state = "connected")
<1> DEFINE item == RestConnection(u, state, style)
           entry == RestEntry(item)
           on == YesNo(state # "disabled")
<1>1. /\ style.flag \in {"active", "activated"} /\ style.keyed \in BOOLEAN
      /\ style.uid \in {"text", "padded", "number"}
  BY DEF Styles
<1>2. /\ item.object = TRUE /\ item.wireguard = TRUE
      /\ item.uid = IF style.keyed THEN [kind |-> style.uid, of |-> u]
                    ELSE [kind |-> "none", of |-> NoUid]
      /\ item.uid_rest = IF style.keyed THEN [kind |-> "none", of |-> NoUid]
                         ELSE [kind |-> style.uid, of |-> u]
      /\ item.active = IF style.flag = "active" THEN on ELSE Missing
      /\ item.activated = on
      /\ item.state = IF state = "connected" /\ style.first THEN "ready" ELSE "notActive"
      /\ item.connected_since = YesNo(state = "connected")
  BY DEF RestConnection, Blank
<1>3. /\ entry.object = TRUE /\ entry.uid = RestUid(item) /\ entry.active = on
      /\ entry.connected = IF ConnectedFromRest(item) THEN "yes" ELSE "no"
  <2>1. /\ entry.object = item.object /\ entry.uid = RestUid(item)
        /\ entry.active = IF item.active = Missing THEN item.activated ELSE item.active
        /\ entry.connected = IF ConnectedFromRest(item) THEN "yes" ELSE "no"
    BY DEF RestEntry, RestConnection, Blank
  <2> HIDE DEF item, entry
  <2> QED
    BY <1>2, <2>1
<1> HIDE DEF item, entry
<1>4. on # Missing /\ (on = "yes") = (state # "disabled")
  BY MissingAssumption DEF YesNo
<1>5. RestUid(item) = [kind |-> style.uid, of |-> u]
  BY <1>1, <1>2 DEF RestUid
<1>6. UidOf(entry, FALSE) = {u}
  BY <1>1, <1>3, <1>5 DEF UidOf, NormalizedUid
<1>7. Active(entry) = (state # "disabled")
  BY <1>3, <1>4 DEF Active
<1>8. entry.connected = YesNo(state = "connected")
  BY <1>2, <1>3 DEF ConnectedFromRest, YesNo
<1> QED
  BY <1>2, <1>3, <1>6, <1>7, <1>8 DEF item, entry

\* What else is listed names no VPN.
LEMMA OtherNamesNone ==
  ASSUME NEW style \in Styles, Sensible(style), style.other # "nothing"
  PROVE  LET item == Other(style)[1]
         IN /\ style.mode = "data_lua" /\ item.object => UidOf(item, style.keyed) = {}
            /\ style.mode = "rest" /\ item.object /\ item.wireguard
                 => UidOf(RestEntry(item), FALSE) = {}
<1> DEFINE item == Other(style)[1]
<1>1. /\ style.other \in {"junk", "nameless", "ipsec"}
      /\ style.other = "ipsec" => style.mode = "rest"
      /\ style.keyed \in BOOLEAN
  BY DEF Styles
<1>2. CASE style.other = "junk"
  <2>1. item.object = FALSE
    BY <1>2 DEF Other, Blank
  <2> QED
    BY <2>1
<1>3. CASE style.other = "nameless"
  <2>1. item = [Blank EXCEPT !.active = "yes"]
    BY <1>3 DEF Other
  <2>2. item.uid.kind = "none" /\ item.uid_rest.kind = "none"
    BY <2>1 DEF Blank
  <2>3. RestEntry(item).uid = RestUid(item)
    BY <2>1 DEF RestEntry, Blank
  <2> HIDE DEF item
  <2>4. RestUid(item).kind = "none"
    BY <2>2 DEF RestUid
  <2>5. style.mode = "data_lua" => style.keyed = FALSE
    BY <1>1, <1>3 DEF Sensible
  <2>6. style.mode = "data_lua" => UidOf(item, style.keyed) = {}
    BY <2>2, <2>5 DEF UidOf, NormalizedUid
  <2>7. UidOf(RestEntry(item), FALSE) = {}
    BY <2>3, <2>4 DEF UidOf, NormalizedUid
  <2> QED
    BY <2>6, <2>7 DEF item
<1>4. CASE style.other = "ipsec"
  <2>1. item.wireguard = FALSE
    BY <1>4 DEF Other, Blank
  <2> QED
    BY <1>1, <1>4, <2>1
<1> QED
  BY <1>1, <1>2, <1>3, <1>4

LEMMA DataListing ==
  ASSUME NEW c \in ListingCalls, c.style.mode = "data_lua"
  PROVE  Normalized([keyed |-> c.style.keyed, items |-> Items(c)]) = Shown(c)
<1> DEFINE S == DOMAIN c.box
           items == Items(c)
<1>1. PICK at \in [S -> DOMAIN items] :
        /\ \A u \in S : items[at[u]] = Written(c, u)
        /\ \A i \in DOMAIN items :
             \/ \E u \in S : i = at[u]
             \/ items[i] = Other(c.style)[1] /\ c.style.other # "nothing"
  BY ItemsAre
<1>2. DOMAIN items \subseteq Nat
  BY ItemsAre
<1>3. \A u \in S : Written(c, u) = DataConnection(u, c.box[u], c.style)
  BY DEF Written
<1>4. c.style \in Styles /\ Sensible(c.style)
  BY CallIs
<1> HIDE DEF S, items
<1>5. \A u \in S : /\ items[at[u]].object /\ UidOf(items[at[u]], c.style.keyed) = {u}
                   /\ Active(items[at[u]]) = (c.box[u] # "disabled")
                   /\ items[at[u]].connected = YesNo(c.box[u] = "connected")
  <2> TAKE u \in S
  <2>1. items[at[u]] = DataConnection(u, c.box[u], c.style)
    BY <1>1, <1>3
  <2> DEFINE item == DataConnection(u, c.box[u], c.style)
  <2>2. /\ item.object /\ UidOf(item, c.style.keyed) = {u}
        /\ Active(item) = (c.box[u] # "disabled")
        /\ item.connected = YesNo(c.box[u] = "connected")
    BY <1>4, DataConnectionIs
  <2> HIDE DEF item
  <2>3. items[at[u]] = item
    BY <2>1 DEF item
  <2> QED
    BY <2>2, <2>3
<1>6. \A i \in DOMAIN items : items[i].object =>
        (\E u \in S : i = at[u]) \/ UidOf(items[i], c.style.keyed) = {}
  BY <1>1, <1>4, OtherNamesNone
<1>7. Normalized([keyed |-> c.style.keyed, items |-> items]) =
        [u \in S |-> [active |-> Active(items[at[u]]), connected |-> items[at[u]].connected]]
  <2>1. \A u \in S : items[at[u]].object /\ UidOf(items[at[u]], c.style.keyed) = {u}
    BY <1>5
  <2>2. Itemised(S, items, c.style.keyed, at)
    BY <1>1, <1>2, <1>6, <2>1 DEF Itemised
  <2> QED
    BY <2>2, NormalizedIs
<1> QED
  BY <1>5, <1>7 DEF Shown, S, items

LEMMA RestListing ==
  ASSUME NEW c \in ListingCalls, c.style.mode = "rest",
         NEW kept, kept = {i \in DOMAIN Items(c) : Items(c)[i].object /\ Items(c)[i].wireguard}
  PROVE  Normalized([keyed |-> FALSE, items |-> [i \in kept |-> RestEntry(Items(c)[i])]]) = Shown(c)
<1> DEFINE S == DOMAIN c.box
           items == Items(c)
           entries == [i \in kept |-> RestEntry(items[i])]
<1>1. PICK at \in [S -> DOMAIN items] :
        /\ \A u \in S : items[at[u]] = Written(c, u)
        /\ \A i \in DOMAIN items :
             \/ \E u \in S : i = at[u]
             \/ items[i] = Other(c.style)[1] /\ c.style.other # "nothing"
  BY ItemsAre
<1>2. kept \subseteq Nat /\ DOMAIN entries = kept
  BY ItemsAre
<1>3. \A u \in S : Written(c, u) = RestConnection(u, c.box[u], c.style)
  BY DEF Written
<1>4. c.style \in Styles /\ Sensible(c.style)
  BY CallIs
<1>5. kept = {i \in DOMAIN items : items[i].object /\ items[i].wireguard}
      /\ \A i \in kept : entries[i] = RestEntry(items[i])
  OBVIOUS
<1> HIDE DEF S, items, entries
<1>6. \A u \in S : /\ items[at[u]].object /\ items[at[u]].wireguard
                   /\ RestEntry(items[at[u]]).object /\ UidOf(RestEntry(items[at[u]]), FALSE) = {u}
                   /\ Active(RestEntry(items[at[u]])) = (c.box[u] # "disabled")
                   /\ RestEntry(items[at[u]]).connected = YesNo(c.box[u] = "connected")
  <2> TAKE u \in S
  <2>1. items[at[u]] = RestConnection(u, c.box[u], c.style)
    BY <1>1, <1>3
  <2> DEFINE item == RestConnection(u, c.box[u], c.style)
  <2>2. /\ item.object /\ item.wireguard
        /\ RestEntry(item).object /\ UidOf(RestEntry(item), FALSE) = {u}
        /\ Active(RestEntry(item)) = (c.box[u] # "disabled")
        /\ RestEntry(item).connected = YesNo(c.box[u] = "connected")
    BY <1>4, RestConnectionIs
  <2> HIDE DEF item
  <2>3. items[at[u]] = item
    BY <2>1 DEF item
  <2> QED
    BY <2>2, <2>3
<1>7. at \in [S -> kept]
  BY <1>1, <1>5, <1>6
<1>8. \A u \in S : /\ entries[at[u]].object /\ UidOf(entries[at[u]], FALSE) = {u}
                   /\ Active(entries[at[u]]) = (c.box[u] # "disabled")
                   /\ entries[at[u]].connected = YesNo(c.box[u] = "connected")
  <2> TAKE u \in S
  <2>1. at[u] \in kept /\ entries[at[u]] = RestEntry(items[at[u]])
    BY <1>5, <1>7
  <2> DEFINE entry == RestEntry(items[at[u]])
  <2>2. /\ entry.object /\ UidOf(entry, FALSE) = {u}
        /\ Active(entry) = (c.box[u] # "disabled")
        /\ entry.connected = YesNo(c.box[u] = "connected")
    BY <1>6
  <2> HIDE DEF entry
  <2>3. entries[at[u]] = entry
    BY <2>1 DEF entry
  <2> QED
    BY <2>2, <2>3
<1>9. \A i \in kept : entries[i].object =>
        (\E u \in S : i = at[u]) \/ UidOf(entries[i], FALSE) = {}
  <2> SUFFICES ASSUME NEW i \in kept, ~ \E u \in S : i = at[u]
               PROVE  UidOf(entries[i], FALSE) = {}
    OBVIOUS
  <2>1. items[i] = Other(c.style)[1] /\ c.style.other # "nothing"
    BY <1>1, <1>5
  <2> QED
    BY <1>4, <1>5, <2>1, OtherNamesNone
<1>10. Normalized([keyed |-> FALSE, items |-> entries]) =
         [u \in S |-> [active |-> Active(entries[at[u]]), connected |-> entries[at[u]].connected]]
  <2>1. \A u \in S : entries[at[u]].object /\ UidOf(entries[at[u]], FALSE) = {u}
    BY <1>8
  <2>2. Itemised(S, entries, FALSE, at)
    BY <1>2, <1>7, <1>9, <2>1 DEF Itemised
  <2> DEFINE keyed == FALSE
  <2>3. Itemised(S, entries, keyed, at)
    BY <2>2
  <2> HIDE DEF keyed
  <2>4. Normalized([keyed |-> keyed, items |-> entries]) =
          [u \in S |-> [active |-> Active(entries[at[u]]), connected |-> entries[at[u]].connected]]
    BY <2>3, NormalizedIs
  <2> QED
    BY <2>4 DEF keyed
<1> QED
  BY <1>8, <1>10 DEF Shown, S, entries, items

-----------------------------------------------------------------------------
(* The theorems                                                            *)

LEMMA PlaceIs ==
  ASSUME NEW c \in ListingCalls
  PROVE  /\ c.style.mode = "rest" =>
              /\ c.style.place = "connection"
              /\ Response(c).connection = Items(c) /\ Items(c) # Missing
         /\ c.style.mode = "data_lua" =>
              \E k \in 1..4 :
                /\ Places[k] = c.style.place
                /\ Response(c)[Places[k]] = [keyed |-> c.style.keyed, items |-> Items(c)]
                /\ Response(c)[Places[k]] # Missing
         /\ \A place \in {"init", "init_page", "data", "page", "connection"} :
              place # c.style.place => Response(c)[place] = Missing
<1>1. c.style \in Styles /\ Response(c)[c.style.place] # Missing
  BY CallIs, MissingAssumption
<1>a. \A place \in {"init", "init_page", "data", "page", "connection"} :
        place # c.style.place => Response(c)[place] = Missing
  BY DEF Response
<1>2. CASE c.style.mode = "rest"
  <2>1. c.style.place = "connection"
    BY <1>1, <1>2 DEF Styles
  <2>2. Response(c)["connection"] = Items(c)
    BY <2>1 DEF Response
  <2> QED
    BY <1>1, <1>2, <1>a, <2>1, <2>2
<1>3. CASE c.style.mode = "data_lua"
  <2>1. c.style.place \in {"init", "init_page", "data", "page"}
    BY <1>1, <1>3 DEF Styles
  <2>2. PICK k \in 1..4 : Places[k] = c.style.place
    BY <2>1 DEF Places
  <2>3. Response(c)[c.style.place] = [keyed |-> c.style.keyed, items |-> Items(c)]
    BY <2>1 DEF Response
  <2> QED
    BY <1>1, <1>3, <1>a, <2>2, <2>3
<1>4. c.style.mode \in {"rest", "data_lua"}
  BY <1>1 DEF Styles
<1> QED
  BY <1>2, <1>3, <1>4

LEMMA DataIsExtracted ==
  ASSUME NEW c \in ListingCalls, c.style.mode = "data_lua"
  PROVE  /\ ListingOf("data_lua", Response(c)) = Shown(c)
         /\ ListingOf("rest", Response(c)) = Missing
<1> DEFINE found == {i \in DOMAIN Places : Response(c)[Places[i]] # Missing}
           payload == [keyed |-> c.style.keyed, items |-> Items(c)]
<1>1. PICK k \in 1..4 : /\ Places[k] = c.style.place
                        /\ Response(c)[Places[k]] = payload
                        /\ Response(c)[Places[k]] # Missing
  BY PlaceIs
<1>2. DOMAIN Places = 1..4
  BY DEF Places
<1>3. ASSUME NEW i \in 1..4, i # k
      PROVE  Response(c)[Places[i]] = Missing
  <2>1. Places[i] # Places[k] /\ Places[i] \in {"init", "init_page", "data", "page", "connection"}
    BY <1>3 DEF Places
  <2> QED
    BY <1>1, <2>1, PlaceIs
<1>4. found = {k}
  <2>1. \A i \in 1..4 : Response(c)[Places[i]] # Missing <=> i = k
    BY <1>1, <1>3
  <2> QED
    BY <1>2, <2>1
<1> HIDE DEF found
<1>5. Min(found) = k
  BY <1>4 DEF Min
<1> HIDE DEF payload
<1>6. ExtractedFromData(Response(c)) = payload
  BY <1>1, <1>4, <1>5 DEF ExtractedFromData, found
<1>7. ListingOf("data_lua", Response(c)) = Normalized(payload)
  BY <1>1, <1>6 DEF ListingOf
<1>8. Response(c).connection = Missing
  <2>1. c.style.place # "connection"
    BY <1>1 DEF Places
  <2> QED
    BY <2>1, PlaceIs
<1>9. ListingOf("rest", Response(c)) = Missing
  BY <1>8 DEF ListingOf, ExtractedFromRest
<1> QED
  BY <1>7, <1>9, DataListing DEF payload

LEMMA RestIsExtracted ==
  ASSUME NEW c \in ListingCalls, c.style.mode = "rest"
  PROVE  /\ ListingOf("rest", Response(c)) = Shown(c)
         /\ ListingOf("data_lua", Response(c)) = Missing
<1> DEFINE kept == {i \in DOMAIN Items(c) : Items(c)[i].object /\ Items(c)[i].wireguard}
           payload == [keyed |-> FALSE, items |-> [i \in kept |-> RestEntry(Items(c)[i])]]
<1>1. ExtractedFromRest(Response(c)) = payload
  <2>1. Response(c).connection = Items(c) /\ Items(c) # Missing
    BY PlaceIs
  <2> QED
    BY <2>1 DEF ExtractedFromRest
<1>2. Normalized(payload) = Shown(c)
  BY RestListing
<1>3. ExtractedFromRest(Response(c)) # Missing
  BY MissingAssumption
<1> HIDE DEF payload
<1>4. ListingOf("rest", Response(c)) = Shown(c)
  BY <1>1, <1>2, <1>3 DEF ListingOf
<1>5. \A i \in DOMAIN Places : Response(c)[Places[i]] = Missing
  <2>1. \A i \in DOMAIN Places : Places[i] \in {"init", "init_page", "data", "page"}
    BY DEF Places
  <2> QED
    BY <2>1, PlaceIs
<1>6. ExtractedFromData(Response(c)) = Missing
  BY <1>5 DEF ExtractedFromData
<1> QED
  BY <1>4, <1>6 DEF ListingOf

LEMMA ListingIs ==
  ASSUME NEW c \in ListingCalls
  PROVE  ListingOf(c.mode, Response(c)) = IF c.mode = c.style.mode THEN Shown(c) ELSE Missing
<1>1. c.style.mode \in {"rest", "data_lua"} /\ c.mode \in {"rest", "data_lua"}
  BY CallIs DEF Styles
<1> QED
  BY <1>1, DataIsExtracted, RestIsExtracted

LEMMA RemapIs ==
  ASSUME NEW c \in RemapCalls, c = call
  PROVE  LET new == NewPayloads(c)
         IN IF RemapAccepted(c.old, c.new, c.names, new)
            THEN Unambiguous /\ NameRemap(c.old, c.new, c.names, new) \in Pairings
            ELSE ~Unambiguous
<1> DEFINE payloads == NewPayloads(c)
<1>1. /\ c.old \subseteq Uid /\ c.new \subseteq Uid
      /\ IsFiniteSet(c.old) /\ IsFiniteSet(c.new)
  BY FiniteAssumption, FS_Subset DEF RemapCalls
<1>2. \A v \in c.new : payloads[v] = c.names[v]
  BY <1>1 DEF NewPayloads
<1>3. Pairings = PairingsOf(c.old, c.new, c.names)
  BY DEF Pairings, PairingsOf
<1> HIDE DEF payloads
<1>4. RemapAccepted(c.old, c.new, c.names, payloads) <=> Unambiguous
  BY <1>1, <1>2, <1>3, RemapsIff DEF Unambiguous
<1>5. RemapAccepted(c.old, c.new, c.names, payloads)
        => NameRemap(c.old, c.new, c.names, payloads) \in Pairings
  BY <1>2, <1>3, AcceptedIsThePairing
<1> QED
  BY <1>4, <1>5 DEF payloads

\* The call is one of the calls, and what has come back is what its function returns.
Returns ==
  /\ call \in RemapCalls \union ListingCalls
  /\ result # Pending =>
       \/ /\ call \in RemapCalls
          /\ result = IF RemapAccepted(call.old, call.new, call.names, NewPayloads(call))
                      THEN NameRemap(call.old, call.new, call.names, NewPayloads(call))
                      ELSE Refused
       \/ call \in ListingCalls /\ result = ListingOf(call.mode, Response(call))

LEMMA FunctionTells ==
  /\ \A c \in RemapCalls : c.function = "name_bijection_uid_remap"
  /\ \A c \in ListingCalls : c.function = "listing"
BY DEF RemapCalls, ListingCalls

LEMMA ReturnsHolds == Spec => []Returns
<1>1. Init => Returns
  BY DEF Init, Returns
<1>2. Returns /\ [Next]_vars => Returns'
  <2> SUFFICES ASSUME Returns, [Next]_vars PROVE Returns'
    OBVIOUS
  <2>1. CASE UNCHANGED vars
    BY <2>1 DEF Returns, vars, Pending, Refused
  <2>2. CASE result = Pending /\ Remap /\ UNCHANGED call
    <3>1. call \in RemapCalls
      BY <2>2, FunctionTells DEF Returns, Remap
    <3> QED
      BY <2>2, <3>1 DEF Returns, Remap, Pending, Refused
  <2>3. CASE result = Pending /\ List /\ UNCHANGED call
    <3>1. call \in ListingCalls
      BY <2>3, FunctionTells DEF Returns, List
    <3> QED
      BY <2>3, <3>1 DEF Returns, List, Pending
  <2> QED
    BY <2>1, <2>2, <2>3 DEF Next
<1> QED
  BY <1>1, <1>2, PTL DEF Spec

\* name_bijection_uid_remap returns a mapping exactly when the display names leave
\* no choice, whatever UIDs and names there are, and then the only one possible.
THEOREM RemapIffUnambiguousHolds == Spec => []RemapIffUnambiguous
<1>1. Returns => RemapIffUnambiguous
  <2> SUFFICES ASSUME Returns, Returned("name_bijection_uid_remap")
               PROVE  IF Unambiguous THEN result \in Pairings ELSE result = Refused
    BY DEF RemapIffUnambiguous
  <2>1. call \in RemapCalls
    BY FunctionTells DEF Returns, Returned
  <2>2. result = IF RemapAccepted(call.old, call.new, call.names, NewPayloads(call))
                 THEN NameRemap(call.old, call.new, call.names, NewPayloads(call))
                 ELSE Refused
    BY FunctionTells DEF Returns, Returned
  <2> QED
    BY <2>1, <2>2, RemapIs
<1> QED
  BY <1>1, ReturnsHolds, PTL

\* The parsers find the VPNs of the box in either format of its response, whatever
\* else is listed, and nothing in a response of the other format.
THEOREM ListingIsTheBoxsHolds == Spec => []ListingIsTheBoxs
<1>1. Returns => ListingIsTheBoxs
  <2> SUFFICES ASSUME Returns, Returned("listing") PROVE ListingIsTheBoxs
    BY DEF ListingIsTheBoxs
  <2>1. call \in ListingCalls /\ result = ListingOf(call.mode, Response(call))
    BY FunctionTells DEF Returns, Returned
  <2> QED
    BY <2>1, ListingIs DEF ListingIsTheBoxs, Shown
<1> QED
  BY <1>1, ReturnsHolds, PTL
=============================================================================
