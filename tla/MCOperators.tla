----------------------------- MODULE MCOperators -----------------------------
(***************************************************************************)
(* The pure functions of the program, called with every bounded argument:  *)
(*                                                                         *)
(* name_bijection_uid_remap, compared with what the documentation promises,*)
(* a remap exactly when the names match "uniquely (1:1)" (README).  One    *)
(* naming function serves both sides, because a UID on both sides is       *)
(* refused whatever its name is.                                           *)
(*                                                                         *)
(* The parsers of a listing, given every way in which a box with some VPNs *)
(* may write them down: they must find the VPNs that the box has.          *)
(***************************************************************************)
EXTENDS UidIdentity, Parsing, SequencesExt

CONSTANTS
  ListedUid,  \* the UIDs of the VPNs a box may have
  NoUid       \* of a UID that is missing or blank

VARIABLES call, result

vars == <<call, result>>

Pending == NoName
Refused == [u \in {} |-> u]

RemapCalls ==
  [function : {"name_bijection_uid_remap"}, old : SUBSET Uid, new : SUBSET Uid, names : UidNames]

NewPayloads(c) == [u \in Uid |-> IF u \in c.new THEN c.names[u] ELSE Absent]

-----------------------------------------------------------------------------
(* The box, and how its firmware writes down a connection                  *)

VpnState == {"disabled", "enabled", "connected"}
Boxes == UNION {[uids -> VpnState] : uids \in SUBSET ListedUid}
YesNo(b) == IF b THEN "yes" ELSE "no"

Blank == [object |-> TRUE, key |-> NoUid, wireguard |-> TRUE,
          uid |-> [kind |-> "none", of |-> NoUid], uid_rest |-> [kind |-> "none", of |-> NoUid],
          active |-> Missing, activated |-> Missing, connected |-> Missing,
          state |-> Missing, connected_since |-> Missing]

\* mode: the format; place: of boxConnections; keyed: a dict and no list; uid: how
\* a UID is written, "none" or "blank" if the key of the dict alone has it; flag:
\* the key that tells whether a VPN is active; other: what else is listed, and
\* whether first.  In the REST format keyed says that a UID has its legacy key.
Styles ==
  [mode : {"data_lua"}, place : {"init", "init_page", "data", "page"},
   uid : {"text", "padded", "number", "none", "blank"}, keyed : BOOLEAN,
   flag : {"active", "activated"}, other : {"nothing", "junk", "nameless"}, first : BOOLEAN]
  \union
  [mode : {"rest"}, place : {"connection"}, uid : {"text", "padded", "number"},
   keyed : BOOLEAN, flag : {"active", "activated"}, other : {"nothing", "junk", "ipsec", "nameless"},
   first : BOOLEAN]

\* A list cannot do without UIDs, and in a dict nothing is without one.
Sensible(style) ==
  /\ style.uid \in {"none", "blank"} => style.keyed
  /\ style.other = "nameless" /\ style.keyed => style.mode = "rest"

DataConnection(u, state, style) ==
  LET on == YesNo(state # "disabled")
  IN [Blank EXCEPT !.key = u, !.uid = [kind |-> style.uid, of |-> u],
                   !.active = IF style.flag = "active" THEN on ELSE Missing,
                   !.activated = IF style.flag = "active" THEN Missing ELSE on,
                   !.connected = YesNo(state = "connected")]

RestConnection(u, state, style) ==
  LET on == YesNo(state # "disabled")
      uid == [kind |-> style.uid, of |-> u]
  IN [Blank EXCEPT !.uid = IF style.keyed THEN uid ELSE @,
                   !.uid_rest = IF style.keyed THEN @ ELSE uid,
                   !.active = IF style.flag = "active" THEN on ELSE Missing, !.activated = on,
                   !.state = IF state = "connected" /\ style.first THEN "ready" ELSE "notActive",
                   !.connected_since = YesNo(state = "connected")]

Other(style) ==
  CASE style.other = "nothing" -> <<>>
    [] style.other = "junk" -> <<[Blank EXCEPT !.object = FALSE]>>
    [] style.other = "nameless" -> <<[Blank EXCEPT !.active = "yes"]>>
    [] style.other = "ipsec" ->
         <<[Blank EXCEPT !.wireguard = FALSE, !.activated = "yes",
                         !.uid_rest = [kind |-> "text", of |-> CHOOSE u \in ListedUid : TRUE]]>>

Items(c) ==
  LET order == SetToSeq(DOMAIN c.box)
      listed == [i \in DOMAIN order |->
        IF c.style.mode = "rest" THEN RestConnection(order[i], c.box[order[i]], c.style)
        ELSE DataConnection(order[i], c.box[order[i]], c.style)]
  IN IF c.style.first THEN Other(c.style) \o listed ELSE listed \o Other(c.style)

Response(c) ==
  [place \in {"init", "init_page", "data", "page", "connection"} |->
     IF place # c.style.place THEN Missing
     ELSE IF place = "connection" THEN Items(c)
     ELSE [keyed |-> c.style.keyed, items |-> Items(c)]]

ListingCalls ==
  [function : {"listing"}, box : Boxes, style : {style \in Styles : Sensible(style)},
   mode : {"data_lua", "rest"}]

ASSUME FiniteAssumption == IsFiniteSet(Uid) /\ IsFiniteSet(ListedUid)

\* Neither what a box writes nor what is made of it stands for a missing key.
ASSUME MissingAssumption ==
  /\ Missing \notin {"yes", "no"}
  /\ \A c \in ListingCalls : /\ Response(c)[c.style.place] # Missing
                             /\ c.style.mode = "rest" => ExtractedFromRest(Response(c)) # Missing

-----------------------------------------------------------------------------

Init == call \in RemapCalls \union ListingCalls /\ result = Pending

Remap ==
  /\ call.function = "name_bijection_uid_remap"
  /\ result' = IF RemapAccepted(call.old, call.new, call.names, NewPayloads(call))
               THEN NameRemap(call.old, call.new, call.names, NewPayloads(call))
               ELSE Refused

List ==
  /\ call.function = "listing"
  /\ result' = ListingOf(call.mode, Response(call))

Next == result = Pending /\ (Remap \/ List) /\ UNCHANGED call
Spec == Init /\ [][Next]_vars

Returned(function) == call.function = function /\ result # Pending

-----------------------------------------------------------------------------
\* The ways to pair every old UID with a new one of the same name.
Pairings ==
  {f \in [call.old -> call.new] :
     /\ \A u \in call.old : call.names[f[u]] = call.names[u]
     /\ \A u, v \in call.old : f[u] = f[v] => u = v
     /\ \A v \in call.new : \E u \in call.old : f[u] = v}

\* The names leave no choice: everyone is named and one pairing exists.
Unambiguous ==
  /\ call.old # {} /\ call.old \intersect call.new = {}
  /\ \A u \in call.old \union call.new : call.names[u] \in Name
  /\ Cardinality(Pairings) = 1

\* A mapping comes back exactly when the names leave no choice, and it is the
\* only possible pairing: the code never guesses and never refuses a clear
\* case (docstring "must be refused (no silent guessing)").
RemapIffUnambiguous ==
  Returned("name_bijection_uid_remap") =>
    IF Unambiguous THEN result \in Pairings ELSE result = Refused

\* However the box writes its VPNs down, and whatever else it lists among them,
\* the listing has exactly its VPNs, under the same UIDs and with the same states
\* in every format: an update of the firmware renumbers and loses nothing.  A box
\* without VPNs yields an empty listing, and a response in the other format none,
\* which the session takes for the wrong mode or an outage.
ListingIsTheBoxs ==
  Returned("listing") =>
    IF call.mode = call.style.mode
    THEN result = [u \in DOMAIN call.box |->
                     [active |-> call.box[u] # "disabled",
                      connected |-> YesNo(call.box[u] = "connected")]]
    ELSE result = Missing
=============================================================================
