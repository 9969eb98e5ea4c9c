------------------------------- MODULE Parsing -------------------------------
(***************************************************************************)
(* How fritzboxvpn/parsing.py makes a listing of what the box answers, in  *)
(* the format of data.lua or of the REST API of later firmware.            *)
(*                                                                         *)
(* A connection is a record of what the code reads of it.  Its UIDs are    *)
(* records [kind, of]: missing ("none"), "blank", "text" and "padded" text *)
(* or a "number" that stand for the UID `of`.  A flag is Missing, "yes"    *)
(* (true, a number other than 0, "1", "true", "on") or "no", anything else.*)
(***************************************************************************)
EXTENDS Integers, Sequences, FiniteSets, FiniteSetsExt

CONSTANT Missing  \* a key that is not there, or null

\* normalize_connection_uid: at most one UID
NormalizedUid(raw) == IF raw.kind \in {"none", "blank"} THEN {} ELSE {raw.of}

\* connection_active_from_api
Active(c) == IF c.active # Missing THEN c.active = "yes" ELSE c.activated = "yes"

\* The key of a dict stands in for a UID that its connection does not have.
UidOf(c, keyed) ==
  IF keyed /\ c.uid.kind \in {"none", "blank"} THEN {c.key} ELSE NormalizedUid(c.uid)

\* normalize_box_connections, of [keyed, items] with items by their places in the
\* list: the last connection of a UID wins.
Normalized(payload) ==
  LET items == payload.items
      named(u) == {i \in DOMAIN items :
                     items[i].object /\ u \in UidOf(items[i], payload.keyed)}
      uids == UNION {IF items[i].object THEN UidOf(items[i], payload.keyed) ELSE {} :
                       i \in DOMAIN items}
  IN [u \in uids |-> LET c == items[Max(named(u))]
                     IN [active |-> Active(c), connected |-> c.connected]]

\* Where boxConnections may be: in init, in a page of init, in data, in a page of data
Places == <<"init", "init_page", "data", "page">>

\* extract_box_connections_from_data, of a function of the places
ExtractedFromData(response) ==
  LET found == {i \in DOMAIN Places : response[Places[i]] # Missing}
  IN IF found = {} THEN Missing ELSE response[Places[Min(found)]]

\* _connection_connected_from_rest
ConnectedFromRest(c) == c.state = "ready" \/ c.connected_since = "yes"

\* Mutant: the UID of a REST connection is where data.lua has it.
LegacyUidOf(c) == c.uid

\* A REST connection may have its UID under another key.
RestUid(c) == IF c.uid.kind = "none" THEN c.uid_rest ELSE c.uid

\* _rest_wireguard_entry
RestEntry(c) ==
  [c EXCEPT !.uid = RestUid(c),
            !.active = IF @ = Missing THEN c.activated ELSE @,
            !.connected = IF ConnectedFromRest(c) THEN "yes" ELSE "no"]

\* extract_wireguard_connections_from_rest: the connections that are no objects or
\* no WireGuard are left out.
ExtractedFromRest(response) ==
  IF response.connection = Missing THEN Missing
  ELSE LET items == response.connection
           kept == {i \in DOMAIN items : items[i].object /\ items[i].wireguard}
       IN [keyed |-> FALSE, items |-> [i \in kept |-> RestEntry(items[i])]]

\* The listing of a response in the mode, if there is one in it
ListingOf(mode, response) ==
  LET payload == IF mode = "rest" THEN ExtractedFromRest(response) ELSE ExtractedFromData(response)
  IN IF payload = Missing THEN Missing ELSE Normalized(payload)
=============================================================================
