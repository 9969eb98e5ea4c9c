---------------------------- MODULE UidIdentity ----------------------------
(***************************************************************************)
(* VPN connections and their identity (uid_identity.py).  The Fritz!Box    *)
(* names a WireGuard connection by a UID, which a reboot may renumber, and *)
(* by a display name, which the user chose.  After an outage the           *)
(* integration renames its registry rows from old to new UIDs, and does so *)
(* only when the display names leave no choice.                            *)
(*                                                                         *)
(* A VPN listing is a function on all UIDs: the display name of a listed   *)
(* UID, NoName when its name is missing or empty, BlankName when it is     *)
(* nothing but blanks, Absent when the UID is not listed.  Names are taken *)
(* with surrounding blanks stripped, which is how the code compares them.  *)
(***************************************************************************)
CONSTANTS Uid, Name, NoName, BlankName, Absent

ASSUME NameAssumption ==
  /\ {NoName, BlankName, Absent} \intersect Name = {}
  /\ NoName # BlankName /\ Absent \notin {NoName, BlankName}

Listing == [Uid -> Name \union {NoName, BlankName, Absent}]
UidNames == [Uid -> Name \union {NoName, BlankName}]

Listed(conns) == {u \in Uid : conns[u] # Absent}
NoConnections == [u \in Uid |-> Absent]

\* Every UID of the set has a name and no two have the same one.
NamedApart(uids, names) ==
  /\ \A u \in uids : names[u] \in Name
  /\ \A u, v \in uids : names[u] = names[v] => u = v

\* Mutant: two new UIDs may carry the same name.
DuplicateNamesAccepted(old, new, oldNames, conns) ==
  /\ old # {} /\ new # {} /\ old \intersect new = {}
  /\ NamedApart(old, oldNames)
  /\ {oldNames[u] : u \in old} = {conns[u] : u \in new}

\* The code refuses the remap (returns no mapping) unless all of this holds.
RemapAccepted(old, new, oldNames, conns) ==
  /\ old # {} /\ new # {} /\ old \intersect new = {}
  /\ NamedApart(old, oldNames)
  /\ NamedApart(new, conns)
  /\ {oldNames[u] : u \in old} = {conns[u] : u \in new}

\* Mutant: pairs without looking at the names.
NameRemapAny(old, new, oldNames, conns) == [u \in old |-> CHOOSE v \in new : TRUE]

\* The mapping it then returns: each old UID to the new UID of the same name.
NameRemap(old, new, oldNames, conns) ==
  [u \in old |-> CHOOSE v \in new : conns[v] = oldNames[u]]
=============================================================================
