------------------------------ MODULE Services ------------------------------
(***************************************************************************)
(* The two services of the integration and the entries they work on        *)
(* (__init__.py).  Home Assistant calls async_setup once, when the first   *)
(* entry of the domain is set up; entries come, go and are reloaded by     *)
(* the user or by a running service call.  The coroutines interleave where *)
(* they await: the first refresh of a setup, the unloading of platforms.   *)
(***************************************************************************)
CONSTANT Entry

VARIABLES
  entry,       \* each "absent", "setup", "loaded", "retry", "unload" or "not_loaded"
  set_up,      \* async_setup has run
  registered,  \* SERVICE_REGISTRATION_FLAG: the services are there
  todo,        \* entries the running service call has still to look at
  reloading    \* entries that are set up again once they are unloaded

vars == <<entry, set_up, registered, todo, reloading>>

LoadedEntries == {e \in Entry : entry[e] = "loaded"}

-----------------------------------------------------------------------------

\* async_setup, _register_services_if_needed, and the first setup of an entry
Added(e) ==
  /\ entry[e] = "absent"
  /\ set_up' = TRUE
  /\ registered' = (set_up => registered)
  /\ entry' = [entry EXCEPT ![e] = "setup"]
  /\ UNCHANGED <<todo, reloading>>

\* async_setup_entry, whose first refresh succeeds or is retried later
SetUp(e) ==
  /\ entry[e] = "setup"
  /\ \E state \in {"loaded", "retry"} : entry' = [entry EXCEPT ![e] = state]
  /\ reloading' = reloading \ {e}
  /\ UNCHANGED <<set_up, registered, todo>>

Retry(e) ==
  /\ entry[e] = "retry"
  /\ entry' = [entry EXCEPT ![e] = "setup"]
  /\ UNCHANGED <<set_up, registered, todo, reloading>>

\* Home Assistant unloads a loaded entry, to reload it or for good.
Unloading(e, again) ==
  /\ entry[e] = "loaded"
  /\ entry' = [entry EXCEPT ![e] = "unload"]
  /\ reloading' = IF again THEN reloading \union {e} ELSE reloading

UserUnloads(e) ==
  /\ \E again \in BOOLEAN : Unloading(e, again)
  /\ UNCHANGED <<set_up, registered, todo>>

\* async_unload_entry, once the platforms are unloaded: the last one takes the
\* services with it.
Unload(e) ==
  /\ entry[e] = "unload"
  /\ registered' = (registered /\ LoadedEntries \ {e} # {})
  /\ entry' = [entry EXCEPT ![e] = IF e \in reloading THEN "setup" ELSE "not_loaded"]
  /\ UNCHANGED <<set_up, todo, reloading>>

Enable(e) ==
  /\ entry[e] = "not_loaded"
  /\ entry' = [entry EXCEPT ![e] = "setup"]
  /\ UNCHANGED <<set_up, registered, todo, reloading>>

\* _entry_ids_for_cleanup_service: one entry, or all that are loaded
ServiceCalled ==
  /\ registered /\ todo = {}
  /\ \E entries \in {{e} : e \in Entry} \union {LoadedEntries} : todo' = entries
  /\ UNCHANGED <<entry, set_up, registered, reloading>>

\* The service looks at an entry and reloads it if it changed anything there, the
\* repair also one that is not loaded; only then it turns to the next.
ServiceStep(e) ==
  /\ e \in todo /\ reloading = {}
  /\ todo' = todo \ {e}
  /\ \/ Unloading(e, TRUE)
     \/ /\ entry[e] \in {"retry", "not_loaded"}
        /\ entry' = [entry EXCEPT ![e] = "setup"]
        /\ reloading' = {e}
     \/ UNCHANGED <<entry, reloading>>
  /\ UNCHANGED <<set_up, registered>>

-----------------------------------------------------------------------------

Init ==
  /\ entry = [e \in Entry |-> "absent"]
  /\ set_up = FALSE
  /\ registered = FALSE
  /\ todo = {}
  /\ reloading = {}

Next ==
  \/ ServiceCalled
  \/ \E e \in Entry : \/ Added(e) \/ SetUp(e) \/ Retry(e) \/ Unload(e) \/ Enable(e)
                      \/ UserUnloads(e) \/ ServiceStep(e)

Spec == Init /\ [][Next]_vars

-----------------------------------------------------------------------------

\* README "The same actions are available as services": whenever an entry is loaded,
\* its services can be called, whatever was reloaded before.
ServicesAvailable == LoadedEntries # {} => registered
=============================================================================
