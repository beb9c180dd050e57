--------------------------- MODULE AtomicCatalog ---------------------------
(***************************************************************************)
(* What the export catalog promises to the rest of the bridge, with its     *)
(* counter, its two files and the steps of a save hidden: one saved         *)
(* catalog, replaced as a whole, and the one that is held while the bridge  *)
(* serves.  ExportCatalog implements it.                                    *)
(***************************************************************************)
EXTENDS Integers

CONSTANTS Exports, Names, EndpointIds, NoId, None

Catalogs == [Exports -> [endpoint : EndpointIds \cup {NoId}, name : Names] \cup {None}]

VARIABLES
    saved, \* survives everything
    held   \* None while the bridge does not serve

Present(catalog) == {e \in Exports : catalog[e] # None}
Ids(catalog) == {catalog[e].endpoint : e \in Present(catalog)} \ {NoId}

\* No two exports have the same id.
Unique(catalog) ==
    \A e, f \in Present(catalog) :
        catalog[e].endpoint = catalog[f].endpoint => e = f \/ catalog[e].endpoint = NoId

Init ==
    /\ saved \in Catalogs
    /\ Unique(saved)
    /\ held = None

\* The bridge comes up with what was saved; an export without an id gets one.
Open ==
    /\ held = None
    /\ held' \in Catalogs
    /\ Present(held') = Present(saved)
    /\ Unique(held')
    /\ NoId \notin {held'[e].endpoint : e \in Present(held')}
    /\ \A e \in Present(saved) :
          /\ held'[e].name = saved[e].name
          /\ saved[e].endpoint # NoId => held'[e].endpoint = saved[e].endpoint
    /\ UNCHANGED saved

\* A new export gets an id nobody holds.
Add(e, id, name) ==
    /\ held # None
    /\ held[e] = None
    /\ id \notin Ids(held)
    /\ held' = [held EXCEPT ![e] = [endpoint |-> id, name |-> name]]
    /\ UNCHANGED saved

\* An export keeps its id as long as it exists.
Rename(e, name) ==
    /\ held # None
    /\ held[e] # None
    /\ held' = [held EXCEPT ![e].name = name]
    /\ UNCHANGED saved

Remove(e) ==
    /\ held # None
    /\ held' = [held EXCEPT ![e] = None]
    /\ UNCHANGED saved

Save ==
    /\ held # None
    /\ saved' = held
    /\ UNCHANGED held

Close ==
    /\ held' = None
    /\ UNCHANGED saved

Next ==
    \/ Open \/ Save \/ Close
    \/ \E e \in Exports, id \in EndpointIds, name \in Names : Add(e, id, name)
    \/ \E e \in Exports, name \in Names : Rename(e, name)
    \/ \E e \in Exports : Remove(e)

Spec == Init /\ [][Next]_<<saved, held>>
=============================================================================
