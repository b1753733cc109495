------------------------- MODULE MCGarbageSchedule --------------------------
(***************************************************************************)
(* An instance of GarbageSchedule in which one repository has a name that  *)
(* the walk of the collector takes for something else.                     *)
(***************************************************************************)
EXTENDS GarbageSchedule

Off == [enabled |-> FALSE, delay |-> 0, interval |-> 2]
OnOrOff == {Off, [enabled |-> TRUE, delay |-> 1, interval |-> 1]}

\* "manifests/web" is pushed, pulled and deleted like any other repository.
NamesWithManifests == << <<"alpine">>, <<"manifests", "web">>, <<"nginx">> >>

=============================================================================
