--------------------------- MODULE MCEventStream ----------------------------
(* Instances of EventStream: how many store calls an event makes.          *)
EXTENDS EventStream

\* A global event; a thread event (get_thread, project_event).
GlobalAndThread == {0, 2}
=============================================================================
