------------------------- MODULE MCPthreadLifecycle -------------------------
(***************************************************************************)
(* PthreadLifecycle on small instances.  A behaviour plays one scene: who  *)
(* waits for whom and what ends the wait, or what an end has to clean up.  *)
(***************************************************************************)
EXTENDS PthreadLifecycle

MCScenes == {{"join", "signal", "cancel", "state", "exit", "detach"},
             {"join", "cancel", "type", "exit"},
             {"keys", "cancel"},
             {"handlers", "cancel", "state"}}
=============================================================================
