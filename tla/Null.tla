-------------------------------- MODULE Null --------------------------------
(* null of SQL, JSON and TypeScript, for modules that are composed.        *)
CONSTANT NULL
=============================================================================
