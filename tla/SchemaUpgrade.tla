---------------------------- MODULE SchemaUpgrade ----------------------------
(***************************************************************************)
(* What whoever deploys the backend may rely on, however many containers   *)
(* start together: the database goes from the schema it was found with to  *)
(* the current one in a single step, once, and stays there.  A container   *)
(* serves from that step on or comes to serve later, and one that fails or *)
(* is killed has changed nothing.  Bootstrap implements this               *)
(* specification.                                                          *)
(***************************************************************************)
CONSTANTS
  Containers,
  Schemas,  \* those that a database may be found with
  Current   \* the one that the code needs

VARIABLES
  schema,   \* that of the database
  serving   \* the containers that serve requests

upgrade == <<schema, serving>>

UpgradeInit == schema \in Schemas /\ serving = {}

Upgrade(c) ==
  /\ schema # Current
  /\ schema' = Current
  /\ serving' = serving \cup {c}

Serve(c) ==
  /\ schema = Current
  /\ serving' = serving \cup {c}
  /\ UNCHANGED schema

Stop(c) == serving' = serving \ {c} /\ UNCHANGED schema

UpgradeNext == \E c \in Containers : Upgrade(c) \/ Serve(c) \/ Stop(c)

UpgradeSpec == UpgradeInit /\ [][UpgradeNext]_upgrade

=============================================================================
