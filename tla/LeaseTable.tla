------------------------------ MODULE LeaseTable ------------------------------
(***************************************************************************)
(* What the ResourceManager promises: numbered leases on resources, each   *)
(* granted once and taken back once, several shared ones or a single       *)
(* exclusive one at a time on each resource (LeaseMode,                    *)
(* SDK/include/eon/sdk/ResourceManager.h:20-24).                           *)
(***************************************************************************)
CONSTANTS LeaseId, Resource

LeaseModes == {"Shared", "Exclusive"}

VARIABLES status,   \* per lease: unused, held or returned
          terms     \* per lease: its resource and mode, once it was granted

tableVars == <<status, terms>>

Held(r) == {id \in LeaseId : status[id] = "held" /\ terms[id].resource = r}

TableInit ==
  /\ status = [id \in LeaseId |-> "unused"]
  /\ terms \in [LeaseId -> [resource : Resource, mode : LeaseModes]]

Compatible(r, mode) ==
  \A id \in Held(r) : mode = "Shared" /\ terms[id].mode = "Shared"

Grant(id, r, mode) ==
  /\ status[id] = "unused"
  /\ Compatible(r, mode)
  /\ status' = [status EXCEPT ![id] = "held"]
  /\ terms' = [terms EXCEPT ![id] = [resource |-> r, mode |-> mode]]

TakeBack(id) ==
  /\ status[id] = "held"
  /\ status' = [status EXCEPT ![id] = "returned"]
  /\ UNCHANGED terms

TableNext ==
  \E id \in LeaseId :
    \/ TakeBack(id)
    \/ \E r \in Resource, mode \in LeaseModes : Grant(id, r, mode)

TableSpec == TableInit /\ [][TableNext]_tableVars
===============================================================================
