---------------------------- MODULE DeviceTables ----------------------------
(***************************************************************************)
(* The devices table and the group tables (internal/store/devices.go and   *)
(* groups.go) of one realm.  Every operator below is one SQL statement or  *)
(* one transaction, hence atomic; what the callers do between two of them  *)
(* is in DeviceRequests and Sessions.                                      *)
(*                                                                         *)
(* A credentials secret and a certificate serial are opaque tokens, each   *)
(* named after the request that minted it.  NULL and the empty hash are    *)
(* None.                                                                   *)
(***************************************************************************)
EXTENDS Naturals, FiniteSets

CONSTANTS Devices, Groups, Requests, Aliases, None, NoRow, Old

VARIABLES row,     \* devices: a row, or NoRow
          group    \* groups joined with group_devices: the members, or NoRow

Tokens == Requests \cup {Old}

Status == {"registered", "confirmed", "inhibited"}

Row == [secret: Tokens \cup {None}, status: Status, requested: BOOLEAN,
        cert: Tokens \cup {None}, connected: BOOLEAN, alias: Aliases \cup {None}]

Exists(d) == row[d] # NoRow

(* CountDevices: every row counts, whatever its status. *)
CountDevices == Cardinality({d \in Devices : Exists(d)})

FreshRow(s) ==
  [secret |-> s, status |-> "registered", requested |-> FALSE,
   cert |-> None, connected |-> FALSE, alias |-> None]

(* The ON CONFLICT branch applies only while first_credentials_request IS  *)
(* NULL; the statement touches no row otherwise.                           *)
Registrable(d) == Exists(d) => ~row[d].requested

\* Mutant: the ON CONFLICT branch without its WHERE.
RegisterDeviceRotatesAlways(d, s) ==
  row' = [row EXCEPT ![d] =
            IF @ = NoRow THEN FreshRow(s)
            ELSE [@ EXCEPT !.secret = s, !.status = "registered"]]

RegisterDevice(d, s) ==
  row' = IF Registrable(d)
         THEN [row EXCEPT ![d] =
                 IF @ = NoRow THEN FreshRow(s)
                 ELSE [@ EXCEPT !.secret = s, !.status = "registered"]]
         ELSE row

UnregisterDevice(d) ==
  row' = [row EXCEPT ![d] =
            [@ EXCEPT !.secret = None, !.status = "registered",
                      !.requested = FALSE, !.cert = None]]

SetDeviceInhibited(d, inhibited) ==
  row' = [row EXCEPT ![d].status =
            IF inhibited THEN "inhibited"
            ELSE IF row[d].requested THEN "confirmed" ELSE "registered"]

SetDeviceCredentials(d, serial) ==
  row' = [row EXCEPT ![d] =
            [@ EXCEPT !.cert = serial, !.requested = TRUE, !.status = "confirmed"]]

SetDeviceConnected(d, flag) ==
  row' = IF Exists(d) THEN [row EXCEPT ![d].connected = flag] ELSE row

AliasValuesTaken(d, a) ==
  \E e \in Devices \ {d} : Exists(e) /\ row[e].alias = a

PatchDeviceAliases(d, a) == row' = [row EXCEPT ![d].alias = a]

(* The device's memberships go with its row (ON DELETE CASCADE). *)
DeleteDevice(d) ==
  /\ row' = [row EXCEPT ![d] = NoRow]
  /\ group' = [g \in Groups |->
                IF group[g] = NoRow THEN NoRow
                ELSE group[g] \ {d}]

-----------------------------------------------------------------------------
(* A duplicate name is refused by the UNIQUE constraint. *)
CreateGroup(g) == group' = IF group[g] = NoRow THEN [group EXCEPT ![g] = {}] ELSE group

(* The INSERT ... SELECT finds the group, the foreign key the device; the  *)
(* primary key refuses a second membership.                                *)
CanAdd(g, d) == group[g] # NoRow /\ Exists(d) /\ d \notin group[g]

AddGroupDevice(g, d) ==
  group' = IF CanAdd(g, d) THEN [group EXCEPT ![g] = @ \cup {d}] ELSE group

CanRemove(g, d) == group[g] # NoRow /\ d \in group[g]

RemoveGroupDevice(g, d) ==
  group' = IF CanRemove(g, d) THEN [group EXCEPT ![g] = @ \ {d}] ELSE group
=============================================================================
