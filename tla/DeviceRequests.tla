--------------------------- MODULE DeviceRequests ---------------------------
(***************************************************************************)
(* The requests that change a device row: the Pairing API's Register,      *)
(* Unregister and Credentials (internal/pairing/service.go), the AppEngine *)
(* API's device PATCH and groups (internal/appengine/service.go) and Realm *)
(* Management's device deletion (internal/realm/service.go).  Each is      *)
(* served by its own goroutine and holds no lock or transaction across its *)
(* statements, so what it read may be stale when it writes.                *)
(***************************************************************************)
EXTENDS DeviceTables

CONSTANTS Limit     \* device_registration_limit of the realm, None when unset

VARIABLE req

Idle == [op |-> None, pc |-> "idle", dev |-> None, arg |-> None, ids |-> {}, todo |-> {}, ok |-> FALSE]

Start(r, op, pc, d, arg) ==
  /\ req[r].pc = "idle"
  /\ req' = [req EXCEPT ![r] = [Idle EXCEPT !.op = op, !.pc = pc, !.dev = d, !.arg = arg]]

(* A request answered within its first statement. *)
Answer(r, op, d, ok) ==
  /\ req[r].pc = "idle"
  /\ req' = [req EXCEPT ![r] = [Idle EXCEPT !.op = op, !.pc = "done", !.dev = d, !.ok = ok]]

Finish(r, ok) ==
  req' = [req EXCEPT ![r] = [@ EXCEPT !.pc = "done", !.ok = ok, !.ids = {}, !.todo = {}]]

(* Secrets the owner of device d was shown: the initial one, and those of  *)
(* the Register calls that succeeded.                                      *)
ShownSecrets(d) ==
  {Old} \cup {r \in Requests : req[r].op = "register" /\ req[r].dev = d /\ req[r].ok}

(* Certificates the owner of device d was handed. *)
HandedCerts(d) ==
  {Old} \cup {r \in Requests : req[r].op = "credentials" /\ req[r].dev = d /\ req[r].ok}

-----------------------------------------------------------------------------
(* Register: the limit gates every attempt, rotations included. *)
LimitReached == Limit # None /\ CountDevices >= Limit

RegisterCheck(r, d) ==
  /\ IF LimitReached THEN Answer(r, "register", d, FALSE)
                     ELSE Start(r, "register", "store", d, None)
  /\ UNCHANGED <<row, group>>

RegisterStore(r) ==
  /\ req[r].pc = "store"
  /\ RegisterDevice(req[r].dev, r)
  /\ Finish(r, Registrable(req[r].dev))
  /\ UNCHANGED group

Unregister(r, d) ==
  /\ Answer(r, "unregister", d, Exists(d))
  /\ IF Exists(d) THEN UnregisterDevice(d) ELSE UNCHANGED row
  /\ UNCHANGED group

(* authenticateDevice: an empty hash matches no secret. *)
Authentic(d, s) == Exists(d) /\ row[d].secret # None /\ row[d].secret = s

CredentialsCheck(r, d, s) ==
  /\ IF Authentic(d, s) /\ row[d].status # "inhibited"
     THEN Start(r, "credentials", "stamp", d, None)
     ELSE Answer(r, "credentials", d, FALSE)
  /\ UNCHANGED <<row, group>>

CredentialsStamp(r) ==
  /\ req[r].pc = "stamp"
  /\ IF Exists(req[r].dev) THEN SetDeviceCredentials(req[r].dev, r) ELSE UNCHANGED row
  /\ Finish(r, Exists(req[r].dev))
  /\ UNCHANGED group

-----------------------------------------------------------------------------
(* PatchDevice -> applyPatch.  The row is read first; the alias-ownership  *)
(* check and the update are separate statements.                           *)
PatchInhibited(r, d, b) ==
  /\ IF Exists(d) THEN Start(r, "inhibit", "patch", d, b)
                  ELSE Answer(r, "inhibit", d, FALSE)
  /\ UNCHANGED <<row, group>>

PatchAlias(r, d, a) ==
  /\ IF Exists(d) /\ ~AliasValuesTaken(d, a)
     THEN Start(r, "alias", "patch", d, a)
     ELSE Answer(r, "alias", d, FALSE)
  /\ UNCHANGED <<row, group>>

(* The UPDATE of a vanished row matches nothing: ErrNotFound. *)
PatchApply(r) ==
  LET d == req[r].dev IN
  /\ req[r].pc = "patch"
  /\ IF ~Exists(d) THEN UNCHANGED row
     ELSE IF req[r].op = "inhibit" THEN SetDeviceInhibited(d, req[r].arg)
     ELSE PatchDeviceAliases(d, req[r].arg)
  /\ Finish(r, Exists(d))
  /\ UNCHANGED group

(* realm.DeleteDevice once the session is kicked: the rows go in one       *)
(* transaction.  The kick itself is Sessions!DeleteKick.                   *)
DeleteErase(r) ==
  /\ req[r].pc = "erase"
  /\ DeleteDevice(req[r].dev)
  /\ Finish(r, Exists(req[r].dev))

-----------------------------------------------------------------------------
(* CreateGroup: every listed device is looked up, then the group row is    *)
(* inserted, then the members one statement each.                          *)
GroupStart(r, g, S) ==
  /\ req[r].pc = "idle"
  /\ req' = [req EXCEPT ![r] =
               [Idle EXCEPT !.op = "group", !.pc = "check", !.arg = g,
                            !.ids = S, !.todo = S]]
  /\ UNCHANGED <<row, group>>

GroupCheck(r) ==
  /\ req[r].pc = "check"
  /\ \E d \in req[r].todo :
       IF ~Exists(d) THEN Finish(r, FALSE)
       ELSE IF req[r].todo = {d} THEN req' = [req EXCEPT ![r].pc = "create", ![r].todo = {}]
       ELSE req' = [req EXCEPT ![r].todo = @ \ {d}]
  /\ UNCHANGED <<row, group>>

GroupCreate(r) ==
  /\ req[r].pc = "create"
  /\ CreateGroup(req[r].arg)
  /\ IF group[req[r].arg] = NoRow THEN req' = [req EXCEPT ![r].pc = "add"]
                                  ELSE Finish(r, FALSE)
  /\ UNCHANGED row

(* The first insert that fails ends the request with its error. *)
GroupAdd(r) ==
  /\ req[r].pc = "add"
  /\ \E d \in req[r].ids :
       /\ AddGroupDevice(req[r].arg, d)
       /\ IF ~CanAdd(req[r].arg, d) THEN Finish(r, FALSE)
          ELSE IF req[r].ids = {d} THEN Finish(r, TRUE)
          ELSE req' = [req EXCEPT ![r].ids = @ \ {d}]
  /\ UNCHANGED row

(* AddGroupDevice and RemoveGroupDevice: groups are never deleted, so the  *)
(* name lookup before the statement cannot go stale.                       *)
GroupJoin(r, g, d) ==
  /\ Answer(r, "join", d, CanAdd(g, d))
  /\ AddGroupDevice(g, d)
  /\ UNCHANGED row

GroupLeave(r, g, d) ==
  /\ Answer(r, "leave", d, CanRemove(g, d))
  /\ RemoveGroupDevice(g, d)
  /\ UNCHANGED row

RequestStep(r) ==
  \/ \E d \in Devices :
       \/ RegisterCheck(r, d)
       \/ Unregister(r, d)
       \/ \E s \in ShownSecrets(d) : CredentialsCheck(r, d, s)
       \/ \E b \in BOOLEAN : PatchInhibited(r, d, b)
       \/ \E a \in Aliases : PatchAlias(r, d, a)
       \/ \E g \in Groups : GroupJoin(r, g, d) \/ GroupLeave(r, g, d)
  \/ \E g \in Groups, S \in (SUBSET Devices) \ {{}} : GroupStart(r, g, S)
  \/ RegisterStore(r)
  \/ CredentialsStamp(r)
  \/ PatchApply(r)
  \/ DeleteErase(r)
  \/ GroupCheck(r)
  \/ GroupCreate(r)
  \/ GroupAdd(r)

-----------------------------------------------------------------------------
(* Once a device has requested credentials, its secret is not rotated: a   *)
(* Register that raced the first Credentials loses (ErrAlreadyRegistered). *)
(* Only Unregister, which also clears the request mark, may drop it.       *)
ConfirmedKeepsSecret ==
  [][\A d \in Devices :
       (Exists(d) /\ row[d].requested /\ row'[d] # NoRow /\ row'[d].requested)
       => row'[d].secret = row[d].secret]_<<row, group, req>>
=============================================================================
