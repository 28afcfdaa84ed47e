--------------------------- MODULE Housekeeping ---------------------------
(***************************************************************************)
(* Realms: their creation, their update by PATCH, the rotation of their    *)
(* keys and their deletion, each as what it answers and the table it       *)
(* leaves.                                                                 *)
(*                                                                         *)
(* realms maps a name to [keys, limit, retention]: key texts as in Access, *)
(* and <<n>> or NoNumber.  The body of a PATCH maps its fields to values,     *)
(* NoNumber for null; an empty key text is <<>>.  A realm's certificate       *)
(* authority and the broker's pool of them are left out.                   *)
(***************************************************************************)
EXTENDS Integers, Sequences
LOCAL INSTANCE Functions

NoNumber == <<>>

BlankKey == <<>>

\* Names the table's constraint refuses.
BadNames == {"", "#"}

Negative(n) == n # NoNumber /\ n[1] < 0

Answer(is, realms) == [is |-> is, realms |-> realms]

InsertRealm(realms, name, row) ==
  IF name \in BadNames THEN Answer("invalid", realms)
  ELSE IF name \in DOMAIN realms THEN Answer("conflict", realms)
  ELSE Answer("ok", [n \in DOMAIN realms \cup {name} |-> IF n = name THEN row ELSE realms[n]])

\* A retention that is left out is the deployment's default.
CreateRealm(realms, name, key, limit, retention, default) ==
  IF key = BlankKey \/ Negative(limit) \/ Negative(retention) THEN Answer("invalid", realms)
  ELSE InsertRealm(realms, name, [keys |-> <<key>>, limit |-> limit,
                                  retention |-> IF retention = NoNumber THEN default ELSE retention])

-----------------------------------------------------------------------------
(* Updates *)

PatchAllowedFields == {"key", "limit", "retention"}

PatchOk(body) ==
  /\ DOMAIN body \subseteq PatchAllowedFields
  /\ "key" \in DOMAIN body => body["key"] # BlankKey
  /\ \A f \in DOMAIN body \ {"key"} : ~Negative(body[f])

\* A ceiling of no seconds is no ceiling.
RealmUpdate(body) ==
  [f \in DOMAIN body |-> IF f = "retention" /\ body[f] = <<0>> THEN NoNumber ELSE body[f]]

Column(row, update, f) == IF f \in DOMAIN update THEN update[f] ELSE row[f]

\* An update of no column asks the table nothing, not even for the realm.
UpdateRealm(realms, name, update) ==
  IF DOMAIN update = {} THEN Answer("ok", realms)
  ELSE IF name \notin DOMAIN realms THEN Answer("not_found", realms)
  ELSE Answer("ok", [realms EXCEPT ![name] =
         [keys |-> IF "key" \in DOMAIN update THEN <<update["key"]>> ELSE @.keys,
          limit |-> Column(@, update, "limit"), retention |-> Column(@, update, "retention")]])

PatchRealm(realms, name, body) ==
  IF PatchOk(body) THEN UpdateRealm(realms, name, RealmUpdate(body)) ELSE Answer("invalid", realms)

SetAuthKey(realms, name, key) ==
  IF key = BlankKey THEN Answer("invalid", realms)
  ELSE IF name \notin DOMAIN realms THEN Answer("not_found", realms)
  ELSE Answer("ok", [realms EXCEPT ![name].keys = <<key>>])

-----------------------------------------------------------------------------
(* Deletion *)

EraseRealm(realms, name) ==
  IF name \notin DOMAIN realms THEN Answer("not_found", realms)
  ELSE Answer("ok", Restrict(realms, DOMAIN realms \ {name}))

\* Refused while the deployment forbids it or a device is connected.
DeleteRealm(realms, name, disabled, connected) ==
  IF disabled THEN Answer("disabled", realms)
  ELSE IF name \in DOMAIN realms /\ connected THEN Answer("connected_devices_present", realms)
  ELSE EraseRealm(realms, name)
=============================================================================
