------------------------------ MODULE Sessions ------------------------------
(***************************************************************************)
(* MQTT connections of devices (internal/broker): authentication against   *)
(* the device row, the session registry shared by the hooks, the lifecycle *)
(* hook that stamps the row and emits device_connected and                 *)
(* device_disconnected, and the intake hook's publish check -- interleaved *)
(* with the requests of DeviceRequests.                                    *)
(*                                                                         *)
(* The MQTT server library calls the hooks of one connection one after the *)
(* other, and those of different connections concurrently.  Its takeover   *)
(* of the older connection with the same client id is external: it first   *)
(* stops that connection, and marks it taken over only afterwards.         *)
(***************************************************************************)
EXTENDS DeviceRequests, Sequences

CONSTANTS Conns, EnforceLatestCert

ASSUME SessionsAssumption == None \notin Conns /\ None \notin Devices /\ NoRow \notin Row

VARIABLES conn,       \* a connection's progress
          registry,   \* sessionRegistry: device -> owning connection
          client,     \* the library's client table: device -> connection
          taken,      \* connections the library marked taken over
          events,     \* lifecycle events each connection emitted
          admitted,   \* connections in the order they entered the registry
          accepted,   \* connection of the last publish of each device let through
          late        \* publishes handed on of a connection the registry no longer named

tables == <<row, group, req>>
sessions == <<conn, registry, client, taken, events, admitted, accepted, late>>
vars == <<tables, sessions>>

Fresh == [pc |-> "new", dev |-> None, cut |-> FALSE]

SInit(paired) ==
  /\ row = [d \in Devices |->
              IF d \in paired
              THEN [FreshRow(Old) EXCEPT !.requested = TRUE, !.status = "confirmed", !.cert = Old]
              ELSE NoRow]
  /\ group = [g \in Groups |-> NoRow]
  /\ req = [r \in Requests |-> Idle]
  /\ conn = [c \in Conns |-> Fresh]
  /\ registry = [d \in Devices |-> None]
  /\ client = [d \in Devices |-> None]
  /\ taken = {}
  /\ events = [c \in Conns |-> <<>>]
  /\ admitted = <<>>
  /\ accepted = [d \in Devices |-> None]
  /\ late = [c \in Conns |-> 0]

Init == \E paired \in SUBSET Devices : SInit(paired)

Go(c, pc) == conn' = [conn EXCEPT ![c].pc = pc]

-----------------------------------------------------------------------------
(* OnConnectAuthenticate: the device lookup and its verdict. *)
Verdict(d, cert) ==
  /\ Exists(d)
  /\ row[d].status # "inhibited"
  /\ EnforceLatestCert => row[d].cert = cert

OnConnectAuthenticate(c, d, cert) ==
  /\ conn[c].pc = "new"
  /\ conn' = [conn EXCEPT ![c] =
                [pc |-> IF Verdict(d, cert) THEN "admit" ELSE "closed", dev |-> d, cut |-> FALSE]]
  /\ UNCHANGED <<tables, registry, client, taken, events, admitted, accepted, late>>

(* admit: after the ownership load, the registry entry is overwritten. *)
Admit(c) ==
  /\ conn[c].pc = "admit"
  /\ registry' = [registry EXCEPT ![conn[c].dev] = c]
  /\ admitted' = Append(admitted, c)
  /\ Go(c, "inherit")
  /\ UNCHANGED <<tables, client, taken, events, accepted, late>>

(* External: stop the client of the same id, then mark it and replace it. *)
StopExisting(c) ==
  LET old == client[conn[c].dev] IN
  /\ conn[c].pc = "inherit"
  /\ conn' = [x \in Conns |-> IF x = c THEN [conn[c] EXCEPT !.pc = "mark_taken"]
                              ELSE IF x = old THEN [conn[x] EXCEPT !.cut = TRUE]
                              ELSE conn[x]]
  /\ UNCHANGED <<tables, registry, client, taken, events, admitted, accepted, late>>

ReplaceClient(c) ==
  LET d == conn[c].dev IN
  /\ conn[c].pc = "mark_taken"
  /\ taken' = taken \cup ({client[d]} \ {None})
  /\ client' = [client EXCEPT ![d] = c]
  /\ Go(c, "establish")
  /\ UNCHANGED <<tables, registry, events, admitted, accepted, late>>

-----------------------------------------------------------------------------
(* OnSessionEstablished: nothing for a connection that was replaced in the *)
(* registry; otherwise the row, then the event.                            *)
OnSessionEstablished(c) ==
  /\ conn[c].pc = "establish"
  /\ Go(c, IF registry[conn[c].dev] = c THEN "set_connected" ELSE "live")
  /\ UNCHANGED <<tables, registry, client, taken, events, admitted, accepted, late>>

StampConnected(c) ==
  /\ conn[c].pc = "set_connected"
  /\ SetDeviceConnected(conn[c].dev, TRUE)
  /\ Go(c, "emit_connected")
  /\ UNCHANGED <<group, req, registry, client, taken, events, admitted, accepted, late>>

EmitConnected(c) ==
  /\ conn[c].pc = "emit_connected"
  /\ events' = [events EXCEPT ![c] = Append(@, "connected")]
  /\ Go(c, "live")
  /\ UNCHANGED <<tables, registry, client, taken, admitted, accepted, late>>

(* External: the answer to CONNECT, or a queued message after it, cannot be *)
(* written; the library drops the connection and calls no hook.             *)
AttachFails(c) ==
  /\ conn[c].pc = "establish"
  /\ Go(c, "closed")
  /\ UNCHANGED <<tables, registry, client, taken, events, admitted, accepted, late>>

(* The connection ends: by the peer, by the network, or because the server *)
(* stopped it.                                                             *)
ConnectionEnds(c) ==
  /\ conn[c].pc = "live"
  /\ Go(c, "disconnect")
  /\ UNCHANGED <<tables, registry, client, taken, events, admitted, accepted, late>>

\* Mutant: the owner is not compared.
removeIfOwnerDeletesAny(c) ==
  /\ registry' = [registry EXCEPT ![conn[c].dev] = None]
  /\ Go(c, "set_disconnected")

\* Mutant: reports an eviction it did not make.
removeIfOwnerReportsAny(c) ==
  /\ registry' = [registry EXCEPT ![conn[c].dev] = IF @ = c THEN None ELSE @]
  /\ Go(c, "set_disconnected")

(* OnDisconnect -> removeIfOwner. *)
removeIfOwner(c) ==
  IF registry[conn[c].dev] = c
  THEN /\ registry' = [registry EXCEPT ![conn[c].dev] = None]
       /\ Go(c, "set_disconnected")
  ELSE /\ registry' = registry
       /\ Go(c, "closed")

OnDisconnect(c) ==
  /\ conn[c].pc = "disconnect"
  /\ IF c \in taken THEN Go(c, "closed") /\ UNCHANGED registry
                    ELSE removeIfOwner(c)
  /\ UNCHANGED <<tables, client, taken, events, admitted, accepted, late>>

StampDisconnected(c) ==
  /\ conn[c].pc = "set_disconnected"
  /\ SetDeviceConnected(conn[c].dev, FALSE)
  /\ Go(c, "emit_disconnected")
  /\ UNCHANGED <<group, req, registry, client, taken, events, admitted, accepted, late>>

EmitDisconnected(c) ==
  /\ conn[c].pc = "emit_disconnected"
  /\ events' = [events EXCEPT ![c] = Append(@, "disconnected")]
  /\ Go(c, "closed")
  /\ UNCHANGED <<tables, registry, client, taken, admitted, accepted, late>>

-----------------------------------------------------------------------------
\* Mutant: any session of the device will do.
MayPublishAnySession(c) == registry[conn[c].dev] # None

(* OnPublish lets through what comes from the connection the registry      *)
(* names, and then hands it to the engine; no lock spans the two.          *)
MayPublish(c) == registry[conn[c].dev] = c

\* External: a PUBLISH is read from a connection that was not stopped.
ReadPublish(c) ==
  /\ conn[c].pc = "live" /\ ~conn[c].cut
  /\ Go(c, "publish")
  /\ UNCHANGED <<tables, registry, client, taken, events, admitted, accepted, late>>

OnPublish(c) ==
  /\ conn[c].pc = "publish"
  /\ IF MayPublish(c)
     THEN Go(c, "submit") /\ accepted' = [accepted EXCEPT ![conn[c].dev] = c]
     ELSE Go(c, "live") /\ UNCHANGED accepted
  /\ UNCHANGED <<tables, registry, client, taken, events, admitted, late>>

Submit(c) ==
  /\ conn[c].pc = "submit"
  /\ late' = [late EXCEPT ![c] = IF registry[conn[c].dev] = c THEN @ ELSE @ + 1]
  /\ Go(c, "live")
  /\ UNCHANGED <<tables, registry, client, taken, events, admitted, accepted>>

(* realm.DeleteDevice's first step: DisconnectDevice stops the connection  *)
(* the registry names.                                                     *)
DeleteKick(r, d) ==
  /\ Start(r, "delete", "erase", d, None)
  /\ conn' = [c \in Conns |-> IF c = registry[d] THEN [conn[c] EXCEPT !.cut = TRUE] ELSE conn[c]]
  /\ UNCHANGED <<row, group, registry, client, taken, events, admitted, accepted, late>>

ConnStep(c) ==
  \/ \E d \in Devices : \E cert \in HandedCerts(d) : OnConnectAuthenticate(c, d, cert)
  \/ Admit(c) \/ StopExisting(c) \/ ReplaceClient(c)
  \/ OnSessionEstablished(c) \/ StampConnected(c) \/ EmitConnected(c)
  \/ AttachFails(c) \/ ConnectionEnds(c)
  \/ OnDisconnect(c) \/ StampDisconnected(c) \/ EmitDisconnected(c)
  \/ ReadPublish(c) \/ OnPublish(c) \/ Submit(c)

Next ==
  \/ \E r \in Requests : RequestStep(r) /\ UNCHANGED sessions
  \/ \E r \in Requests, d \in Devices : DeleteKick(r, d)
  \/ \E c \in Conns : ConnStep(c)

Spec == Init /\ [][Next]_vars

-----------------------------------------------------------------------------
(* removeIfOwner: a registry entry disappears only with the disconnect of  *)
(* the very connection it names; the late disconnect of a replaced one     *)
(* does not evict its successor.                                           *)
OldDisconnectNeverEvicts ==
  [][\A d \in Devices :
       (registry[d] # None /\ registry'[d] = None)
       => conn[registry[d]].pc = "disconnect" /\ conn'[registry[d]].pc # "disconnect"]_vars

(* The lifecycle hooks pair their events: per connection at most one       *)
(* device_connected, then at most one device_disconnected; a connection    *)
(* replaced before it was established reports neither.  The registry entry *)
(* of a connection that reported device_connected outlives it only when it *)
(* was taken over: any other disconnect removes the entry it owns.  (One   *)
(* whose CONNECT could not be answered also leaves its entry behind: no    *)
(* hook tells of its end.)                                                 *)
PairedEvents ==
  /\ \A c \in Conns :
       events[c] \in {<<>>, <<"connected">>, <<"connected", "disconnected">>}
  /\ \A d \in Devices :
       (registry[d] # None /\ conn[registry[d]].pc = "closed")
       => registry[d] \in taken \/ events[registry[d]] = <<>>

Position(c) == CHOOSE i \in 1..Len(admitted) : admitted[i] = c

(* Once OnPublish has let through a publish of a newer connection of a     *)
(* device, it lets through none of an older one; and of the publishes of a *)
(* connection at most one, let through before its successor was admitted,  *)
(* reaches the engine after that.                                          *)
NoReturnToOldConnection ==
  [][/\ \A d \in Devices :
          (accepted[d] # None /\ accepted'[d] # accepted[d])
          => Position(accepted'[d]) > Position(accepted[d])
     /\ \A c \in Conns : late'[c] <= 1]_vars
=============================================================================
