--------------------------- MODULE SessionsProofs ---------------------------
(* Proofs about Sessions, for every value of its constants. *)
EXTENDS Sessions, TLAPS

-----------------------------------------------------------------------------
(* The inductive invariant *)

Operations == {None, "register", "unregister", "credentials", "inhibit", "alias", "delete",
               "group", "join", "leave"}
Steps == {"idle", "done", "store", "stamp", "patch", "erase", "check", "create", "add"}
Arguments == BOOLEAN \cup Aliases \cup Groups \cup {None}

Request == [op : Operations, pc : Steps, dev : Devices \cup {None}, arg : Arguments,
            ids : SUBSET Devices, todo : SUBSET Devices, ok : BOOLEAN]

Positions == {"new", "admit", "inherit", "mark_taken", "establish", "set_connected",
              "emit_connected", "live", "publish", "submit", "disconnect", "set_disconnected",
              "emit_disconnected", "closed"}

\* After the hook of an established session, before that of its end.
Up == {"live", "publish", "submit", "disconnect"}

Connection == [pc : Positions, dev : Devices \cup {None}, cut : BOOLEAN]

RowOk == row \in [Devices -> Row \cup {NoRow}]

\* The requests, with the arguments they still have to use.
ReqOk ==
  /\ req \in [Requests -> Request]
  /\ \A r \in Requests : req[r].pc = "patch" /\ req[r].op # "inhibit" => req[r].arg \in Aliases

Shape ==
  /\ conn \in [Conns -> Connection]
  /\ registry \in [Devices -> Conns \cup {None}]
  /\ accepted \in [Devices -> Conns \cup {None}]
  /\ admitted \in Seq(Conns)
  /\ DOMAIN events = Conns
  /\ \A c \in Conns : conn[c].pc # "new" => conn[c].dev \in Devices

\* What a connection's position says about its events.
Reported(c) ==
  /\ conn[c].pc \in {"new", "admit", "inherit", "mark_taken", "establish", "set_connected",
                     "emit_connected"} => events[c] = <<>>
  /\ conn[c].pc \in Up =>
       \/ events[c] = <<"connected">>
       \/ events[c] = <<>> /\ registry[conn[c].dev] # c
  /\ conn[c].pc \in {"set_disconnected", "emit_disconnected"} => events[c] = <<"connected">>
  /\ events[c] \in {<<>>, <<"connected">>, <<"connected", "disconnected">>}

\* The registry names an admitted connection of the device that has not ended,
\* unless it was taken over or never established.
Registered(d) ==
  registry[d] # None =>
    /\ conn[registry[d]].dev = d
    /\ conn[registry[d]].pc \notin {"new", "admit", "set_disconnected", "emit_disconnected"}
    /\ conn[registry[d]].pc = "closed" => registry[d] \in taken \/ events[registry[d]] = <<>>

\* Each connection is admitted once; the registry names the last one admitted
\* for the device.
Order ==
  /\ \A i, j \in 1..Len(admitted) : admitted[i] = admitted[j] => i = j
  /\ \A i \in 1..Len(admitted) : conn[admitted[i]].pc \notin {"new", "admit"}
  /\ \A d \in Devices :
       registry[d] # None =>
         \E i \in 1..Len(admitted) :
           /\ admitted[i] = registry[d]
           /\ \A j \in 1..Len(admitted) : conn[admitted[j]].dev = d => j <= i
  /\ \A d \in Devices :
       accepted[d] # None =>
         conn[accepted[d]].dev = d /\ \E i \in 1..Len(admitted) : admitted[i] = accepted[d]

SessionInv ==
  Shape /\ Order /\ (\A c \in Conns : Reported(c)) /\ (\A d \in Devices : Registered(d))

IInv == RowOk /\ ReqOk /\ SessionInv

\* Nothing of a connection is late as long as the registry names it, nor while
\* a publish it let through then is on its way to the engine.
LateOk ==
  /\ late \in [Conns -> {0, 1}]
  /\ \A c \in Conns : conn[c].pc \in {"new", "admit", "submit"} => late[c] = 0
  /\ \A d \in Devices : registry[d] # None => late[registry[d]] = 0

-----------------------------------------------------------------------------
(* The devices table: every statement leaves a row or none, and keeps the
   secret of a device that has requested credentials. *)

KeepsSecret ==
  \A d \in Devices :
    (Exists(d) /\ row[d].requested /\ row'[d] # NoRow /\ row'[d].requested)
    => row'[d].secret = row[d].secret

LEMMA RowSame == ASSUME RowOk, row' = row PROVE RowOk' /\ KeepsSecret
BY DEF RowOk, KeepsSecret

LEMMA RowSet ==
  ASSUME RowOk, NEW d, NEW v, row' = [row EXCEPT ![d] = v],
         d \in Devices =>
           /\ v \in Row \cup {NoRow}
           /\ Exists(d) /\ row[d].requested /\ v # NoRow /\ v.requested => v.secret = row[d].secret
  PROVE  RowOk' /\ KeepsSecret
<1>1. \A e \in Devices : row'[e] = IF e = d THEN v ELSE row[e]
  BY DEF RowOk
<1>2. RowOk'
  BY ZenonT(30) DEF RowOk
<1>3. KeepsSecret
  BY <1>1 DEF KeepsSecret
<1>4. QED
  BY <1>2, <1>3

LEMMA RowRegister ==
  ASSUME RowOk, NEW d, NEW s \in Requests, RegisterDevice(d, s)
  PROVE  RowOk' /\ KeepsSecret
<1>1. CASE Registrable(d)
  <2>1. PICK v : v = IF row[d] = NoRow THEN FreshRow(s)
                     ELSE [row[d] EXCEPT !.secret = s, !.status = "registered"]
    OBVIOUS
  <2>2. row' = [row EXCEPT ![d] = v]
    BY <1>1, <2>1 DEF RegisterDevice
  <2>3. ASSUME d \in Devices PROVE v \in Row
    <3>1. CASE row[d] = NoRow
      BY <2>1, <3>1 DEF FreshRow, Row, Tokens, Status
    <3>2. CASE row[d] # NoRow
      <4>1. row[d] \in Row
        BY <2>3, <3>2 DEF RowOk
      <4>2. QED
        BY <2>1, <3>2, <4>1, ZenonT(30) DEF Row, Tokens, Status
    <3>3. QED
      BY <3>1, <3>2
  <2>4. ~(Exists(d) /\ row[d].requested)
    BY <1>1 DEF Registrable
  <2>5. QED
    BY <2>2, <2>3, <2>4, RowSet, ZenonT(30)
<1>2. CASE ~Registrable(d)
  BY <1>2, RowSame DEF RegisterDevice
<1>3. QED
  BY <1>1, <1>2

LEMMA RowUnregister ==
  ASSUME RowOk, NEW d, Exists(d), UnregisterDevice(d)
  PROVE  RowOk' /\ KeepsSecret
<1>1. PICK v : v = [row[d] EXCEPT !.secret = None, !.status = "registered",
                                  !.requested = FALSE, !.cert = None]
  OBVIOUS
<1>2. row' = [row EXCEPT ![d] = v]
  BY <1>1 DEF UnregisterDevice
<1>3. d \in Devices => row[d] \in Row
  BY DEF RowOk, Exists
<1>4. d \in Devices => v \in Row /\ ~v.requested
  BY <1>1, <1>3, ZenonT(30) DEF Row, Status
<1>5. QED
  BY <1>2, <1>4, RowSet, ZenonT(30)

LEMMA RowCredentials ==
  ASSUME RowOk, NEW d, Exists(d), NEW s \in Requests, SetDeviceCredentials(d, s)
  PROVE  RowOk' /\ KeepsSecret
<1>1. PICK v : v = [row[d] EXCEPT !.cert = s, !.requested = TRUE, !.status = "confirmed"]
  OBVIOUS
<1>2. row' = [row EXCEPT ![d] = v]
  BY <1>1 DEF SetDeviceCredentials
<1>3. d \in Devices => row[d] \in Row
  BY DEF RowOk, Exists
<1>4. d \in Devices => v \in Row /\ v.secret = row[d].secret
  BY <1>1, <1>3, ZenonT(30) DEF Row, Status, Tokens
<1>5. QED
  BY <1>2, <1>4, RowSet, ZenonT(30)

LEMMA RowInhibited ==
  ASSUME RowOk, NEW d, Exists(d), NEW b, SetDeviceInhibited(d, b)
  PROVE  RowOk' /\ KeepsSecret
<1>1. PICK x \in Status : x = IF b THEN "inhibited"
                              ELSE IF row[d].requested THEN "confirmed" ELSE "registered"
  BY DEF Status
<1>2. PICK v : v = [row[d] EXCEPT !.status = x]
  BY ZenonT(30)
<1>3. row' = [row EXCEPT ![d] = v]
  BY <1>1, <1>2 DEF SetDeviceInhibited
<1>4. d \in Devices => row[d] \in Row
  BY DEF RowOk, Exists
<1>5. d \in Devices => v \in Row /\ v.secret = row[d].secret
  BY <1>2, <1>4 DEF Row
<1>6. QED
  BY <1>3, <1>5, RowSet, ZenonT(30)

LEMMA RowConnected ==
  ASSUME RowOk, NEW d, NEW b \in BOOLEAN, SetDeviceConnected(d, b)
  PROVE  RowOk' /\ KeepsSecret
<1>1. CASE Exists(d)
  <2>1. PICK v : v = [row[d] EXCEPT !.connected = b]
    BY ZenonT(30)
  <2>2. row' = [row EXCEPT ![d] = v]
    BY <1>1, <2>1 DEF SetDeviceConnected
  <2>3. d \in Devices => row[d] \in Row
    BY <1>1 DEF RowOk, Exists
  <2>4. d \in Devices => v \in Row /\ v.secret = row[d].secret
    BY <2>1, <2>3 DEF Row
  <2>5. QED
    BY <2>2, <2>4, RowSet, ZenonT(30)
<1>2. CASE ~Exists(d)
  BY <1>2, RowSame DEF SetDeviceConnected
<1>3. QED
  BY <1>1, <1>2

LEMMA RowAliases ==
  ASSUME RowOk, NEW d, Exists(d), NEW a \in Aliases, PatchDeviceAliases(d, a)
  PROVE  RowOk' /\ KeepsSecret
<1>1. PICK v : v = [row[d] EXCEPT !.alias = a]
  BY ZenonT(30)
<1>2. row' = [row EXCEPT ![d] = v]
  BY <1>1 DEF PatchDeviceAliases
<1>3. d \in Devices => row[d] \in Row
  BY DEF RowOk, Exists
<1>4. d \in Devices => v \in Row /\ v.secret = row[d].secret
  BY <1>1, <1>3 DEF Row
<1>5. QED
  BY <1>2, <1>4, RowSet, ZenonT(30)

LEMMA RowDelete ==
  ASSUME RowOk, NEW d, DeleteDevice(d)
  PROVE  RowOk' /\ KeepsSecret
BY RowSet, ZenonT(30) DEF DeleteDevice
-----------------------------------------------------------------------------
(* Requests *)

LEMMA ReqSet ==
  ASSUME ReqOk, NEW r \in Requests, NEW v \in Request, req' = [req EXCEPT ![r] = v],
         v.pc = "patch" /\ v.op # "inhibit" => v.arg \in Aliases
  PROVE  ReqOk'
<1>1. \A s \in Requests : req'[s] = IF s = r THEN v ELSE req[s]
  BY DEF ReqOk
<1>2. req' \in [Requests -> Request]
  BY DEF ReqOk
<1>3. QED
  BY <1>1, <1>2 DEF ReqOk

LEMMA ReqSame == ASSUME ReqOk, req' = req PROVE ReqOk'
BY DEF ReqOk

LEMMA Starts ==
  ASSUME ReqOk, NEW r \in Requests, NEW op \in Operations, NEW pc \in Steps, NEW d \in Devices,
         NEW a \in Arguments, Start(r, op, pc, d, a),
         pc = "patch" /\ op # "inhibit" => a \in Aliases
  PROVE  ReqOk'
<1>1. PICK v : v = [Idle EXCEPT !.op = op, !.pc = pc, !.dev = d, !.arg = a]
  OBVIOUS
<1>2. req' = [req EXCEPT ![r] = v]
  BY <1>1 DEF Start
<1>3. v = [op |-> op, pc |-> pc, dev |-> d, arg |-> a, ids |-> {}, todo |-> {}, ok |-> FALSE]
  BY <1>1, ZenonT(30) DEF Idle
<1>4. v \in Request /\ v.pc = pc /\ v.op = op /\ v.arg = a
  BY <1>3 DEF Request
<1>5. QED
  BY <1>2, <1>4, ReqSet, ZenonT(30)

LEMMA Answers ==
  ASSUME ReqOk, NEW r \in Requests, NEW op \in Operations, NEW d \in Devices, NEW ok \in BOOLEAN,
         Answer(r, op, d, ok)
  PROVE  ReqOk'
<1>1. PICK v : v = [Idle EXCEPT !.op = op, !.pc = "done", !.dev = d, !.ok = ok]
  OBVIOUS
<1>2. req' = [req EXCEPT ![r] = v]
  BY <1>1 DEF Answer
<1>3. v = [op |-> op, pc |-> "done", dev |-> d, arg |-> None, ids |-> {}, todo |-> {}, ok |-> ok]
  BY <1>1, ZenonT(30) DEF Idle
<1>4. v \in Request /\ v.pc = "done"
  BY <1>3 DEF Request, Steps, Arguments
<1>5. QED
  BY <1>2, <1>4, ReqSet, ZenonT(30)

LEMMA Finishes ==
  ASSUME ReqOk, NEW r \in Requests, NEW ok \in BOOLEAN, Finish(r, ok)
  PROVE  ReqOk'
<1>1. PICK v : v = [req[r] EXCEPT !.pc = "done", !.ok = ok, !.ids = {}, !.todo = {}]
  OBVIOUS
<1>2. req' = [req EXCEPT ![r] = v]
  BY <1>1 DEF Finish
<1>3. req[r] \in Request
  BY DEF ReqOk
<1>4. v \in Request /\ v.pc = "done"
  BY <1>1, <1>3, ZenonT(30) DEF Request, Steps
<1>5. QED
  BY <1>2, <1>4, ReqSet, ZenonT(30)

\* Requests answered or started by their first statement.
LEMMA RequestBegins ==
  ASSUME RowOk, ReqOk, NEW r \in Requests, NEW d \in Devices,
         \/ RegisterCheck(r, d) \/ Unregister(r, d)
         \/ \E s \in ShownSecrets(d) : CredentialsCheck(r, d, s)
         \/ \E b \in BOOLEAN : PatchInhibited(r, d, b)
         \/ \E a \in Aliases : PatchAlias(r, d, a)
         \/ \E g \in Groups : GroupJoin(r, g, d) \/ GroupLeave(r, g, d)
  PROVE  RowOk' /\ ReqOk' /\ KeepsSecret
<1>0. /\ {"register", "unregister", "credentials", "inhibit", "alias", "join", "leave"} \subseteq Operations
      /\ {"store", "stamp", "patch"} \subseteq Steps
      /\ None \in Arguments /\ BOOLEAN \subseteq Arguments /\ Aliases \subseteq Arguments
      /\ Exists(d) \in BOOLEAN /\ \A g \in Groups : CanAdd(g, d) \in BOOLEAN /\ CanRemove(g, d) \in BOOLEAN
  BY DEF Operations, Steps, Arguments, Exists, CanAdd, CanRemove
<1>1. CASE RegisterCheck(r, d)
  <2>1. \/ Answer(r, "register", d, FALSE)
        \/ Start(r, "register", "store", d, None)
    BY <1>1, ZenonT(30) DEF RegisterCheck
  <2>2. ReqOk'
    BY <1>0, <2>1, Answers, Starts, ZenonT(30)
  <2>3. QED
    BY <1>1, <2>2, RowSame DEF RegisterCheck
<1>2. CASE Unregister(r, d)
  <2>1. Answer(r, "unregister", d, Exists(d)) /\ IF Exists(d) THEN UnregisterDevice(d) ELSE row' = row
    BY <1>2 DEF Unregister
  <2>2. ReqOk'
    BY <1>0, <2>1, Answers
  <2>3. RowOk' /\ KeepsSecret
    BY <2>1, RowUnregister, RowSame
  <2>4. QED
    BY <2>2, <2>3
<1>3. CASE \E s \in ShownSecrets(d) : CredentialsCheck(r, d, s)
  <2>1. \/ Answer(r, "credentials", d, FALSE)
        \/ Start(r, "credentials", "stamp", d, None)
    BY <1>3, ZenonT(30) DEF CredentialsCheck
  <2>2. ReqOk'
    BY <1>0, <2>1, Answers, Starts, ZenonT(30)
  <2>3. QED
    BY <1>3, <2>2, RowSame DEF CredentialsCheck
<1>4. CASE \E b \in BOOLEAN : PatchInhibited(r, d, b)
  <2>1. PICK b \in BOOLEAN : \/ Answer(r, "inhibit", d, FALSE)
                             \/ Start(r, "inhibit", "patch", d, b)
    BY <1>4, ZenonT(30) DEF PatchInhibited
  <2>2. ReqOk'
    BY <1>0, <2>1, Answers, Starts, ZenonT(30)
  <2>3. QED
    BY <1>4, <2>2, RowSame DEF PatchInhibited
<1>5. CASE \E a \in Aliases : PatchAlias(r, d, a)
  <2>1. PICK a \in Aliases : \/ Answer(r, "alias", d, FALSE)
                             \/ Start(r, "alias", "patch", d, a)
    BY <1>5, ZenonT(30) DEF PatchAlias
  <2>2. ReqOk'
    BY <1>0, <2>1, Answers, Starts, ZenonT(30)
  <2>3. QED
    BY <1>5, <2>2, RowSame DEF PatchAlias
<1>6. CASE \E g \in Groups : GroupJoin(r, g, d) \/ GroupLeave(r, g, d)
  <2>1. PICK g \in Groups : \/ Answer(r, "join", d, CanAdd(g, d))
                            \/ Answer(r, "leave", d, CanRemove(g, d))
    BY <1>6 DEF GroupJoin, GroupLeave
  <2>2. ReqOk'
    BY <1>0, <2>1, Answers
  <2>3. QED
    BY <1>6, <2>2, RowSame DEF GroupJoin, GroupLeave
<1>7. QED
  BY <1>1, <1>2, <1>3, <1>4, <1>5, <1>6

\* The statements after the first.
LEMMA RequestGoesOn ==
  ASSUME RowOk, ReqOk, NEW r \in Requests,
         RegisterStore(r) \/ CredentialsStamp(r) \/ PatchApply(r) \/ DeleteErase(r)
  PROVE  RowOk' /\ ReqOk' /\ KeepsSecret
<1>0. Exists(req[r].dev) \in BOOLEAN /\ Registrable(req[r].dev) \in BOOLEAN
  BY DEF Exists, Registrable
<1>1. CASE RegisterStore(r)
  <2>1. RegisterDevice(req[r].dev, r) /\ Finish(r, Registrable(req[r].dev))
    BY <1>1 DEF RegisterStore
  <2>2. QED
    BY <1>0, <2>1, RowRegister, Finishes
<1>2. CASE CredentialsStamp(r)
  <2>1. /\ IF Exists(req[r].dev) THEN SetDeviceCredentials(req[r].dev, r) ELSE row' = row
        /\ Finish(r, Exists(req[r].dev))
    BY <1>2 DEF CredentialsStamp
  <2>2. RowOk' /\ KeepsSecret
    BY <2>1, RowCredentials, RowSame
  <2>3. QED
    BY <1>0, <2>1, <2>2, Finishes
<1>3. CASE PatchApply(r)
  <2>1. PICK d : d = req[r].dev
    OBVIOUS
  <2>2. /\ req[r].pc = "patch" /\ Finish(r, Exists(d))
        /\ IF ~Exists(d) THEN row' = row
           ELSE IF req[r].op = "inhibit" THEN SetDeviceInhibited(d, req[r].arg)
           ELSE PatchDeviceAliases(d, req[r].arg)
    BY <1>3, <2>1 DEF PatchApply
  <2>3. CASE ~Exists(d)
    BY <2>1, <2>2, <2>3, RowSame, <1>0, Finishes
  <2>4. CASE Exists(d) /\ req[r].op = "inhibit"
    <3>1. SetDeviceInhibited(d, req[r].arg)
      BY <2>2, <2>4
    <3>2. RowOk' /\ KeepsSecret
      BY <2>4, <3>1, RowInhibited
    <3>3. QED
      BY <1>0, <2>1, <2>2, <3>2, Finishes
  <2>5. CASE Exists(d) /\ req[r].op # "inhibit"
    <3>1. PatchDeviceAliases(d, req[r].arg) /\ req[r].arg \in Aliases
      BY <2>2, <2>5 DEF ReqOk
    <3>2. RowOk' /\ KeepsSecret
      BY <2>5, <3>1, RowAliases
    <3>3. QED
      BY <1>0, <2>1, <2>2, <3>2, Finishes
  <2>6. QED
    BY <2>3, <2>4, <2>5
<1>4. CASE DeleteErase(r)
  <2>1. DeleteDevice(req[r].dev) /\ Finish(r, Exists(req[r].dev))
    BY <1>4 DEF DeleteErase
  <2>2. QED
    BY <1>0, <2>1, RowDelete, Finishes
<1>5. QED
  BY <1>1, <1>2, <1>3, <1>4

LEMMA GroupRequest ==
  ASSUME RowOk, ReqOk, NEW r \in Requests,
         \/ \E g \in Groups, S \in (SUBSET Devices) \ {{}} : GroupStart(r, g, S)
         \/ GroupCheck(r) \/ GroupCreate(r) \/ GroupAdd(r)
  PROVE  RowOk' /\ ReqOk' /\ KeepsSecret
<1>0. req[r] \in Request /\ {"check", "create", "add"} \subseteq Steps
  BY SMTT(30) DEF ReqOk, Steps
<1>1. RowOk' /\ KeepsSecret
  BY RowSame, ZenonT(30) DEF GroupStart, GroupCheck, GroupCreate, GroupAdd
<1>2. CASE \E g \in Groups, S \in (SUBSET Devices) \ {{}} : GroupStart(r, g, S)
  <2>1. PICK g \in Groups, S \in SUBSET Devices : GroupStart(r, g, S)
    BY <1>2
  <2>2. PICK v : v = [Idle EXCEPT !.op = "group", !.pc = "check", !.arg = g, !.ids = S, !.todo = S]
    OBVIOUS
  <2>3. req' = [req EXCEPT ![r] = v]
    BY <2>1, <2>2, ZenonT(30) DEF GroupStart
  <2>4. v = [op |-> "group", pc |-> "check", dev |-> None, arg |-> g, ids |-> S, todo |-> S, ok |-> FALSE]
    BY <2>2, ZenonT(30) DEF Idle
  <2>5. v \in Request /\ v.pc = "check"
    BY <2>4 DEF Request, Steps, Arguments, Operations
  <2>6. QED
    BY <1>1, <2>3, <2>5, ReqSet, ZenonT(30)
<1>3. CASE GroupCheck(r)
  <2>1. PICK d \in req[r].todo :
          \/ Finish(r, FALSE)
          \/ req' = [req EXCEPT ![r] = [req[r] EXCEPT !.pc = "create", !.todo = {}]]
          \/ req[r].pc = "check" /\ req' = [req EXCEPT ![r] = [req[r] EXCEPT !.todo = req[r].todo \ {d}]]
    <3>1. PICK d \in req[r].todo :
            \/ Finish(r, FALSE)
            \/ req' = [req EXCEPT ![r].pc = "create", ![r].todo = {}]
            \/ req[r].pc = "check" /\ req' = [req EXCEPT ![r].todo = @ \ {d}]
      BY <1>3, ZenonT(30) DEF GroupCheck
    <3>2. [req EXCEPT ![r].pc = "create", ![r].todo = {}]
            = [req EXCEPT ![r] = [req[r] EXCEPT !.pc = "create", !.todo = {}]]
      BY ZenonT(30) DEF ReqOk
    <3>3. QED
      BY <3>1, <3>2, ZenonT(30)
  <2>2. [req[r] EXCEPT !.pc = "create", !.todo = {}] \in Request
        /\ [req[r] EXCEPT !.pc = "create", !.todo = {}].pc = "create"
    BY <1>0, ZenonT(30) DEF Request
  <2>3. [req[r] EXCEPT !.todo = req[r].todo \ {d}] \in Request
        /\ [req[r] EXCEPT !.todo = req[r].todo \ {d}].pc = req[r].pc
    BY <1>0 DEF Request
  <2>4. QED
    BY <1>1, <2>1, <2>2, <2>3, Finishes, ReqSet, ZenonT(30)
<1>4. CASE GroupCreate(r)
  <2>1. Finish(r, FALSE) \/ req' = [req EXCEPT ![r] = [req[r] EXCEPT !.pc = "add"]]
    BY <1>4, ZenonT(30) DEF GroupCreate
  <2>2. [req[r] EXCEPT !.pc = "add"] \in Request /\ [req[r] EXCEPT !.pc = "add"].pc = "add"
    BY <1>0 DEF Request
  <2>3. QED
    BY <1>1, <2>1, <2>2, Finishes, ReqSet, ZenonT(30)
<1>5. CASE GroupAdd(r)
  <2>1. PICK d \in req[r].ids :
          \/ Finish(r, FALSE) \/ Finish(r, TRUE)
          \/ req[r].pc = "add" /\ req' = [req EXCEPT ![r] = [req[r] EXCEPT !.ids = req[r].ids \ {d}]]
    BY <1>5, ZenonT(30) DEF GroupAdd
  <2>2. [req[r] EXCEPT !.ids = req[r].ids \ {d}] \in Request
        /\ [req[r] EXCEPT !.ids = req[r].ids \ {d}].pc = req[r].pc
    BY <1>0 DEF Request
  <2>3. QED
    BY <1>1, <2>1, <2>2, Finishes, ReqSet, ZenonT(30)
<1>6. QED
  BY <1>2, <1>3, <1>4, <1>5

LEMMA RequestKeeps ==
  ASSUME RowOk, ReqOk, NEW r \in Requests, RequestStep(r)
  PROVE  RowOk' /\ ReqOk' /\ KeepsSecret
BY RequestBegins, RequestGoesOn, GroupRequest DEF RequestStep

-----------------------------------------------------------------------------
(* Connections *)

LEMMA SessionsStart == Init => RowOk /\ ReqOk /\ SessionInv
<1> SUFFICES ASSUME NEW paired \in SUBSET Devices, SInit(paired) PROVE RowOk /\ ReqOk /\ SessionInv
  BY DEF Init
<1>1. RowOk
  <2>1. ASSUME NEW d \in Devices PROVE row[d] \in Row \cup {NoRow}
    <3>1. [FreshRow(Old) EXCEPT !.requested = TRUE, !.status = "confirmed", !.cert = Old] \in Row
      BY ZenonT(30) DEF FreshRow, Row, Tokens, Status
    <3>2. QED
      BY <3>1 DEF SInit
  <2>2. QED
    BY <2>1 DEF SInit, RowOk
<1>2. ReqOk
  <2>1. Idle \in Request /\ Idle.pc = "idle"
    BY DEF Idle, Request, Operations, Steps, Arguments
  <2>2. QED
    BY <2>1 DEF SInit, ReqOk
<1>3. Fresh \in Connection /\ Fresh.pc = "new"
  BY DEF Fresh, Connection, Positions
<1>4. Shape
  <2>1. conn \in [Conns -> Connection] /\ \A c \in Conns : conn[c].pc = "new"
    BY <1>3 DEF SInit
  <2>2. admitted \in Seq(Conns)
    BY DEF SInit
  <2>3. QED
    BY <2>1, <2>2 DEF SInit, Shape
<1>5. Order
  <2>1. Len(admitted) = 0 /\ \A d \in Devices : registry[d] = None /\ accepted[d] = None
    BY DEF SInit
  <2>2. QED
    BY <2>1 DEF Order
<1>6. \A c \in Conns : Reported(c)
  BY <1>3 DEF SInit, Reported, Up
<1>7. \A d \in Devices : Registered(d)
  BY DEF SInit, Registered
<1>8. QED
  BY <1>1, <1>2, <1>4, <1>5, <1>6, <1>7 DEF SessionInv

Still(x) == conn'[x].pc = conn[x].pc /\ conn'[x].dev = conn[x].dev /\ events'[x] = events[x]

\* A connection moves on, reports what it should, and is not in the registry
\* when it is on the way out.
Moved(x) ==
  /\ conn[x].pc \notin {"new", "admit"} /\ conn'[x].pc \notin {"new", "admit"}
  /\ conn'[x].dev = conn[x].dev
  /\ Reported(x)'
  /\ registry'[conn[x].dev] = x =>
       /\ conn'[x].pc \notin {"set_disconnected", "emit_disconnected"}
       /\ conn'[x].pc = "closed" => x \in taken' \/ events'[x] = <<>>

\* Steps after the admission of a connection.
LEMMA Steady ==
  ASSUME SessionInv, conn' \in [Conns -> Connection], registry' \in [Devices -> Conns \cup {None}],
         accepted' \in [Devices -> Conns \cup {None}], admitted' = admitted, DOMAIN events' = Conns,
         taken \subseteq taken',
         \A x \in Conns : Still(x) \/ Moved(x),
         \A d \in Devices : registry'[d] \in {registry[d], None},
         \A d \in Devices : accepted'[d] \in {accepted[d], registry[d]}
  PROVE  SessionInv'
<1>0. Shape /\ Order /\ (\A c \in Conns : Reported(c)) /\ (\A d \in Devices : Registered(d))
  BY DEF SessionInv
<1>1. \A x \in Conns : /\ conn'[x].dev = conn[x].dev
                       /\ conn[x].pc \notin {"new", "admit"} => conn'[x].pc \notin {"new", "admit"}
                       /\ conn'[x].pc = "new" <=> conn[x].pc = "new"
  BY DEF Still, Moved
<1>2. Shape'
  BY <1>0, <1>1 DEF Shape
<1>3. None \notin Conns
  BY SessionsAssumption
<1>4. Order'
  <2>1. \A i \in 1..Len(admitted) : admitted[i] \in Conns
    BY <1>0 DEF Shape
  <2>2. \A i, j \in 1..Len(admitted') : admitted'[i] = admitted'[j] => i = j
    BY <1>0 DEF Order
  <2>3. \A i \in 1..Len(admitted') : conn'[admitted'[i]].pc \notin {"new", "admit"}
    BY <1>0, <1>1, <2>1 DEF Order
  <2>4. ASSUME NEW d \in Devices, registry'[d] # None
        PROVE  \E i \in 1..Len(admitted') :
                 /\ admitted'[i] = registry'[d]
                 /\ \A j \in 1..Len(admitted') : conn'[admitted'[j]].dev = d => j <= i
    <3>1. registry'[d] = registry[d] /\ registry[d] # None
      BY <2>4
    <3>2. PICK i \in 1..Len(admitted) :
             /\ admitted[i] = registry[d]
             /\ \A j \in 1..Len(admitted) : conn[admitted[j]].dev = d => j <= i
      BY <1>0, <3>1 DEF Order
    <3>3. QED
      BY <1>1, <2>1, <3>1, <3>2
  <2>5. ASSUME NEW d \in Devices, accepted'[d] # None
        PROVE  conn'[accepted'[d]].dev = d /\ \E i \in 1..Len(admitted') : admitted'[i] = accepted'[d]
    <3>1. accepted'[d] \in Conns
      BY <2>5
    <3>2. conn[accepted'[d]].dev = d /\ \E i \in 1..Len(admitted) : admitted[i] = accepted'[d]
      <4>1. CASE accepted'[d] = accepted[d]
        BY <1>0, <2>5, <4>1 DEF Order
      <4>2. CASE accepted'[d] = registry[d]
        BY <1>0, <2>5, <4>2 DEF Order, Registered
      <4>3. QED
        BY <4>1, <4>2
    <3>3. QED
      BY <1>1, <3>1, <3>2
  <2>6. QED
    BY <2>2, <2>3, <2>4, <2>5 DEF Order
<1>5. ASSUME NEW c \in Conns PROVE Reported(c)'
  <2>1. CASE Moved(c)
    BY <2>1 DEF Moved
  <2>2. CASE Still(c)
    <3>1. Reported(c) /\ conn'[c].pc = conn[c].pc /\ conn'[c].dev = conn[c].dev /\ events'[c] = events[c]
      BY <1>0, <2>2 DEF Still
    <3>2. conn[c].pc \in Up /\ registry[conn[c].dev] # c
            => registry'[conn[c].dev] # c
      BY <1>0, <1>3 DEF Shape, Up
    <3>3. QED
      BY <3>1, <3>2 DEF Reported, Up
  <2>3. QED
    BY <2>1, <2>2
<1>6. ASSUME NEW d \in Devices PROVE Registered(d)'
  <2>1. SUFFICES ASSUME registry'[d] # None
                 PROVE  /\ conn'[registry'[d]].dev = d
                        /\ conn'[registry'[d]].pc \notin {"new", "admit", "set_disconnected", "emit_disconnected"}
                        /\ conn'[registry'[d]].pc = "closed" =>
                             registry'[d] \in taken' \/ events'[registry'[d]] = <<>>
    BY DEF Registered
  <2>2. PICK c \in Conns : c = registry[d] /\ c = registry'[d]
    BY <2>1
  <2>3. /\ conn[c].dev = d /\ conn[c].pc \notin {"new", "admit", "set_disconnected", "emit_disconnected"}
        /\ conn[c].pc = "closed" => c \in taken \/ events[c] = <<>>
    BY <1>0, <1>3, <2>2 DEF Registered
  <2>4. conn'[c].dev = d /\ conn'[c].pc \notin {"new", "admit"}
    BY <1>1, <2>3
  <2>5. conn'[c].pc \notin {"set_disconnected", "emit_disconnected"} 
        /\ (conn'[c].pc = "closed" => c \in taken' \/ events'[c] = <<>>)
    BY <2>2, <2>3 DEF Still, Moved
  <2>6. QED
    BY <2>2, <2>4, <2>5
<1>7. QED
  BY <1>2, <1>4, <1>5, <1>6 DEF SessionInv

LEMMA AppendToOne == ASSUME NEW a, NEW b PROVE Append(<<a>>, b) = <<a, b>>
<1>1. <<a>> \in Seq({a, b}) /\ <<a, b>> \in Seq({a, b})
  OBVIOUS
<1>2. PICK u \in Seq({a, b}) : u = <<a>>
  BY <1>1, ZenonT(30)
<1>3. PICK t \in Seq({a, b}) : t = <<a, b>>
  BY <1>1, ZenonT(30)
<1>4. Append(u, b) \in Seq({a, b}) /\ Len(Append(u, b)) = Len(u) + 1
      /\ Append(u, b)[Len(u) + 1] = b /\ \A i \in 1..Len(u) : Append(u, b)[i] = u[i]
  OBVIOUS
<1>5. Len(u) = 1 /\ u[1] = a
  BY <1>2
<1>6. Len(t) = 2 /\ t[1] = a /\ t[2] = b
  BY <1>3
<1>7. Append(u, b) = t
  BY <1>4, <1>5, <1>6
<1>8. QED
  BY <1>2, <1>3, <1>7

\* What a step may do to the registry and to the accepted publishes.
EvictsOwn ==
  \A d \in Devices :
    (registry[d] # None /\ registry'[d] = None)
    => conn[registry[d]].pc = "disconnect" /\ conn'[registry[d]].pc # "disconnect"

AcceptsNewer ==
  \A d \in Devices :
    (accepted[d] # None /\ accepted'[d] # accepted[d])
    => Position(accepted'[d]) > Position(accepted[d])

Keeps == SessionInv' /\ EvictsOwn /\ AcceptsNewer

LEMMA Goes ==
  ASSUME Shape, NEW c \in Conns, NEW to \in Positions, Go(c, to)
  PROVE  /\ conn' \in [Conns -> Connection]
         /\ conn'[c].pc = to /\ conn'[c].dev = conn[c].dev
         /\ \A x \in Conns : x # c => conn'[x] = conn[x]
<1>1. PICK v : v = [conn[c] EXCEPT !.pc = to]
  BY ZenonT(30)
<1>2. conn' = [conn EXCEPT ![c] = v]
  BY <1>1 DEF Go
<1>3. v \in Connection /\ v.pc = to /\ v.dev = conn[c].dev
  BY <1>1 DEF Shape, Connection
<1>4. QED
  BY <1>2, <1>3 DEF Shape

LEMMA AuthenticateKeeps ==
  ASSUME SessionInv, NEW c \in Conns, NEW d \in Devices, NEW cert, OnConnectAuthenticate(c, d, cert)
  PROVE  Keeps
<1>0. Shape /\ Order /\ (\A x \in Conns : Reported(x)) /\ (\A e \in Devices : Registered(e))
  BY DEF SessionInv
<1>1. PICK v \in Connection :
        /\ v.pc \in {"admit", "closed"} /\ v.dev = d /\ conn' = [conn EXCEPT ![c] = v]
  <2>1. PICK pc \in {"admit", "closed"} : pc = IF Verdict(d, cert) THEN "admit" ELSE "closed"
    OBVIOUS
  <2>2. conn' = [conn EXCEPT ![c] = [pc |-> pc, dev |-> d, cut |-> FALSE]]
    BY <2>1 DEF OnConnectAuthenticate
  <2>3. QED
    BY <2>2, ZenonT(30) DEF Connection, Positions
<1>2. /\ conn[c].pc = "new" /\ registry' = registry /\ taken' = taken /\ events' = events
      /\ admitted' = admitted /\ accepted' = accepted
  BY DEF OnConnectAuthenticate
<1>3. /\ conn' \in [Conns -> Connection] /\ conn'[c] = v
      /\ \A x \in Conns : x # c => conn'[x] = conn[x]
  BY <1>0, <1>1 DEF Shape
<1>4. Shape'
  BY <1>0, <1>1, <1>2, <1>3 DEF Shape
<1>5. \A i \in 1..Len(admitted) : admitted[i] \in Conns /\ admitted[i] # c
  BY <1>0, <1>2 DEF Shape, Order
<1>6. \A e \in Devices : registry[e] # c /\ accepted[e] # c
  <2>1. \A e \in Devices : registry[e] # c
    BY <1>0, <1>2, SessionsAssumption DEF Registered
  <2>2. \A e \in Devices : accepted[e] # c
    BY <1>0, <1>5, SessionsAssumption DEF Order
  <2>3. QED
    BY <2>1, <2>2
<1>7. \A e \in Devices : /\ registry[e] # None => registry[e] \in Conns
                         /\ accepted[e] # None => accepted[e] \in Conns
  BY <1>0 DEF Shape
<1>8. Order'
  <2>1. \A i, j \in 1..Len(admitted') : admitted'[i] = admitted'[j] => i = j
    BY <1>0, <1>2 DEF Order
  <2>2. \A i \in 1..Len(admitted') : conn'[admitted'[i]].pc \notin {"new", "admit"}
    BY <1>0, <1>2, <1>3, <1>5 DEF Order
  <2>3. ASSUME NEW e \in Devices, registry'[e] # None
        PROVE  \E i \in 1..Len(admitted') :
                 /\ admitted'[i] = registry'[e]
                 /\ \A j \in 1..Len(admitted') : conn'[admitted'[j]].dev = e => j <= i
    <3>1. PICK i \in 1..Len(admitted) :
             /\ admitted[i] = registry[e]
             /\ \A j \in 1..Len(admitted) : conn[admitted[j]].dev = e => j <= i
      BY <1>0, <1>2, <2>3 DEF Order
    <3>2. QED
      BY <1>2, <1>3, <1>5, <3>1
  <2>4. ASSUME NEW e \in Devices, accepted'[e] # None
        PROVE  conn'[accepted'[e]].dev = e /\ \E i \in 1..Len(admitted') : admitted'[i] = accepted'[e]
    BY <1>0, <1>2, <1>3, <1>6, <1>7, <2>4 DEF Order
  <2>5. QED
    BY <2>1, <2>2, <2>3, <2>4 DEF Order
<1>9. ASSUME NEW x \in Conns PROVE Reported(x)'
  <2>1. CASE x = c
    BY <1>0, <1>1, <1>2, <1>3, <2>1 DEF Reported, Up
  <2>2. CASE x # c
    BY <1>0, <1>2, <1>3, <2>2 DEF Reported, Up
  <2>3. QED
    BY <2>1, <2>2
<1>10. ASSUME NEW e \in Devices PROVE Registered(e)'
  BY <1>0, <1>2, <1>3, <1>6, <1>7 DEF Registered
<1>11. EvictsOwn /\ AcceptsNewer
  BY <1>2 DEF EvictsOwn, AcceptsNewer
<1>12. QED
  BY <1>4, <1>8, <1>9, <1>10, <1>11 DEF SessionInv, Keeps

LEMMA AdmitKeeps ==
  ASSUME SessionInv, NEW c \in Conns, Admit(c)
  PROVE  Keeps
<1>0. Shape /\ Order /\ (\A x \in Conns : Reported(x)) /\ (\A e \in Devices : Registered(e))
  BY DEF SessionInv
<1>1. PICK d \in Devices : d = conn[c].dev
  BY <1>0 DEF Shape, Admit
<1>2. /\ conn[c].pc = "admit" /\ registry' = [registry EXCEPT ![d] = c] /\ admitted' = Append(admitted, c)
      /\ Go(c, "inherit") /\ taken' = taken /\ events' = events /\ accepted' = accepted
  BY <1>1 DEF Admit
<1>3. /\ conn' \in [Conns -> Connection] /\ conn'[c].pc = "inherit" /\ conn'[c].dev = d
      /\ \A x \in Conns : x # c => conn'[x] = conn[x]
  BY <1>0, <1>1, <1>2, Goes DEF Positions
<1>4. /\ registry' \in [Devices -> Conns \cup {None}] /\ registry'[d] = c
      /\ \A e \in Devices : e # d => registry'[e] = registry[e]
  BY <1>0, <1>2 DEF Shape
<1>5. /\ Len(admitted) \in Nat /\ Len(admitted') = Len(admitted) + 1 /\ admitted' \in Seq(Conns)
      /\ admitted'[Len(admitted) + 1] = c
      /\ \A i \in 1..Len(admitted) : admitted'[i] = admitted[i] /\ admitted[i] \in Conns
  BY <1>0, <1>2 DEF Shape
<1>6. PICK n \in Nat : n = Len(admitted)
  BY <1>5
<1>7. 1..Len(admitted') = 1..n + 1 /\ \A i \in 1..n + 1 : i \in 1..n \/ i = n + 1
  BY <1>5, <1>6
<1>8. 1..n \subseteq 1..n + 1 /\ n + 1 \in 1..n + 1 /\ \A i \in 1..n : i <= n + 1
  BY <1>6
<1>9. Shape'
  BY <1>0, <1>2, <1>3, <1>4, <1>5, SMTT(30) DEF Shape
<1>10. \A i \in 1..n : admitted[i] # c
  BY <1>0, <1>2, <1>6 DEF Order
<1>11. \A e \in Devices : registry[e] # c /\ accepted[e] # c
  <2>1. \A e \in Devices : registry[e] # c
    BY <1>0, <1>2, SessionsAssumption DEF Registered
  <2>2. \A e \in Devices : accepted[e] # c
    BY <1>0, <1>6, <1>10, SessionsAssumption DEF Order
  <2>3. QED
    BY <2>1, <2>2
<1>12. \A e \in Devices : /\ registry[e] # None => registry[e] \in Conns
                          /\ accepted[e] # None => accepted[e] \in Conns
  BY <1>0 DEF Shape
<1>13. Order'
  <2>1. \A i, j \in 1..n + 1 : admitted'[i] = admitted'[j] => i = j
    <3>1. \A i, j \in 1..n : admitted[i] = admitted[j] => i = j
      BY <1>0, <1>6 DEF Order
    <3>2. QED
      BY <1>5, <1>6, <1>7, <1>10, <3>1
  <2>2. \A i \in 1..n + 1 : conn'[admitted'[i]].pc \notin {"new", "admit"}
    <3>1. \A i \in 1..n : conn[admitted[i]].pc \notin {"new", "admit"}
      BY <1>0, <1>6 DEF Order
    <3>2. QED
      BY <1>3, <1>5, <1>6, <1>7, <1>10, <3>1
  <2>3. ASSUME NEW e \in Devices, registry'[e] # None
        PROVE  \E i \in 1..n + 1 : /\ admitted'[i] = registry'[e]
                                   /\ \A j \in 1..n + 1 : conn'[admitted'[j]].dev = e => j <= i
    <3>1. CASE e = d
      <4>1. admitted'[n + 1] = registry'[e] /\ \A j \in 1..n + 1 : j <= n + 1
        BY <1>4, <1>5, <1>6, <3>1
      <4>2. QED
        BY <1>8, <4>1
    <3>2. CASE e # d
      <4>1. PICK i \in 1..n : /\ admitted[i] = registry[e]
                              /\ \A j \in 1..n : conn[admitted[j]].dev = e => j <= i
        BY <1>0, <1>4, <1>6, <2>3, <3>2 DEF Order
      <4>2. admitted'[i] = registry'[e]
        BY <1>4, <1>5, <1>6, <3>2, <4>1
      <4>3. \A j \in 1..n : conn'[admitted'[j]].dev = e => j <= i
        BY <1>3, <1>5, <1>6, <1>10, <4>1
      <4>4. conn'[admitted'[n + 1]].dev # e
        BY <1>3, <1>5, <1>6, <3>2
      <4>5. QED
        BY <1>7, <1>8, <4>2, <4>3, <4>4
    <3>3. QED
      BY <3>1, <3>2
  <2>4. ASSUME NEW e \in Devices, accepted'[e] # None
        PROVE  conn'[accepted'[e]].dev = e /\ \E i \in 1..n + 1 : admitted'[i] = accepted'[e]
    <3>1. conn[accepted[e]].dev = e /\ \E i \in 1..n : admitted[i] = accepted[e]
      BY <1>0, <1>2, <1>6, <2>4 DEF Order
    <3>2. QED
      BY <1>2, <1>3, <1>5, <1>6, <1>8, <1>11, <1>12, <2>4, <3>1
  <2>5. QED
    BY <1>7, <2>1, <2>2, <2>3, <2>4 DEF Order
<1>14. ASSUME NEW x \in Conns PROVE Reported(x)'
  <2>1. CASE x = c
    BY <1>0, <1>2, <1>3, <2>1 DEF Reported, Up
  <2>2. CASE x # c
    <3>1. conn[x].pc \in Up /\ registry[conn[x].dev] # x
            => registry'[conn[x].dev] # x
      BY <1>0, <1>4, <2>2 DEF Shape, Up
    <3>2. QED
      BY <1>0, <1>2, <1>3, <2>2, <3>1 DEF Reported, Up
  <2>3. QED
    BY <2>1, <2>2
<1>15. ASSUME NEW e \in Devices PROVE Registered(e)'
  <2>1. CASE e = d
    BY <1>3, <1>4, <2>1 DEF Registered
  <2>2. CASE e # d
    BY <1>0, <1>2, <1>3, <1>4, <1>11, <1>12, <2>2 DEF Registered
  <2>3. QED
    BY <2>1, <2>2
<1>16. EvictsOwn /\ AcceptsNewer
  BY <1>2, <1>4, SessionsAssumption DEF EvictsOwn, AcceptsNewer
<1>17. QED
  BY <1>9, <1>13, <1>14, <1>15, <1>16 DEF SessionInv, Keeps

\* A step that only moves the connection on.
LEMMA MoveKeeps ==
  ASSUME SessionInv, NEW c \in Conns, NEW to \in Positions, Go(c, to),
         conn[c].pc \notin {"new", "admit"}, to \notin {"new", "admit"},
         registry' = registry, admitted' = admitted, accepted' = accepted, taken \subseteq taken',
         DOMAIN events' = Conns, \A x \in Conns : x # c => events'[x] = events[x],
         Reported(c)',
         registry[conn[c].dev] = c => /\ to \notin {"set_disconnected", "emit_disconnected"}
                                      /\ to = "closed" => c \in taken' \/ events'[c] = <<>>
  PROVE  Keeps
<1>0. Shape
  BY DEF SessionInv
<1>1. /\ conn' \in [Conns -> Connection]
      /\ conn'[c].pc = to /\ conn'[c].dev = conn[c].dev
      /\ \A x \in Conns : x # c => conn'[x] = conn[x]
  BY <1>0, Goes
<1>2. \A x \in Conns : Still(x) \/ Moved(x)
  BY <1>1 DEF Still, Moved
<1>3. SessionInv'
  BY <1>0, <1>1, <1>2, Steady DEF Shape
<1>4. EvictsOwn /\ AcceptsNewer
  BY DEF EvictsOwn, AcceptsNewer
<1>5. QED
  BY <1>3, <1>4 DEF Keeps

\* A step that marks connections as stopped by the server.
LEMMA CutKeeps ==
  ASSUME SessionInv, conn' \in [Conns -> Connection],
         \A x \in Conns : conn'[x].pc = conn[x].pc /\ conn'[x].dev = conn[x].dev,
         registry' = registry, admitted' = admitted, accepted' = accepted, taken' = taken,
         events' = events
  PROVE  Keeps
<1>1. Shape /\ \A x \in Conns : Still(x)
  BY DEF SessionInv, Still
<1>2. SessionInv'
  BY <1>1, Steady DEF Shape
<1>3. EvictsOwn /\ AcceptsNewer
  BY DEF EvictsOwn, AcceptsNewer
<1>4. QED
  BY <1>2, <1>3 DEF Keeps

LEMMA EstablishKeeps ==
  ASSUME SessionInv, NEW c \in Conns,
         \/ StopExisting(c) \/ ReplaceClient(c) \/ AttachFails(c)
         \/ OnSessionEstablished(c) \/ StampConnected(c) \/ EmitConnected(c)
  PROVE  Keeps
<1>0. Shape /\ Reported(c)
  BY DEF SessionInv
<1>1. conn[c].pc \in {"inherit", "mark_taken", "establish", "set_connected", "emit_connected"}
      /\ events[c] = <<>> /\ conn[c].dev \in Devices /\ DOMAIN events = Conns
  BY <1>0, ZenonT(30) DEF StopExisting, ReplaceClient, AttachFails, OnSessionEstablished, StampConnected,
              EmitConnected, Reported, Shape
<1>2. CASE StopExisting(c)
  <2>1. PICK old : old = client[conn[c].dev]
    OBVIOUS
  <2>2. /\ conn[c].pc = "inherit"
        /\ conn' = [x \in Conns |-> IF x = c THEN [conn[c] EXCEPT !.pc = "mark_taken"]
                                    ELSE IF x = old THEN [conn[x] EXCEPT !.cut = TRUE]
                                    ELSE conn[x]]
        /\ registry' = registry /\ taken' = taken /\ events' = events
        /\ admitted' = admitted /\ accepted' = accepted
    BY <1>2, <2>1 DEF StopExisting
  <2>3. ASSUME NEW x \in Conns
        PROVE  /\ [conn[x] EXCEPT !.pc = "mark_taken"] \in Connection
               /\ [conn[x] EXCEPT !.pc = "mark_taken"].pc = "mark_taken"
               /\ [conn[x] EXCEPT !.pc = "mark_taken"].dev = conn[x].dev
               /\ [conn[x] EXCEPT !.cut = TRUE] \in Connection
               /\ [conn[x] EXCEPT !.cut = TRUE].pc = conn[x].pc
               /\ [conn[x] EXCEPT !.cut = TRUE].dev = conn[x].dev
    <3>1. conn[x] \in Connection
      BY <1>0 DEF Shape
    <3>2. QED
      BY <3>1, ZenonT(30) DEF Connection, Positions
  <2>4. /\ conn' \in [Conns -> Connection]
        /\ conn'[c].pc = "mark_taken" /\ conn'[c].dev = conn[c].dev
        /\ \A x \in Conns : x # c => conn'[x].pc = conn[x].pc /\ conn'[x].dev = conn[x].dev
    <3>1. conn' \in [Conns -> Connection]
      BY <1>0, <2>2, <2>3, ZenonT(30) DEF Shape
    <3>2. QED
      BY <2>2, <2>3, <3>1, ZenonT(30)
  <2>5. Reported(c)'
    BY <1>1, <2>2, <2>4 DEF Reported, Up
  <2>6. \A x \in Conns : Still(x) \/ Moved(x)
    BY <2>2, <2>4, <2>5 DEF Still, Moved
  <2>7. SessionInv'
    BY <1>0, <2>2, <2>4, <2>6, Steady, SMTT(30) DEF Shape
  <2>8. EvictsOwn /\ AcceptsNewer
    BY <2>2 DEF EvictsOwn, AcceptsNewer
  <2>9. QED
    BY <2>7, <2>8 DEF Keeps
<1>3. CASE ReplaceClient(c)
  <2>1. /\ Go(c, "establish") /\ taken \subseteq taken' /\ registry' = registry
        /\ events' = events /\ admitted' = admitted /\ accepted' = accepted
    BY <1>3 DEF ReplaceClient
  <2>2. "establish" \in Positions /\ conn'[c].pc = "establish"
    BY <1>0, <2>1, Goes DEF Positions
  <2>3. Reported(c)'
    BY <1>1, <2>1, <2>2 DEF Reported, Up
  <2>4. QED
    BY <1>1, <2>1, <2>2, <2>3, MoveKeeps
<1>4. CASE OnSessionEstablished(c)
  <2>1. /\ registry' = registry /\ taken' = taken
        /\ events' = events /\ admitted' = admitted /\ accepted' = accepted
    BY <1>4 DEF OnSessionEstablished
  <2>2. CASE registry[conn[c].dev] = c
    <3>1. Go(c, "set_connected")
      BY <1>4, <2>2 DEF OnSessionEstablished
    <3>2. "set_connected" \in Positions /\ conn'[c].pc = "set_connected"
      BY <1>0, <3>1, Goes DEF Positions
    <3>3. Reported(c)'
      BY <1>1, <2>1, <3>2 DEF Reported, Up
    <3>4. QED
      BY <1>1, <2>1, <3>1, <3>2, <3>3, MoveKeeps
  <2>3. CASE registry[conn[c].dev] # c
    <3>1. Go(c, "live")
      BY <1>4, <2>3 DEF OnSessionEstablished
    <3>2. "live" \in Positions /\ conn'[c].pc = "live" /\ conn'[c].dev = conn[c].dev
      BY <1>0, <3>1, Goes DEF Positions
    <3>3. Reported(c)'
      BY <1>1, <2>1, <2>3, <3>2 DEF Reported, Up
    <3>4. QED
      BY <1>1, <2>1, <3>1, <3>2, <3>3, MoveKeeps
  <2>4. QED
    BY <2>2, <2>3
<1>5. CASE StampConnected(c)
  <2>1. /\ Go(c, "emit_connected") /\ taken' = taken /\ registry' = registry
        /\ events' = events /\ admitted' = admitted /\ accepted' = accepted
    BY <1>5 DEF StampConnected
  <2>2. "emit_connected" \in Positions /\ conn'[c].pc = "emit_connected"
    BY <1>0, <2>1, Goes DEF Positions
  <2>3. Reported(c)'
    BY <1>1, <2>1, <2>2 DEF Reported, Up
  <2>4. QED
    BY <1>1, <2>1, <2>2, <2>3, MoveKeeps
<1>6. CASE EmitConnected(c)
  <2>1. /\ Go(c, "live") /\ taken' = taken /\ registry' = registry
        /\ events' = [events EXCEPT ![c] = Append(events[c], "connected")]
        /\ admitted' = admitted /\ accepted' = accepted
    BY <1>6 DEF EmitConnected
  <2>2. "live" \in Positions /\ conn'[c].pc = "live"
    BY <1>0, <2>1, Goes DEF Positions
  <2>3. Append(events[c], "connected") = <<"connected">>
    BY <1>1
  <2>4. events'[c] = <<"connected">> /\ DOMAIN events' = Conns
        /\ \A x \in Conns : x # c => events'[x] = events[x]
    BY <1>1, <2>1, <2>3
  <2>5. Reported(c)'
    BY <2>2, <2>4 DEF Reported, Up
  <2>6. QED
    BY <1>1, <2>1, <2>2, <2>4, <2>5, MoveKeeps, SMTT(30)
<1>7. CASE AttachFails(c)
  <2>1. /\ Go(c, "closed") /\ taken' = taken /\ registry' = registry
        /\ events' = events /\ admitted' = admitted /\ accepted' = accepted
    BY <1>7 DEF AttachFails
  <2>2. "closed" \in Positions /\ conn'[c].pc = "closed"
    BY <1>0, <2>1, Goes DEF Positions
  <2>3. Reported(c)'
    BY <1>1, <2>1, <2>2 DEF Reported, Up
  <2>4. QED
    BY <1>1, <2>1, <2>2, <2>3, MoveKeeps
<1>8. QED
  BY <1>2, <1>3, <1>4, <1>5, <1>6, <1>7

LEMMA DisconnectKeeps ==
  ASSUME SessionInv, NEW c \in Conns,
         ConnectionEnds(c) \/ OnDisconnect(c) \/ StampDisconnected(c) \/ EmitDisconnected(c)
  PROVE  Keeps
<1>0. Shape /\ Reported(c) /\ \A d \in Devices : Registered(d)
  BY DEF SessionInv
<1>1. conn[c].pc \in {"live", "disconnect", "set_disconnected", "emit_disconnected"}
      /\ conn[c].dev \in Devices /\ DOMAIN events = Conns
  BY <1>0, ZenonT(30) DEF ConnectionEnds, OnDisconnect, StampDisconnected, EmitDisconnected, Shape
<1>2. CASE ConnectionEnds(c)
  <2>1. /\ Go(c, "disconnect") /\ taken' = taken /\ registry' = registry /\ conn[c].pc = "live"
        /\ events' = events /\ admitted' = admitted /\ accepted' = accepted
    BY <1>2 DEF ConnectionEnds
  <2>2. "disconnect" \in Positions /\ conn'[c].pc = "disconnect" /\ conn'[c].dev = conn[c].dev
    BY <1>0, <2>1, Goes DEF Positions
  <2>3. Reported(c)'
    BY <1>0, <2>1, <2>2 DEF Reported, Up
  <2>4. QED
    BY <1>1, <2>1, <2>2, <2>3, MoveKeeps
<1>3. CASE OnDisconnect(c) /\ (c \in taken \/ registry[conn[c].dev] # c)
  <2>1. /\ Go(c, "closed") /\ taken' = taken /\ registry' = registry
        /\ events' = events /\ admitted' = admitted /\ accepted' = accepted
    BY <1>3 DEF OnDisconnect, removeIfOwner
  <2>2. "closed" \in Positions /\ conn'[c].pc = "closed"
    BY <1>0, <2>1, Goes, SMTT(30) DEF Positions
  <2>3. Reported(c)'
    BY <1>0, <2>1, <2>2 DEF Reported, Up
  <2>4. QED
    BY <1>1, <1>3, <2>1, <2>2, <2>3, MoveKeeps
<1>4. CASE OnDisconnect(c) /\ ~(c \in taken \/ registry[conn[c].dev] # c)
  <2>1. PICK d \in Devices : d = conn[c].dev
    BY <1>1
  <2>2. /\ Go(c, "set_disconnected") /\ taken' = taken /\ registry' = [registry EXCEPT ![d] = None]
        /\ registry[d] = c /\ conn[c].pc = "disconnect"
        /\ events' = events /\ admitted' = admitted /\ accepted' = accepted
    BY <1>4, <2>1 DEF OnDisconnect, removeIfOwner
  <2>3. /\ conn' \in [Conns -> Connection]
        /\ conn'[c].pc = "set_disconnected" /\ conn'[c].dev = conn[c].dev
        /\ \A x \in Conns : x # c => conn'[x] = conn[x]
    BY <1>0, <2>2, Goes DEF Positions
  <2>4. /\ registry' \in [Devices -> Conns \cup {None}] /\ registry'[d] = None
        /\ \A e \in Devices : e # d => registry'[e] = registry[e]
    BY <1>0, <2>2 DEF Shape
  <2>5. events[c] = <<"connected">>
    BY <1>0, <2>1, <2>2 DEF Reported, Up
  <2>6. Reported(c)'
    BY <2>2, <2>3, <2>5, SMTT(30) DEF Reported, Up
  <2>7. \A x \in Conns : Still(x) \/ Moved(x)
    BY <2>1, <2>2, <2>3, <2>4, <2>6, SessionsAssumption DEF Still, Moved
  <2>8. SessionInv'
    BY <1>0, <2>2, <2>3, <2>4, <2>7, Steady, SMTT(30) DEF Shape
  <2>9. EvictsOwn /\ AcceptsNewer
    BY <2>2, <2>3, <2>4 DEF EvictsOwn, AcceptsNewer
  <2>10. QED
    BY <2>8, <2>9 DEF Keeps
<1>5. CASE StampDisconnected(c) \/ EmitDisconnected(c)
  <2>1. events[c] = <<"connected">> /\ registry[conn[c].dev] # c
    BY <1>0, <1>1, <1>5, SessionsAssumption, ZenonT(30) DEF StampDisconnected, EmitDisconnected, Reported, Up, Registered
  <2>2. CASE StampDisconnected(c)
    <3>1. /\ Go(c, "emit_disconnected") /\ taken' = taken /\ registry' = registry
          /\ events' = events /\ admitted' = admitted /\ accepted' = accepted
      BY <2>2, ZenonT(30) DEF StampDisconnected
    <3>2. "emit_disconnected" \in Positions /\ conn'[c].pc = "emit_disconnected"
      BY <1>0, <3>1, Goes DEF Positions
    <3>3. Reported(c)'
      BY <2>1, <3>1, <3>2, ZenonT(30) DEF Reported, Up
    <3>4. QED
      BY <1>1, <2>1, <3>1, <3>2, <3>3, MoveKeeps
  <2>3. CASE EmitDisconnected(c)
    <3>1. /\ Go(c, "closed") /\ taken' = taken /\ registry' = registry
          /\ events' = [events EXCEPT ![c] = Append(events[c], "disconnected")]
          /\ admitted' = admitted /\ accepted' = accepted
      BY <2>3 DEF EmitDisconnected
    <3>2. "closed" \in Positions /\ conn'[c].pc = "closed"
      BY <1>0, <3>1, Goes DEF Positions
    <3>3. Append(events[c], "disconnected") = <<"connected", "disconnected">>
      BY <2>1, AppendToOne
    <3>4. events'[c] = <<"connected", "disconnected">> /\ DOMAIN events' = Conns
          /\ \A x \in Conns : x # c => events'[x] = events[x]
      BY <1>1, <3>1, <3>3
    <3>5. Reported(c)'
      BY <3>2, <3>4 DEF Reported, Up
    <3>6. QED
      BY <1>1, <2>1, <3>1, <3>2, <3>4, <3>5, MoveKeeps
  <2>4. QED
    BY <1>5, <2>2, <2>3, SMTT(30)
<1>6. QED
  BY <1>2, <1>3, <1>4, <1>5

LEMMA PositionIs ==
  ASSUME Order, NEW i \in 1..Len(admitted)
  PROVE  Position(admitted[i]) = i
<1>1. \A j \in 1..Len(admitted) : admitted[j] = admitted[i] => j = i
  BY DEF Order
<1>2. \E j \in 1..Len(admitted) : admitted[j] = admitted[i]
  OBVIOUS
<1>3. QED
  BY <1>1, <1>2 DEF Position

LEMMA PublishKeeps ==
  ASSUME SessionInv, NEW c \in Conns, ReadPublish(c) \/ OnPublish(c) \/ Submit(c)
  PROVE  Keeps
<1>0. Shape /\ Order /\ Reported(c)
  BY DEF SessionInv
<1>1. PICK d \in Devices : d = conn[c].dev
  BY <1>0, ZenonT(30) DEF ReadPublish, OnPublish, Submit, Shape
<1>2. conn[c].pc \in {"live", "publish", "submit"} /\ DOMAIN events = Conns
      /\ registry' = registry /\ taken' = taken /\ events' = events /\ admitted' = admitted
  BY <1>0, ZenonT(30) DEF ReadPublish, OnPublish, Submit, Shape
<1>3. CASE accepted' = accepted
  <2>1. PICK to \in {"live", "publish", "submit"} : Go(c, to)
    BY <1>3, ZenonT(30) DEF ReadPublish, OnPublish, Submit
  <2>2. to \in Positions /\ conn'[c].pc = to /\ conn'[c].dev = conn[c].dev
    BY <1>0, <2>1, Goes DEF Positions
  <2>3. Reported(c)'
    BY <1>0, <1>2, <2>1, <2>2 DEF Reported, Up
  <2>4. QED
    BY <1>2, <1>3, <2>1, <2>2, <2>3, MoveKeeps
<1>4. CASE accepted' # accepted
  <2>1. registry[d] = c /\ accepted' = [accepted EXCEPT ![d] = c] /\ Go(c, "submit")
    BY <1>1, <1>4, ZenonT(30) DEF ReadPublish, OnPublish, Submit, MayPublish
  <2>2. /\ accepted' \in [Devices -> Conns \cup {None}] /\ accepted'[d] = c
        /\ \A e \in Devices : e # d => accepted'[e] = accepted[e]
    BY <1>0, <2>1 DEF Shape
  <2>3. /\ conn' \in [Conns -> Connection]
        /\ conn'[c].pc = "submit" /\ conn'[c].dev = conn[c].dev
        /\ \A x \in Conns : x # c => conn'[x] = conn[x]
    BY <1>0, <2>1, Goes DEF Positions
  <2>4. Reported(c)'
    BY <1>0, <1>2, <2>3 DEF Reported, Up
  <2>5. \A x \in Conns : Still(x) \/ Moved(x)
    BY <1>2, <2>3, <2>4 DEF Still, Moved
  <2>6. SessionInv'
    BY <1>0, <1>2, <2>1, <2>2, <2>3, <2>5, Steady, SMTT(30) DEF Shape
  <2>7. AcceptsNewer
    <3>1. SUFFICES ASSUME accepted[d] # None, c # accepted[d]
                   PROVE  Position(c) > Position(accepted[d])
      BY Zenon, <2>2 DEF AcceptsNewer
    <3>2. c # None
      BY Zenon, SessionsAssumption
    <3>3. PICK i \in 1..Len(admitted) :
            /\ admitted[i] = c
            /\ \A j \in 1..Len(admitted) : conn[admitted[j]].dev = d => j <= i
      BY Zenon, <1>0, <2>1, <3>2 DEF Order
    <3>4. PICK k \in 1..Len(admitted) : admitted[k] = accepted[d] /\ conn[admitted[k]].dev = d
      BY <1>0, <3>1 DEF Order
    <3>5. k <= i /\ k # i
      BY <3>1, <3>3, <3>4
    <3>6. Position(c) = i /\ Position(accepted[d]) = k
      BY <1>0, <3>3, <3>4, PositionIs
    <3>7. QED
      BY <3>5, <3>6
  <2>8. EvictsOwn
    BY <1>2 DEF EvictsOwn
  <2>9. QED
    BY <2>6, <2>7, <2>8 DEF Keeps
<1>5. QED
  BY <1>3, <1>4

LEMMA StepKeeps == IInv /\ [Next]_vars => IInv' /\ KeepsSecret /\ EvictsOwn /\ AcceptsNewer
<1> SUFFICES ASSUME IInv, [Next]_vars PROVE IInv' /\ KeepsSecret /\ Keeps
  BY DEF IInv, Keeps
<1>0. RowOk /\ ReqOk /\ SessionInv /\ Shape
  BY DEF IInv, SessionInv
<1>1. ASSUME NEW r \in Requests, RequestStep(r), UNCHANGED sessions
      PROVE  IInv' /\ KeepsSecret /\ Keeps
  <2>1. RowOk' /\ ReqOk' /\ KeepsSecret
    BY <1>0, <1>1, RequestKeeps
  <2>2. Keeps
    BY <1>0, <1>1, CutKeeps DEF sessions, Shape
  <2>3. QED
    BY <2>1, <2>2 DEF IInv, Keeps
<1>2. ASSUME NEW r \in Requests, NEW d \in Devices, DeleteKick(r, d)
      PROVE  IInv' /\ KeepsSecret /\ Keeps
  <2>1. /\ Start(r, "delete", "erase", d, None) /\ row' = row
        /\ conn' = [c \in Conns |-> IF c = registry[d] THEN [conn[c] EXCEPT !.cut = TRUE] ELSE conn[c]]
        /\ UNCHANGED <<registry, taken, events, admitted, accepted>>
    BY <1>2 DEF DeleteKick
  <2>2. "delete" \in Operations /\ "erase" \in Steps /\ None \in Arguments
    BY DEF Operations, Steps, Arguments
  <2>3. RowOk' /\ ReqOk' /\ KeepsSecret
    BY <1>0, <2>1, <2>2, RowSame, Starts
  <2>4. ASSUME NEW x \in Conns
        PROVE  /\ [conn[x] EXCEPT !.cut = TRUE] \in Connection
               /\ [conn[x] EXCEPT !.cut = TRUE].pc = conn[x].pc
               /\ [conn[x] EXCEPT !.cut = TRUE].dev = conn[x].dev
               /\ conn[x] \in Connection
    <3>1. conn[x] \in Connection
      BY <1>0 DEF Shape
    <3>2. QED
      BY <3>1, ZenonT(30) DEF Connection
  <2>5. /\ conn' \in [Conns -> Connection]
        /\ \A x \in Conns : conn'[x].pc = conn[x].pc /\ conn'[x].dev = conn[x].dev
    BY <2>1, <2>4
  <2>6. Keeps
    BY <1>0, <2>1, <2>5, CutKeeps
  <2>7. QED
    BY <2>3, <2>6 DEF IInv, Keeps
<1>3. ASSUME NEW c \in Conns, ConnStep(c)
      PROVE  IInv' /\ KeepsSecret /\ Keeps
  <2>1. Keeps
    BY <1>0, <1>3, AuthenticateKeeps, AdmitKeeps, EstablishKeeps, DisconnectKeeps, PublishKeeps
       DEF ConnStep
  <2>2. ReqOk'
    <3>1. req' = req
      BY <1>3, ZenonT(30) DEF ConnStep, OnConnectAuthenticate, Admit, StopExisting, ReplaceClient,
        AttachFails, OnSessionEstablished, StampConnected, EmitConnected, ConnectionEnds, OnDisconnect,
        StampDisconnected, EmitDisconnected, ReadPublish, OnPublish, Submit, tables
    <3>2. QED
      BY <1>0, <3>1, ReqSame
  <2>3. RowOk' /\ KeepsSecret
    <3>1. CASE StampConnected(c)
      BY <1>0, <3>1, RowConnected, ZenonT(30) DEF StampConnected
    <3>2. CASE StampDisconnected(c)
      BY <1>0, <3>2, RowConnected, ZenonT(30) DEF StampDisconnected
    <3>3. CASE ~StampConnected(c) /\ ~StampDisconnected(c)
      <4>1. row' = row
        BY <1>3, <3>3 DEF ConnStep, OnConnectAuthenticate, Admit, StopExisting, ReplaceClient,
          AttachFails, OnSessionEstablished, EmitConnected, ConnectionEnds, OnDisconnect, EmitDisconnected,
          ReadPublish, OnPublish, Submit, tables
      <4>2. QED
        BY <1>0, <4>1, RowSame
    <3>4. QED
      BY <3>1, <3>2, <3>3
  <2>4. QED
    BY <2>1, <2>2, <2>3 DEF IInv, Keeps
<1>4. ASSUME UNCHANGED vars PROVE IInv' /\ KeepsSecret /\ Keeps
  <2>1. RowOk' /\ ReqOk' /\ KeepsSecret
    BY <1>0, <1>4, RowSame, ReqSame DEF vars, tables
  <2>2. Keeps
    BY <1>0, <1>4, CutKeeps DEF vars, sessions, Shape
  <2>3. QED
    BY <2>1, <2>2 DEF IInv, Keeps
<1>5. QED
  BY <1>1, <1>2, <1>3, <1>4 DEF Next

LEMMA Invariance == Spec => []IInv
<1>1. Init => IInv
  BY SessionsStart DEF IInv
<1>2. IInv /\ [Next]_vars => IInv'
  BY StepKeeps
<1>3. QED
  BY <1>1, <1>2, PTL DEF Spec

-----------------------------------------------------------------------------
(* Publishes handed on late *)

LEMMA LateKept ==
  ASSUME LateOk, late' = late,
         \A x \in Conns : conn'[x].pc \in {"new", "admit", "submit"} =>
           conn'[x].pc = conn[x].pc \/ conn[x].pc = "new",
         \A d \in Devices : registry'[d] \in {registry[d], None}
  PROVE  LateOk'
BY ZenonT(30) DEF LateOk

\* A connection moves on without a publish that was let through.
LEMMA LateMoves ==
  ASSUME LateOk, Shape, NEW c \in Conns, NEW to \in Positions \ {"new", "admit", "submit"}, Go(c, to),
         late' = late, \A d \in Devices : registry'[d] \in {registry[d], None}
  PROVE  LateOk'
<1>1. /\ conn'[c].pc = to
      /\ \A x \in Conns : x # c => conn'[x] = conn[x]
  BY Goes, ZenonT(30)
<1>2. \A x \in Conns : conn'[x].pc \in {"new", "admit", "submit"} => conn'[x].pc = conn[x].pc
  BY <1>1, ZenonT(30)
<1>3. QED
  BY <1>2, LateKept, ZenonT(30)

LEMMA LateConnection ==
  ASSUME LateOk, SessionInv, NEW c \in Conns, ConnStep(c)
  PROVE  LateOk'
<1>0. Shape /\ \A d \in Devices : Registered(d)
  BY DEF SessionInv
<1>1. ASSUME NEW d \in Devices, NEW cert, OnConnectAuthenticate(c, d, cert) PROVE LateOk'
  <2>1. conn[c].pc = "new" /\ late' = late /\ registry' = registry
        /\ \A x \in Conns : x # c => conn'[x] = conn[x]
    BY <1>0, <1>1 DEF OnConnectAuthenticate, Shape
  <2>2. QED
    BY <2>1, LateKept, ZenonT(30)
<1>2. CASE Admit(c)
  <2>1. PICK d \in Devices : d = conn[c].dev
    BY <1>0, <1>2 DEF Shape, Admit
  <2>2. conn[c].pc = "admit" /\ registry' = [registry EXCEPT ![d] = c] /\ late' = late /\ Go(c, "inherit")
    BY <1>2, <2>1 DEF Admit
  <2>3. "inherit" \in Positions /\ conn'[c].pc = "inherit" /\ \A x \in Conns : x # c => conn'[x] = conn[x]
    BY <1>0, <2>2, Goes DEF Positions
  <2>4. registry'[d] = c /\ \A e \in Devices : e # d => registry'[e] = registry[e]
    BY <1>0, <2>2 DEF Shape
  <2>5. late[c] = 0
    BY Zenon, <2>2 DEF LateOk
  <2>6. QED
    BY <2>2, <2>3, <2>4, <2>5, ZenonT(30) DEF LateOk
<1>3. CASE StopExisting(c)
  <2>1. PICK old : old = client[conn[c].dev]
    OBVIOUS
  <2>2. /\ late' = late /\ registry' = registry
        /\ conn' = [x \in Conns |-> IF x = c THEN [conn[c] EXCEPT !.pc = "mark_taken"]
                                    ELSE IF x = old THEN [conn[x] EXCEPT !.cut = TRUE]
                                    ELSE conn[x]]
    BY <1>3, <2>1 DEF StopExisting
  <2>3. ASSUME NEW x \in Conns
        PROVE  /\ [conn[x] EXCEPT !.pc = "mark_taken"].pc = "mark_taken"
               /\ [conn[x] EXCEPT !.cut = TRUE].pc = conn[x].pc
    <3>1. conn[x] \in Connection
      BY <1>0 DEF Shape
    <3>2. QED
      BY <3>1, ZenonT(30) DEF Connection
  <2>4. \A x \in Conns : conn'[x].pc \in {"new", "admit", "submit"} => conn'[x].pc = conn[x].pc
    BY <2>2, <2>3, ZenonT(30)
  <2>5. QED
    BY <2>2, <2>4, LateKept, ZenonT(30)
<1>4. CASE \/ ReplaceClient(c) \/ AttachFails(c) \/ OnSessionEstablished(c) \/ StampConnected(c)
           \/ EmitConnected(c) \/ ConnectionEnds(c) \/ StampDisconnected(c) \/ EmitDisconnected(c)
           \/ ReadPublish(c)
  <2>1. late' = late /\ registry' = registry
        /\ \E to \in {"establish", "closed", "set_connected", "live", "emit_connected", "disconnect",
                      "emit_disconnected", "publish"} : Go(c, to)
    BY <1>4, ZenonT(60) DEF ReplaceClient, AttachFails, OnSessionEstablished, StampConnected,
       EmitConnected, ConnectionEnds, StampDisconnected, EmitDisconnected, ReadPublish
  <2>2. PICK to \in Positions \ {"new", "admit", "submit"} : Go(c, to)
    BY <2>1, ZenonT(30) DEF Positions
  <2>3. QED
    BY <1>0, <2>1, <2>2, LateMoves, ZenonT(30)
<1>5. CASE OnDisconnect(c)
  <2>1. PICK to \in Positions \ {"new", "admit", "submit"} : Go(c, to)
    BY <1>5, ZenonT(30) DEF OnDisconnect, removeIfOwner, Positions
  <2>2. late' = late
    BY Zenon, <1>5 DEF OnDisconnect
  <2>3. \A d \in Devices : registry'[d] \in {registry[d], None}
    BY <1>0, <1>5 DEF OnDisconnect, removeIfOwner, Shape
  <2>4. QED
    BY <1>0, <2>1, <2>2, <2>3, LateMoves, ZenonT(30)
<1>6. CASE OnPublish(c)
  <2>1. late' = late /\ registry' = registry
    BY Zenon, <1>6 DEF OnPublish
  <2>2. CASE MayPublish(c)
    <3>1. PICK d \in Devices : d = conn[c].dev
      BY <1>0, <1>6, ZenonT(30) DEF OnPublish, Shape
    <3>2. registry[d] = c /\ Go(c, "submit")
      BY <1>6, <2>2, <3>1 DEF OnPublish, MayPublish
    <3>3. late[c] = 0
      BY Zenon, <3>2, SessionsAssumption DEF LateOk
    <3>4. "submit" \in Positions /\ conn'[c].pc = "submit" /\ \A x \in Conns : x # c => conn'[x] = conn[x]
      BY <1>0, <3>2, Goes DEF Positions
    <3>5. QED
      BY <2>1, <3>3, <3>4, ZenonT(30) DEF LateOk
  <2>3. CASE ~MayPublish(c)
    <3>1. "live" \in Positions \ {"new", "admit", "submit"} /\ Go(c, "live")
      BY <1>6, <2>3 DEF OnPublish, Positions
    <3>2. QED
      BY <1>0, <2>1, <3>1, LateMoves, ZenonT(30)
  <2>4. QED
    BY <2>2, <2>3
<1>7. CASE Submit(c)
  <2>1. PICK d \in Devices : d = conn[c].dev
    BY <1>0, <1>7, ZenonT(30) DEF Submit, Shape
  <2>2. /\ late' = [late EXCEPT ![c] = IF registry[d] = c THEN late[c] ELSE late[c] + 1]
        /\ Go(c, "live") /\ registry' = registry /\ conn[c].pc = "submit"
    BY <1>7, <2>1 DEF Submit
  <2>3. late[c] = 0 /\ late \in [Conns -> {0, 1}]
    BY Zenon, <2>2 DEF LateOk
  <2>4. /\ late' \in [Conns -> {0, 1}] /\ (registry[d] = c => late'[c] = 0)
        /\ \A x \in Conns : x # c => late'[x] = late[x]
    BY <2>2, <2>3
  <2>5. conn'[c].pc = "live" /\ \A x \in Conns : x # c => conn'[x] = conn[x]
    BY <1>0, <2>2, Goes DEF Positions
  <2>6. \A x \in Conns : conn'[x].pc \in {"new", "admit", "submit"} => late'[x] = 0
    BY <2>4, <2>5, ZenonT(30) DEF LateOk
  <2>7. ASSUME NEW e \in Devices, registry'[e] # None PROVE late'[registry'[e]] = 0
    <3>1. registry[e] \in Conns /\ conn[registry[e]].dev = e /\ late[registry[e]] = 0
      BY Zenon, <1>0, <2>2, <2>7 DEF Shape, Registered, LateOk
    <3>2. QED
      BY Zenon, <2>1, <2>2, <2>4, <3>1
  <2>8. QED
    BY Zenon, <2>4, <2>6, <2>7 DEF LateOk
<1>8. QED
  BY <1>1, <1>2, <1>3, <1>4, <1>5, <1>6, <1>7, ZenonT(30) DEF ConnStep

LEMMA LateStays == IInv /\ LateOk /\ [Next]_vars => LateOk'
<1> SUFFICES ASSUME IInv, LateOk, [Next]_vars PROVE LateOk'
  OBVIOUS
<1>0. SessionInv /\ Shape
  BY Zenon DEF IInv, SessionInv
<1>1. ASSUME UNCHANGED sessions PROVE LateOk'
  BY Zenon, <1>1 DEF sessions, LateOk
<1>2. ASSUME NEW r \in Requests, NEW d \in Devices, DeleteKick(r, d) PROVE LateOk'
  <2>1. late' = late /\ registry' = registry
    BY Zenon, <1>2 DEF DeleteKick
  <2>2. \A x \in Conns : [conn[x] EXCEPT !.cut = TRUE].pc = conn[x].pc
    BY <1>0, ZenonT(30) DEF Shape, Connection
  <2>3. \A x \in Conns : conn'[x].pc = conn[x].pc
    BY <1>2, <2>2, ZenonT(30) DEF DeleteKick
  <2>4. QED
    BY <2>1, <2>3, LateKept, ZenonT(30)
<1>3. ASSUME NEW c \in Conns, ConnStep(c) PROVE LateOk'
  BY Zenon, <1>0, <1>3, LateConnection
<1>4. QED
  BY Zenon, <1>1, <1>2, <1>3 DEF Next, vars

LEMMA LateInvariance == Spec => []LateOk
<1>1. Init => LateOk
  <2>1. SUFFICES ASSUME NEW paired \in SUBSET Devices, SInit(paired) PROVE LateOk
    BY DEF Init
  <2>2. late = [c \in Conns |-> 0] /\ \A d \in Devices : registry[d] = None
    BY Zenon, <2>1 DEF SInit
  <2>3. QED
    BY Zenon, <2>2 DEF LateOk
<1>2. QED
  BY <1>1, LateStays, Invariance, PTL DEF Spec

-----------------------------------------------------------------------------
(* Theorems *)

\* Every connection emits at most one device_connected and then at most one
\* device_disconnected, and a registry entry whose connection is gone is that
\* of a connection the server took over or never established, for any number
\* of devices, connections and requests.
THEOREM EventsPaired == Spec => []PairedEvents
<1>1. IInv => PairedEvents
  BY DEF IInv, SessionInv, Reported, Up, Registered, PairedEvents
<1>2. QED
  BY <1>1, Invariance, PTL

\* A registry entry is removed only by the OnDisconnect of the connection it
\* names, never by the late one of a connection that was replaced.
THEOREM EvictionByOwner == Spec => OldDisconnectNeverEvicts
<1>1. IInv /\ [Next]_vars =>
        [\A d \in Devices :
           (registry[d] # None /\ registry'[d] = None)
           => conn[registry[d]].pc = "disconnect" /\ conn'[registry[d]].pc # "disconnect"]_vars
  BY StepKeeps DEF EvictsOwn
<1>2. QED
  BY <1>1, Invariance, PTL DEF Spec, OldDisconnectNeverEvicts

\* OnPublish lets a publish of another connection through only when that one
\* was admitted later than the last, and at most one publish of a connection
\* reaches Submit after the registry has ceased to name it.
THEOREM PublishesMoveOn == Spec => NoReturnToOldConnection
<1>1. LateOk' => \A c \in Conns : late'[c] <= 1
  BY DEF LateOk
<1>2. IInv /\ LateOk /\ [Next]_vars =>
        [/\ \A d \in Devices :
              (accepted[d] # None /\ accepted'[d] # accepted[d])
              => Position(accepted'[d]) > Position(accepted[d])
         /\ \A c \in Conns : late'[c] <= 1]_vars
  BY Zenon, <1>1, StepKeeps, LateStays DEF AcceptsNewer
<1>3. QED
  BY <1>2, Invariance, LateInvariance, PTL DEF Spec, NoReturnToOldConnection

\* No interleaving of the requests rotates the secret of a device that has
\* requested credentials: only Unregister and the deletion of the row take it
\* away.
THEOREM SecretsKept == Spec => ConfirmedKeepsSecret
<1>1. IInv /\ [Next]_vars =>
        [\A d \in Devices :
           (Exists(d) /\ row[d].requested /\ row'[d] # NoRow /\ row'[d].requested)
           => row'[d].secret = row[d].secret]_<<row, group, req>>
  BY StepKeeps DEF KeepsSecret
<1>2. QED
  BY <1>1, Invariance, PTL DEF Spec, ConfirmedKeepsSecret

=============================================================================
