-------------------------- MODULE RealmSchemas --------------------------
(***************************************************************************)
(* What is installed in one realm, and the compiled snapshot of it that    *)
(* the engine's shards read: the operations of the realm management API,   *)
(* their statements and transactions, and the reloads they cause.          *)
(*                                                                         *)
(* A request performs one operation.  Its identity also names the row or   *)
(* the policy it creates, as the generated id does in the database.        *)
(***************************************************************************)
EXTENDS InterfaceSchema, FiniteSets

CONSTANTS
  Requests,     \* API requests
  Earlier,      \* whoever created what is there at first
  Listener,     \* the goroutine of runInvalidation
  Healer,       \* a shard in realmOrReload
  Documents,    \* interface documents that parse
  Initial,      \* the documents that may be installed at first
  Triggers,     \* [name, policy]
  PolicyNames,
  NoPolicy,     \* the policy of a trigger that names none
  None,
  Collide(_, _),  \* names equal up to case and hyphens
  MaxFaults     \* bound: failed statements and notifications

VARIABLES
  pc, arg,      \* of a request: where it is, and what it was asked for
  ifaces,       \* installed rows: key |-> [id, doc], or None
  declared,     \* keys some device's introspection declares
  triggers,     \* installed triggers
  policies,     \* name |-> who created it, or None
  snap,         \* the engine's snapshot of the realm, or None
  reloadMu,     \* who holds it
  rpc, build,   \* where its holder is in buildRealm, and what it read
  notes,        \* notifications the listener has not taken
  missed,       \* history: the last reload that ended failed
  faults

dbVars == <<ifaces, declared, triggers, policies>>

cacheVars == <<snap, reloadMu, rpc, build, missed>>

vars == <<pc, arg, dbVars, cacheVars, notes, faults>>

KeyOf(doc) == <<doc.name, doc.major>>

Keys == {KeyOf(doc) : doc \in Documents}

Installed == {k \in Keys : ifaces[k] # None}

Patterns(doc) == {doc.mappings[i].endpoint : i \in DOMAIN doc.mappings}

Creators == Requests \cup {Earlier}

Rows == [id : Creators, doc : Documents]

\* Documents reach the store through ParseInterface; ids are generated.
ASSUME RealmAssumption ==
  /\ {Earlier, Listener, Healer, None} \cap Requests = {}
  /\ None \notin Rows
  /\ \A doc \in Documents :
       /\ Parses(doc)
       /\ DOMAIN doc.mappings \subseteq Nat
       /\ \A i \in DOMAIN doc.mappings :
            doc.mappings[i].endpoint \in Seq([literal : STRING, param : BOOLEAN])

Attached(t) == [trigger |-> t, policy |-> IF t.policy = NoPolicy THEN None ELSE policies[t.policy]]

\* Mutant: the endpoints are read before the interfaces they belong to.
ResolvedSwapped(row, now) ==
  IF row # None /\ now # None /\ row.id = now.id
     /\ Patterns(now.doc) \subseteq Patterns(row.doc) /\ Compilable(now.doc)
  THEN now ELSE None

\* An interface compiles if its trie accepts it and every endpoint has an id.
Resolved(row, now) ==
  IF row # None /\ now # None /\ row.id = now.id
     /\ Patterns(row.doc) \subseteq Patterns(now.doc) /\ Compilable(row.doc)
  THEN row ELSE None

\* The tables as operators leave them when nobody else is at work.
InitTables ==
  /\ ifaces \in [Keys -> Rows \cup {None}]
  /\ \A k \in Installed : ifaces[k].id = Earlier /\ ifaces[k].doc \in Initial /\ KeyOf(ifaces[k].doc) = k
  /\ \A k, l \in Installed : k[1] # l[1] => ~Collide(k[1], l[1])
  /\ declared = {}
  /\ policies \in [PolicyNames -> {Earlier, None}]
  /\ triggers \in SUBSET Triggers
  /\ \A t \in triggers : t.policy # NoPolicy => policies[t.policy] # None
  /\ \A t, u \in triggers : t.name = u.name => t = u

\* The engine has loaded the realm, or the realm was created after it started.
Init ==
  /\ pc = [r \in Requests |-> "idle"]
  /\ arg = [r \in Requests |-> None]
  /\ InitTables
  /\ snap \in {None, [ifaces |-> [k \in Keys |-> Resolved(ifaces[k], ifaces[k])],
                      triggers |-> {Attached(t) : t \in triggers}]}
  /\ reloadMu = None
  /\ rpc = "none"
  /\ build = None
  /\ notes = 0
  /\ missed = FALSE
  /\ faults = 0

Fault == faults < MaxFaults /\ faults' = faults + 1

Goto(r, l, a) == pc' = [pc EXCEPT ![r] = l] /\ arg' = [arg EXCEPT ![r] = a]

-----------------------------------------------------------------------------
(* Requests: the checks *)

\* The request is refused when its check fails.
Check(r, ok, then, a) ==
  /\ pc[r] = "idle"
  /\ IF ok THEN Goto(r, then, a) ELSE Goto(r, "done", None)
  /\ UNCHANGED <<dbVars, cacheVars, notes, faults>>

CheckNameCollision(r, doc) ==
  Check(r, \A k \in Installed : k[1] # doc.name => ~Collide(k[1], doc.name), "insert", doc)

CheckUpgrade(r, next) ==
  LET k == KeyOf(next) IN
  Check(r, k \in Installed /\ CheckMinorUpgrade(ifaces[k].doc, next), "replace", next)

\* The row stays locked until the deletion commits.
Locked(k) == \E q \in Requests : pc[q] = "remove" /\ arg[q] = k

CheckUnused(r, k) ==
  /\ ~Locked(k)
  /\ Check(r, k[2] = 0 /\ k \in Installed \ declared, "remove", k)

CheckPolicyExists(r, t) ==
  Check(r, t.policy = NoPolicy \/ policies[t.policy] # None, "insertTrigger", t)

CheckUnreferenced(r, p) == Check(r, \A t \in triggers : t.policy # p, "dropPolicy", p)

-----------------------------------------------------------------------------
(* Requests: the transactions *)

\* A transaction that changes something is announced, one that fails is not.
Commit(r, changed) == Goto(r, IF changed THEN "notify" ELSE "done", None)

InsertInterface(r) ==
  LET doc == arg[r]  k == KeyOf(doc) IN
  /\ pc[r] = "insert"
  /\ ~Locked(k)
  /\ Commit(r, k \notin Installed)
  /\ ifaces' = [ifaces EXCEPT ![k] = IF @ = None THEN [id |-> r, doc |-> doc] ELSE @]
  /\ UNCHANGED <<declared, triggers, policies, cacheVars, notes, faults>>

\* The store refuses to drop an endpoint, by its text.
Additive(old, doc) == Patterns(old) \subseteq Patterns(doc)

ReplaceInterface(r) ==
  LET doc == arg[r]
      k == KeyOf(doc)
      ok == k \in Installed /\ Additive(ifaces[k].doc, doc)
  IN
  /\ pc[r] = "replace"
  /\ ~Locked(k)
  /\ Commit(r, ok)
  /\ ifaces' = IF ok THEN [ifaces EXCEPT ![k].doc = doc] ELSE ifaces
  /\ UNCHANGED <<declared, triggers, policies, cacheVars, notes, faults>>

RemoveInterface(r) ==
  /\ pc[r] = "remove"
  /\ ifaces' = [ifaces EXCEPT ![arg[r]] = None]
  /\ Commit(r, TRUE)
  /\ UNCHANGED <<declared, triggers, policies, cacheVars, notes, faults>>

InsertTrigger(r) ==
  LET new == \A u \in triggers : u.name # arg[r].name IN
  /\ pc[r] = "insertTrigger"
  /\ Commit(r, new)
  /\ triggers' = IF new THEN triggers \cup {arg[r]} ELSE triggers
  /\ UNCHANGED <<ifaces, declared, policies, cacheVars, notes, faults>>

DeleteTrigger(r, name) ==
  LET same == {u \in triggers : u.name = name} IN
  /\ pc[r] = "idle"
  /\ Commit(r, same # {})
  /\ triggers' = triggers \ same
  /\ UNCHANGED <<ifaces, declared, policies, cacheVars, notes, faults>>

\* Neither creating nor deleting a policy refreshes the snapshot.
InsertPolicy(r, p) ==
  /\ pc[r] = "idle"
  /\ Goto(r, "done", None)
  /\ policies' = [policies EXCEPT ![p] = IF @ = None THEN r ELSE @]
  /\ UNCHANGED <<ifaces, declared, triggers, cacheVars, notes, faults>>

DropPolicy(r) ==
  /\ pc[r] = "dropPolicy"
  /\ Goto(r, "done", None)
  /\ policies' = [policies EXCEPT ![arg[r]] = None]
  /\ UNCHANGED <<ifaces, declared, triggers, cacheVars, notes, faults>>

\* A device changes its introspection; what it declares only matters to
\* interfaces that may be deleted.
Declare(k) ==
  /\ k[2] = 0
  /\ declared' = IF k \in declared THEN declared \ {k} ELSE declared \cup {k}
  /\ UNCHANGED <<pc, arg, ifaces, triggers, policies, cacheVars, notes, faults>>

-----------------------------------------------------------------------------
(* Invalidation *)

\* NOTIFY, which may fail, or find the listener's connection down.
Notify(r) ==
  /\ pc[r] = "notify"
  /\ Goto(r, "refresh", None)
  /\ \/ notes' = notes + 1 /\ UNCHANGED faults
     \/ Fault /\ UNCHANGED notes
  /\ UNCHANGED <<dbVars, cacheVars>>

\* What sets off a reload: RefreshInterfaces of a request, a notification, or
\* a shard that finds no snapshot.
Wakes(x, next) ==
  \/ x \in Requests /\ pc[x] = "refresh" /\ Goto(x, next, None) /\ UNCHANGED notes
  \/ x = Listener /\ notes > 0 /\ notes' = notes - 1 /\ UNCHANGED <<pc, arg>>
  \/ x = Healer /\ snap = None /\ UNCHANGED <<pc, arg, notes>>

\* Mutant: a refresh that finds another one running leaves the work to it.
LockCoalesced(x) ==
  /\ Wakes(x, IF reloadMu = None THEN "reload" ELSE "done")
  /\ reloadMu' = IF reloadMu = None THEN x ELSE reloadMu
  /\ rpc' = IF reloadMu = None THEN "interfaces" ELSE rpc
  /\ UNCHANGED <<dbVars, snap, build, missed, faults>>

\* reloadRealm of a known realm, or loadAll: the queries are the same.
Lock(x) ==
  /\ reloadMu = None
  /\ Wakes(x, "reload")
  /\ reloadMu' = x
  /\ rpc' = "interfaces"
  /\ UNCHANGED <<dbVars, snap, build, missed, faults>>

\* The two queries of LoadRealmInterfaces run outside a transaction.
LoadInterfaces ==
  /\ rpc = "interfaces"
  /\ rpc' = "endpoints"
  /\ build' = [rows |-> ifaces]
  /\ UNCHANGED <<pc, arg, dbVars, snap, reloadMu, notes, missed, faults>>

LoadEndpoints ==
  /\ rpc = "endpoints"
  /\ rpc' = "triggers"
  /\ build' = [ifaces |-> [k \in Keys |-> Resolved(build.rows[k], ifaces[k])]]
  /\ UNCHANGED <<pc, arg, dbVars, snap, reloadMu, notes, missed, faults>>

LoadTriggers ==
  /\ rpc = "triggers"
  /\ rpc' = "policies"
  /\ build' = [ifaces |-> build.ifaces, triggers |-> triggers]
  /\ UNCHANGED <<pc, arg, dbVars, snap, reloadMu, notes, missed, faults>>

\* Mutant: an error returns with the mutex held.
UnlockForgotten(failed) ==
  /\ IF failed THEN UNCHANGED <<reloadMu, pc>>
     ELSE /\ reloadMu' = None
          /\ pc' = [r \in Requests |-> IF r = reloadMu THEN "done" ELSE pc[r]]
  /\ rpc' = "none"
  /\ build' = None
  /\ missed' = failed
  /\ UNCHANGED <<arg, dbVars, notes>>

Unlock(failed) ==
  /\ reloadMu' = None
  /\ rpc' = "none"
  /\ build' = None
  /\ missed' = failed
  /\ pc' = [r \in Requests |-> IF r = reloadMu THEN "done" ELSE pc[r]]
  /\ UNCHANGED <<arg, dbVars, notes>>

LoadPoliciesAndSwap ==
  /\ rpc = "policies"
  /\ snap' = [ifaces |-> build.ifaces, triggers |-> {Attached(t) : t \in build.triggers}]
  /\ Unlock(FALSE)
  /\ UNCHANGED faults

\* Any query of buildRealm may fail; the snapshot stays what it was.
ReloadFails ==
  /\ rpc # "none"
  /\ Fault
  /\ Unlock(TRUE)
  /\ UNCHANGED snap

Start(r) ==
  \/ \E doc \in Documents : CheckNameCollision(r, doc) \/ CheckUpgrade(r, doc)
  \/ \E k \in Keys : CheckUnused(r, k)
  \/ \E t \in Triggers : CheckPolicyExists(r, t) \/ DeleteTrigger(r, t.name)
  \/ \E p \in PolicyNames : CheckUnreferenced(r, p) \/ InsertPolicy(r, p)

RequestStep(r) ==
  \/ InsertInterface(r) \/ ReplaceInterface(r) \/ RemoveInterface(r)
  \/ InsertTrigger(r) \/ DropPolicy(r)
  \/ Notify(r) \/ Lock(r)

Reload == LoadInterfaces \/ LoadEndpoints \/ LoadTriggers \/ LoadPoliciesAndSwap \/ ReloadFails

Next ==
  \/ \E r \in Requests : Start(r) \/ RequestStep(r)
  \/ \E k \in Keys : Declare(k)
  \/ Lock(Listener) \/ Lock(Healer)
  \/ Reload

Spec == Init /\ [][Next]_vars

\* A request that can go on does, and so does the holder of reloadMu.
FairSpec == Spec /\ WF_vars(Reload) /\ \A r \in Requests : WF_vars(RequestStep(r))

-----------------------------------------------------------------------------
(* Properties *)

\* No committed change waits for its refresh, and the last reload worked.
Settled ==
  /\ \A r \in Requests : pc[r] \notin {"notify", "refresh", "reload"}
  /\ ~missed
  /\ snap # None

\* However the reloads of concurrent requests and of the listener interleave,
\* the one that ends last leaves the engine with what is in the tables:
\* no change is overwritten by a reload that read the tables before it
\* (reloadMu, and refreshing after the commit).
SnapshotCurrent ==
  Settled =>
    /\ snap.ifaces = [k \in Keys |-> Resolved(ifaces[k], ifaces[k])]
    /\ {t.trigger : t \in snap.triggers} = triggers

\* A reload never takes an installed interface away from the shards, whatever
\* is committed between its two queries (LoadRealmInterfaces); and updates
\* that pass the compatibility check at the same time never drop an endpoint
\* of it, whose rows hold data (UpdateInterface of the store).
NoServiceGap ==
  [][\A k \in Keys :
       /\ snap # None /\ snap.ifaces[k] # None /\ ifaces[k] # None
          /\ snap.ifaces[k].id = ifaces[k].id /\ Compilable(ifaces[k].doc)
          => snap'.ifaces[k] # None
       /\ ifaces[k] # None /\ ifaces'[k] # None /\ ifaces'[k].id = ifaces[k].id
          => Patterns(ifaces[k].doc) \subseteq Patterns(ifaces'[k].doc)]_vars

\* Every request ends: reloadMu is released on every path of reloadRealm and
\* loadAll, and the row lock of a deletion with its transaction.
RequestsEnd == \A r \in Requests : pc[r] # "idle" ~> pc[r] = "done"
=============================================================================
