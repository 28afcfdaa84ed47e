----------------------- MODULE RealmSchemasProofs -----------------------
(***************************************************************************)
(* Theorems about RealmSchemas, for any requests, documents, triggers and  *)
(* policies: the snapshot the shards read catches up with the tables, and  *)
(* no reload takes an installed interface away from them.                  *)
(***************************************************************************)
EXTENDS RealmSchemas, TLAPS

-----------------------------------------------------------------------------
(* Documents *)

\* Endpoints of a document that parses are pairwise different.
LEMMA EndpointsDiffer ==
  ASSUME NEW doc \in Documents, NEW i \in DOMAIN doc.mappings, NEW j \in DOMAIN doc.mappings,
         i # j
  PROVE  Segs(doc.mappings[i]) # Segs(doc.mappings[j])
<1>1. EndpointsUnique(doc.mappings) /\ i \in Nat /\ j \in Nat
  BY RealmAssumption DEF Parses
<1>2. \A a : Overlap(a, a)
  BY DEF Overlap, Meet
<1>3. i < j \/ j < i
  BY <1>1
<1>4. QED
  BY <1>1, <1>2, <1>3 DEF EndpointsUnique, Indices

\* A document that parses compiles if one with more endpoints does: Add refuses
\* an endpoint for what it shares with another, never for one that is missing.
LEMMA FewerEndpointsCompile ==
  ASSUME NEW old \in Documents, NEW new \in Documents, Compilable(new),
         Patterns(old) \subseteq Patterns(new)
  PROVE  Compilable(old)
<1> DEFINE om == old.mappings
           nm == new.mappings
           Agree(a, b) == \A k \in DOMAIN a \cap DOMAIN b :
             (\A l \in 1..k - 1 : a[l] = b[l]) /\ a[k].param /\ b[k].param => a[k] = b[k]
<1>1. \A i \in DOMAIN om : \E n \in DOMAIN nm : Segs(nm[n]) = Segs(om[i])
  BY ZenonT(30) DEF Patterns, Segs
<1>2. \A i, j \in DOMAIN om : i # j => Segs(om[i]) # Segs(om[j])
  BY EndpointsDiffer
<1>3. \A n, p \in DOMAIN nm : n < p => Agree(Segs(nm[n]), Segs(nm[p]))
  BY DEF Compilable, TrieAccepts, Indices
<1>4. DOMAIN nm \subseteq Nat /\ DOMAIN om \subseteq Nat
  BY RealmAssumption
<1>5. \A a, b : Agree(a, b) => Agree(b, a)
  OBVIOUS
<1>6. ASSUME NEW i \in DOMAIN om, NEW j \in DOMAIN om, i # j
      PROVE  Agree(Segs(om[i]), Segs(om[j]))
  <2>1. PICK n \in DOMAIN nm : Segs(nm[n]) = Segs(om[i])
    BY <1>1
  <2>2. PICK p \in DOMAIN nm : Segs(nm[p]) = Segs(om[j])
    BY <1>1
  <2>3. n # p
    BY <1>2, <1>6, <2>1, <2>2
  <2>4. n < p \/ p < n
    BY <1>4, <2>3
  <2> HIDE DEF Agree
  <2>5. QED
    BY <1>3, <1>5, <2>1, <2>2, <2>4
<1>7. TrieAccepts(om)
  <2>1. \A i, j \in DOMAIN om : i < j => i # j
    BY <1>4
  <2>2. QED
    BY <1>2, <1>6, <2>1 DEF TrieAccepts, Indices
<1>8. ASSUME old.aggregation = "object", NEW i \in DOMAIN om, NEW j \in DOMAIN om
      PROVE  LET a == Segs(om[i])  b == Segs(om[j]) IN
             ~a[Len(a)].param /\ (i # j => a[Len(a)] # b[Len(b)])
  <2> DEFINE a == Segs(om[i])
             b == Segs(om[j])
             first == Segs(om[1])
  <2>1. ObjectAggregated(om)
    BY <1>8, RealmAssumption DEF Parses
  <2>2. /\ Len(a) = Len(first) /\ Len(b) = Len(first)
        /\ ~a[Len(a)].param
        /\ \A k \in 1..Len(a) - 1 : a[k] = first[k]
        /\ \A k \in 1..Len(b) - 1 : b[k] = first[k]
    BY <2>1 DEF ObjectAggregated, Indices
  <2>3. \A k \in 1..Len(a) - 1 : a[k] = b[k]
    BY <2>2
  <2>4. a \in Seq([literal : STRING, param : BOOLEAN])
        /\ b \in Seq([literal : STRING, param : BOOLEAN])
    BY RealmAssumption DEF Segs
  <2>5. ASSUME a[Len(a)] = b[Len(b)]
        PROVE  a = b
    <3>1. Len(a) = Len(b) /\ Len(a) \in Nat
      BY <2>2, <2>4
    <3>2. \A k \in 1..Len(a) : k \in 1..Len(a) - 1 \/ k = Len(a)
      BY <3>1
    <3>3. \A k \in 1..Len(a) : a[k] = b[k]
      BY <2>3, <2>5, <3>1, <3>2
    <3> HIDE DEF a, b
    <3>4. QED
      BY <2>4, <3>1, <3>3
  <2>6. i # j => a # b
    BY <1>2
  <2> HIDE DEF a, b
  <2>7. ~a[Len(a)].param /\ (i # j => a[Len(a)] # b[Len(b)])
    BY <2>2, <2>5, <2>6
  <2>8. QED
    BY <2>7 DEF a, b
<1>9. QED
  BY <1>7, <1>8 DEF Compilable, Indices

-----------------------------------------------------------------------------
(* The inductive invariant *)

OptRows == Rows \cup {None}

Labels == {"idle", "insert", "replace", "remove", "insertTrigger",
           "dropPolicy", "notify", "refresh", "reload", "done"}

Asked ==
  /\ pc \in [Requests -> Labels]
  /\ arg = [r \in Requests |-> arg[r]]
  /\ \A r \in Requests :
       /\ pc[r] \in {"insert", "replace"} => arg[r] \in Documents
       /\ pc[r] = "remove" => arg[r] \in Keys

Stored ==
  /\ ifaces \in [Keys -> OptRows]
  /\ snap # None => snap.ifaces \in [Keys -> OptRows]
  /\ rpc = "endpoints" => build.rows \in [Keys -> OptRows]
  /\ rpc \in {"triggers", "policies"} => build.ifaces \in [Keys -> OptRows]

Typed ==
  /\ Asked
  /\ Stored
  /\ reloadMu \in Requests => pc[reloadMu] = "reload"

\* No committed change waits for its reload to begin.
Quiet == \A r \in Requests : pc[r] \notin {"notify", "refresh"}

\* What a reload has read by now is what is there, unless a change was committed
\* meanwhile, whose own reload is yet to begin.
BuildCurrent ==
  Quiet =>
    /\ rpc = "endpoints" => build.rows = ifaces
    /\ rpc \in {"triggers", "policies"} =>
         build.ifaces = [k \in Keys |-> Resolved(ifaces[k], ifaces[k])]
    /\ rpc = "policies" => build.triggers = triggers

\* The rows of a key the tables, the snapshot and the running reload hold.
Held(k) ==
  {x \in OptRows :
     \/ x = ifaces[k]
     \/ snap # None /\ x = snap.ifaces[k]
     \/ rpc = "endpoints" /\ x = build.rows[k]
     \/ rpc \in {"triggers", "policies"} /\ x = build.ifaces[k]} \ {None}

\* A request that may yet insert its row has not inserted it.
Fresh ==
  \A r \in Requests, k \in Keys :
    pc[r] \in {"idle", "insert"} => \A x \in Held(k) : x.id # r

\* A row that the snapshot serves and that is still installed was there when the
\* running reload read it.
Served(k) ==
  (/\ snap # None /\ snap.ifaces[k] # None
   /\ ifaces[k] # None /\ snap.ifaces[k].id = ifaces[k].id)
  => /\ rpc = "endpoints" =>
          /\ build.rows[k] # None /\ build.rows[k].id = ifaces[k].id
          /\ Patterns(build.rows[k].doc) \subseteq Patterns(ifaces[k].doc)
     /\ rpc \in {"triggers", "policies"} /\ Compilable(ifaces[k].doc) => build.ifaces[k] # None

Serving == \A k \in Keys : Served(k)

IInv == Typed /\ BuildCurrent /\ SnapshotCurrent /\ Fresh /\ Serving

-----------------------------------------------------------------------------
(* What a step does *)

\* A row of a key keeps its id and its endpoints, or is gone, or is new.
Evolves(k) ==
  \/ ifaces'[k] = ifaces[k]
  \/ ifaces'[k] = None
  \/ /\ ifaces[k] # None /\ ifaces'[k] \in Rows
     /\ ifaces'[k].id = ifaces[k].id
     /\ Patterns(ifaces[k].doc) \subseteq Patterns(ifaces'[k].doc)
  \/ /\ ifaces[k] = None /\ ifaces'[k] \in Rows
     /\ \E r \in Requests : /\ ifaces'[k].id = r
                            /\ pc[r] = "insert" /\ pc'[r] \notin {"idle", "insert"}

\* A request goes on: its change to the tables, if any, is to be announced.
Proceeds ==
  /\ UNCHANGED <<snap, reloadMu, rpc, build, missed>>
  /\ Asked'
  /\ ifaces' \in [Keys -> OptRows]
  /\ \A r \in Requests :
       /\ pc'[r] \in {"idle", "insert"} => pc[r] \in {"idle", "insert"}
       /\ pc[r] \in {"notify", "refresh"} => pc'[r] \in {"notify", "refresh"}
       /\ pc[r] = "reload" => pc'[r] = "reload"
  /\ \A k \in Keys : Evolves(k)
  /\ UNCHANGED <<ifaces, triggers>> \/ \E r \in Requests : pc'[r] = "notify"

\* Goto moves one request.
LEMMA Moves ==
  ASSUME Asked, NEW r \in Requests, NEW l \in Labels, NEW a, Goto(r, l, a),
         l \in {"insert", "replace"} => a \in Documents, l = "remove" => a \in Keys
  PROVE  /\ Asked'
         /\ pc'[r] = l /\ \A q \in Requests \ {r} : pc'[q] = pc[q]
<1>1. pc' \in [Requests -> Labels] /\ pc'[r] = l /\ \A q \in Requests \ {r} : pc'[q] = pc[q]
  BY DEF Goto, Asked
<1>2. arg' = [arg EXCEPT ![r] = a] /\ arg = [q \in Requests |-> arg[q]]
  BY DEF Goto, Asked
<1>3. /\ arg' = [q \in Requests |-> arg'[q]]
      /\ arg'[r] = a /\ \A q \in Requests \ {r} : arg'[q] = arg[q]
  BY <1>2
<1>4. QED
  BY <1>1, <1>3 DEF Asked

\* A request that leaves the tables the reload reads alone.
LEMMA LeavesTables ==
  ASSUME Typed, NEW r \in Requests, NEW l \in Labels, NEW a, Goto(r, l, a),
         l \in {"insert", "replace"} => a \in Documents, l = "remove" => a \in Keys,
         pc[r] \notin {"notify", "refresh", "reload"} \/ (pc[r] = "notify" /\ l = "refresh"),
         l \notin {"idle", "insert"} \/ pc[r] = "idle",
         UNCHANGED <<snap, reloadMu, rpc, build, missed>>, UNCHANGED <<ifaces, triggers>>
  PROVE  Proceeds
<1>1. Asked' /\ pc'[r] = l /\ \A q \in Requests \ {r} : pc'[q] = pc[q]
  BY Moves DEF Typed
<1>2. \A q \in Requests :
        /\ pc'[q] \in {"idle", "insert"} => pc[q] \in {"idle", "insert"}
        /\ pc[q] \in {"notify", "refresh"} => pc'[q] \in {"notify", "refresh"}
        /\ pc[q] = "reload" => pc'[q] = "reload"
  BY <1>1
<1>3. QED
  BY <1>1, <1>2 DEF Proceeds, Evolves, Typed, Stored

\* A request that commits: announced if it changed something.
LEMMA Commits ==
  ASSUME Typed, NEW r \in Requests, NEW changed \in BOOLEAN, Commit(r, changed),
         pc[r] \notin {"notify", "refresh", "reload"},
         UNCHANGED <<snap, reloadMu, rpc, build, missed>>,
         ifaces' \in [Keys -> OptRows],
         ~changed => UNCHANGED <<ifaces, triggers>>,
         pc'[r] \notin {"idle", "insert"} => \A k \in Keys : Evolves(k)
  PROVE  Proceeds
<1> DEFINE l == IF changed THEN "notify" ELSE "done"
<1>0. l \in {"notify", "done"} /\ (changed => l = "notify")
  OBVIOUS
<1> HIDE DEF l
<1>1. Asked' /\ pc'[r] = l /\ \A q \in Requests \ {r} : pc'[q] = pc[q]
  <2>1. Goto(r, l, None)
    BY DEF Commit, l
  <2>2. l \in Labels /\ l \notin {"insert", "replace"} /\ l # "remove"
    BY <1>0 DEF Labels
  <2>3. QED
    BY <2>1, <2>2, Moves DEF Typed
<1>2. \A q \in Requests :
        /\ pc'[q] \in {"idle", "insert"} => pc[q] \in {"idle", "insert"}
        /\ pc[q] \in {"notify", "refresh"} => pc'[q] \in {"notify", "refresh"}
        /\ pc[q] = "reload" => pc'[q] = "reload"
  BY <1>0, <1>1
<1>3. \A k \in Keys : Evolves(k)
  BY <1>0, <1>1
<1>4. UNCHANGED <<ifaces, triggers>> \/ \E q \in Requests : pc'[q] = "notify"
  BY <1>0, <1>1
<1>5. QED
  BY <1>1, <1>2, <1>3, <1>4 DEF Proceeds

LEMMA StartProceeds ==
  ASSUME Typed, NEW r \in Requests, Start(r)
  PROVE  Proceeds
<1>1. ASSUME NEW ok, NEW l \in Labels, NEW a, Check(r, ok, l, a),
             ok /\ l \in {"insert", "replace"} => a \in Documents, ok /\ l = "remove" => a \in Keys
      PROVE  Proceeds
  <2>1. pc[r] = "idle" /\ UNCHANGED <<snap, reloadMu, rpc, build, missed>> /\ UNCHANGED <<ifaces, triggers>>
    BY <1>1 DEF Check, dbVars, cacheVars
  <2>2. CASE ok
    BY <1>1, <2>1, <2>2, LeavesTables DEF Check
  <2>3. CASE ~ok
    <3>1. Goto(r, "done", None) /\ "done" \in Labels
      BY <1>1, <2>3 DEF Check, Labels
    <3>2. QED
      BY <2>1, <3>1, LeavesTables
  <2>4. QED
    BY <2>2, <2>3
<1>2. /\ "insert" \in Labels /\ "replace" \in Labels /\ "remove" \in Labels
      /\ "insertTrigger" \in Labels /\ "dropPolicy" \in Labels /\ "done" \in Labels
  BY DEF Labels
<1>3. ASSUME NEW doc \in Documents, CheckNameCollision(r, doc)
      PROVE  Proceeds
  BY <1>1, <1>2, <1>3, ZenonT(30) DEF CheckNameCollision
<1>4. ASSUME NEW doc \in Documents, CheckUpgrade(r, doc)
      PROVE  Proceeds
  BY <1>1, <1>2, <1>4, ZenonT(30) DEF CheckUpgrade
<1>5. ASSUME NEW k \in Keys, CheckUnused(r, k)
      PROVE  Proceeds
  BY <1>1, <1>2, <1>5, ZenonT(30) DEF CheckUnused
<1>6. ASSUME NEW t \in Triggers, CheckPolicyExists(r, t)
      PROVE  Proceeds
  BY <1>1, <1>2, <1>6, ZenonT(30) DEF CheckPolicyExists
<1>7. ASSUME NEW name, DeleteTrigger(r, name)
      PROVE  Proceeds
  <2> DEFINE same == {u \in triggers : u.name = name}
  <2>1. /\ pc[r] = "idle" /\ Commit(r, same # {})
        /\ UNCHANGED <<snap, reloadMu, rpc, build, missed>>
        /\ triggers' = triggers \ same /\ ifaces' = ifaces
    BY <1>7 DEF DeleteTrigger, cacheVars
  <2>2. same = {} => triggers' = triggers
    BY <2>1
  <2>3. (\A k \in Keys : Evolves(k)) /\ ifaces' \in [Keys -> OptRows]
    BY <2>1 DEF Evolves, Typed, Stored
  <2> HIDE DEF same
  <2>4. QED
    BY <2>1, <2>2, <2>3, Commits, ZenonT(30)
<1>8. ASSUME NEW p \in PolicyNames, CheckUnreferenced(r, p)
      PROVE  Proceeds
  BY <1>1, <1>2, <1>8, ZenonT(30) DEF CheckUnreferenced
<1>9. ASSUME NEW p \in PolicyNames, InsertPolicy(r, p)
      PROVE  Proceeds
  <2>1. /\ pc[r] = "idle" /\ Goto(r, "done", None)
        /\ UNCHANGED <<snap, reloadMu, rpc, build, missed>> /\ UNCHANGED <<ifaces, triggers>>
    BY <1>9 DEF InsertPolicy, cacheVars
  <2>2. QED
    BY <1>2, <2>1, LeavesTables
<1>10. QED
  BY <1>3, <1>4, <1>5, <1>6, <1>7, <1>8, <1>9 DEF Start

LEMMA InsertProceeds ==
  ASSUME Typed, NEW r \in Requests, InsertInterface(r)
  PROVE  Proceeds
<1> DEFINE k == KeyOf(arg[r])
<1>1. pc[r] = "insert" /\ arg[r] \in Documents /\ k \in Keys
  BY DEF InsertInterface, Typed, Asked, Keys
<1>2. ifaces \in [Keys -> OptRows] /\ (k \notin Installed <=> ifaces[k] = None)
  BY <1>1 DEF Typed, Stored, Installed
<1>3. /\ Commit(r, k \notin Installed)
      /\ ifaces' = [ifaces EXCEPT ![k] = IF @ = None THEN [id |-> r, doc |-> arg[r]] ELSE @]
      /\ UNCHANGED <<snap, reloadMu, rpc, build, missed>> /\ UNCHANGED triggers
  BY DEF InsertInterface, cacheVars
<1>4. [id |-> r, doc |-> arg[r]] \in Rows
  BY <1>1 DEF Rows, Creators
<1> HIDE DEF k
<1>5. /\ ifaces' \in [Keys -> OptRows]
      /\ \A l \in Keys \ {k} : ifaces'[l] = ifaces[l]
      /\ ifaces[k] # None => ifaces' = ifaces
      /\ ifaces[k] = None => ifaces'[k] = [id |-> r, doc |-> arg[r]]
  BY <1>1, <1>2, <1>3, <1>4 DEF OptRows
<1>6. ASSUME pc'[r] \notin {"idle", "insert"}, NEW l \in Keys
      PROVE  Evolves(l)
  <2>1. CASE l # k \/ ifaces[k] # None
    BY <1>5, <2>1 DEF Evolves
  <2>2. CASE l = k /\ ifaces[k] = None
    <3>1. ifaces'[l] \in Rows /\ ifaces'[l].id = r
      BY <1>4, <1>5, <2>2
    <3>2. QED
      BY <1>1, <1>6, <2>2, <3>1 DEF Evolves
  <2>3. QED
    BY <2>1, <2>2
<1>7. QED
  BY <1>1, <1>2, <1>3, <1>5, <1>6, Commits, ZenonT(30)

LEMMA ReplaceProceeds ==
  ASSUME Typed, NEW r \in Requests, ReplaceInterface(r)
  PROVE  Proceeds
<1> DEFINE doc == arg[r]
           k == KeyOf(doc)
           ok == k \in Installed /\ Additive(ifaces[k].doc, doc)
<1>1. pc[r] = "replace" /\ doc \in Documents /\ k \in Keys
  BY DEF ReplaceInterface, Typed, Asked, Keys
<1>2. ifaces \in [Keys -> OptRows] /\ (ok => ifaces[k] \in Rows /\ ifaces[k] # None)
  BY <1>1 DEF Typed, Stored, Installed, OptRows
<1>3. /\ Commit(r, ok)
      /\ ifaces' = IF ok THEN [ifaces EXCEPT ![k].doc = doc] ELSE ifaces
      /\ UNCHANGED <<snap, reloadMu, rpc, build, missed>> /\ UNCHANGED triggers
  BY DEF ReplaceInterface, cacheVars
<1>4. ok => Patterns(ifaces[k].doc) \subseteq Patterns(doc)
  BY DEF Additive
<1>5. ok \in BOOLEAN
  OBVIOUS
<1> HIDE DEF doc, k, ok
<1>6. ok => /\ ifaces' \in [Keys -> OptRows]
            /\ \A l \in Keys \ {k} : ifaces'[l] = ifaces[l]
            /\ ifaces'[k] \in Rows /\ ifaces'[k].id = ifaces[k].id /\ ifaces'[k].doc = doc
  BY <1>1, <1>2, <1>3 DEF OptRows, Rows
<1>7. \A l \in Keys : Evolves(l)
  BY <1>2, <1>3, <1>4, <1>6 DEF Evolves
<1>8. QED
  BY <1>1, <1>2, <1>3, <1>5, <1>6, <1>7, Commits

LEMMA RequestProceeds ==
  ASSUME Typed, NEW r \in Requests, RequestStep(r), ~Lock(r)
  PROVE  Proceeds
<1>1. CASE RemoveInterface(r)
  <2>1. pc[r] = "remove" /\ arg[r] \in Keys /\ ifaces \in [Keys -> OptRows]
    BY <1>1 DEF RemoveInterface, Typed, Asked, Stored
  <2>2. /\ Commit(r, TRUE) /\ ifaces' = [ifaces EXCEPT ![arg[r]] = None]
        /\ UNCHANGED <<snap, reloadMu, rpc, build, missed>>
    BY <1>1, ZenonT(30) DEF RemoveInterface, cacheVars
  <2>3. ifaces' \in [Keys -> OptRows] /\ \A k \in Keys : ifaces'[k] = ifaces[k] \/ ifaces'[k] = None
    BY <2>1, <2>2 DEF OptRows
  <2>4. \A k \in Keys : Evolves(k)
    BY <2>3 DEF Evolves
  <2>5. QED
    BY <2>1, <2>2, <2>3, <2>4, Commits, ZenonT(30)
<1>2. CASE InsertTrigger(r)
  <2> DEFINE new == \A u \in triggers : u.name # arg[r].name
  <2>1. /\ pc[r] = "insertTrigger" /\ Commit(r, new) /\ ifaces' = ifaces
        /\ (~new => triggers' = triggers)
        /\ UNCHANGED <<snap, reloadMu, rpc, build, missed>>
    BY <1>2, ZenonT(30) DEF InsertTrigger, cacheVars
  <2>2. new \in BOOLEAN
    OBVIOUS
  <2> HIDE DEF new
  <2>3. (\A k \in Keys : Evolves(k)) /\ ifaces' \in [Keys -> OptRows]
    BY <2>1 DEF Evolves, Typed, Stored
  <2>4. QED
    BY <2>1, <2>2, <2>3, Commits
<1>3. CASE DropPolicy(r)
  <2>1. /\ pc[r] = "dropPolicy" /\ Goto(r, "done", None) /\ "done" \in Labels
        /\ UNCHANGED <<snap, reloadMu, rpc, build, missed>> /\ UNCHANGED <<ifaces, triggers>>
    BY <1>3 DEF DropPolicy, cacheVars, Labels
  <2>2. QED
    BY <2>1, LeavesTables
<1>4. CASE Notify(r)
  <2>1. /\ pc[r] = "notify" /\ Goto(r, "refresh", None) /\ "refresh" \in Labels
        /\ UNCHANGED <<snap, reloadMu, rpc, build, missed>> /\ UNCHANGED <<ifaces, triggers>>
    BY <1>4 DEF Notify, dbVars, cacheVars, Labels
  <2>2. QED
    BY <2>1, LeavesTables
<1>5. QED
  BY <1>1, <1>2, <1>3, <1>4, InsertProceeds, ReplaceProceeds DEF RequestStep

\* What a device declares, and a step that changes nothing here.
LEMMA IdleProceeds ==
  ASSUME Typed, (\E k \in Keys : Declare(k)) \/ UNCHANGED vars
  PROVE  Proceeds
<1>1. /\ UNCHANGED <<snap, reloadMu, rpc, build, missed>> /\ UNCHANGED <<ifaces, triggers>>
      /\ UNCHANGED <<pc, arg>>
  BY DEF Declare, vars, cacheVars, dbVars
<1>2. QED
  BY <1>1 DEF Proceeds, Evolves, Typed, Stored, Asked

-----------------------------------------------------------------------------
(* The invariant is kept *)

LEMMA ProceedsKeeps ==
  ASSUME IInv, Proceeds
  PROVE  IInv'
<1>1. UNCHANGED <<snap, reloadMu, rpc, build, missed>>
  BY DEF Proceeds
<1>2. Typed'
  BY <1>1 DEF IInv, Typed, Stored, Proceeds
<1>3. Quiet' => Quiet /\ UNCHANGED <<ifaces, triggers>>
  BY DEF Proceeds, Quiet
<1>4. BuildCurrent'
  <2>1. SUFFICES ASSUME Quiet'
                 PROVE  BuildCurrent'
    BY DEF BuildCurrent
  <2>2. BuildCurrent /\ Quiet /\ UNCHANGED <<ifaces, triggers>>
    BY <1>3, <2>1 DEF IInv
  <2>3. QED
    BY <1>1, <2>2 DEF BuildCurrent
<1>5. SnapshotCurrent'
  <2>1. SUFFICES ASSUME Settled'
                 PROVE  SnapshotCurrent'
    BY DEF SnapshotCurrent
  <2>2. Quiet'
    BY <2>1 DEF Settled, Quiet
  <2>3. Settled
    BY <1>1, <1>3, <2>1, <2>2 DEF Settled, Proceeds, Quiet
  <2>4. QED
    BY <1>1, <1>3, <2>2, <2>3 DEF SnapshotCurrent, IInv
<1>6. \A k \in Keys : Evolves(k)
  BY DEF Proceeds
<1>7. Fresh'
  <2>1. SUFFICES ASSUME NEW r \in Requests, NEW k \in Keys, pc'[r] \in {"idle", "insert"},
                        NEW x \in Held(k)'
                 PROVE  x.id # r
    BY DEF Fresh
  <2>2. pc[r] \in {"idle", "insert"}
    BY <2>1 DEF Proceeds
  <2>3. \A y \in Held(k) : y.id # r
    BY <2>2 DEF IInv, Fresh
  <2>4. CASE x \in Held(k)
    BY <2>3, <2>4
  <2>5. CASE x = ifaces'[k] /\ ifaces'[k] # ifaces[k] /\ x # None
    <3>1. CASE ifaces[k] # None /\ ifaces'[k].id = ifaces[k].id
      <4>1. ifaces[k] \in Held(k)
        BY <3>1 DEF Held, IInv, Typed, Stored
      <4>2. QED
        BY <2>3, <2>5, <3>1, <4>1
    <3>2. CASE \E q \in Requests : ifaces'[k].id = q /\ pc'[q] \notin {"idle", "insert"}
      BY <2>1, <2>5, <3>2
    <3>3. QED
      BY <1>6, <2>5, <3>1, <3>2 DEF Evolves
  <2>6. QED
    BY <1>1, <2>1, <2>4, <2>5 DEF Held
<1>8. ASSUME NEW k \in Keys
      PROVE  Served(k)'
  <2>1. SUFFICES ASSUME snap # None, snap.ifaces[k] # None,
                        ifaces'[k] # None, snap.ifaces[k].id = ifaces'[k].id
                 PROVE  Served(k)'
    BY <1>1 DEF Served
  <2>2. Served(k) /\ ifaces[k] \in OptRows /\ ifaces'[k] \in OptRows
    BY <1>2 DEF IInv, Serving, Typed, Stored
  <2>3. CASE ifaces'[k] = ifaces[k]
    BY <1>1, <2>2, <2>3 DEF Served
  <2>4. CASE /\ ifaces[k] # None /\ ifaces'[k] \in Rows
             /\ ifaces'[k].id = ifaces[k].id
             /\ Patterns(ifaces[k].doc) \subseteq Patterns(ifaces'[k].doc)
    <3>1. ifaces[k].doc \in Documents /\ ifaces'[k].doc \in Documents
      BY <2>2, <2>4 DEF OptRows, Rows
    <3>2. Compilable(ifaces'[k].doc) => Compilable(ifaces[k].doc)
      BY <2>4, <3>1, FewerEndpointsCompile
    <3>3. /\ rpc = "endpoints" =>
               /\ build.rows[k] # None /\ build.rows[k].id = ifaces[k].id
               /\ Patterns(build.rows[k].doc) \subseteq Patterns(ifaces[k].doc)
          /\ rpc \in {"triggers", "policies"} /\ Compilable(ifaces[k].doc) => build.ifaces[k] # None
      BY <2>1, <2>2, <2>4 DEF Served
    <3>4. /\ rpc = "endpoints" =>
               /\ build.rows[k] # None /\ build.rows[k].id = ifaces'[k].id
               /\ Patterns(build.rows[k].doc) \subseteq Patterns(ifaces'[k].doc)
          /\ rpc \in {"triggers", "policies"} /\ Compilable(ifaces'[k].doc) => build.ifaces[k] # None
      BY <2>4, <3>2, <3>3
    <3>5. QED
      BY <1>1, <3>4 DEF Served
  <2>5. CASE \E r \in Requests : ifaces'[k].id = r /\ pc[r] = "insert"
    <3>1. snap.ifaces[k] \in Held(k)
      BY <2>1 DEF Held, IInv, Typed, Stored
    <3>2. QED
      BY <2>1, <2>5, <3>1 DEF IInv, Fresh
  <2>6. QED
    BY <1>6, <2>1, <2>3, <2>4, <2>5 DEF Evolves
<1>9. QED
  BY <1>2, <1>4, <1>5, <1>7, <1>8 DEF IInv, Serving

LEMMA LockKeeps ==
  ASSUME IInv, NEW x, Lock(x), x \in Requests \cup {Listener, Healer}
  PROVE  IInv'
<1>1. /\ rpc' = "interfaces" /\ UNCHANGED <<ifaces, triggers, snap, build, missed>>
      /\ reloadMu' = x /\ Wakes(x, "reload")
  BY DEF Lock, dbVars
<1>2. /\ Asked'
      /\ x \in Requests => pc'[x] = "reload"
      /\ \A r \in Requests : pc'[r] = pc[r] \/ (pc[r] = "refresh" /\ pc'[r] = "reload")
  <2>1. CASE x \in Requests /\ pc[x] = "refresh" /\ Goto(x, "reload", None)
    <3>1. Asked /\ "reload" \in Labels
      BY DEF IInv, Typed, Labels
    <3>2. QED
      BY <2>1, <3>1, Moves
  <2>2. CASE x \notin Requests /\ UNCHANGED <<pc, arg>>
    BY <2>2 DEF IInv, Typed, Asked
  <2>3. QED
    BY <1>1, <2>1, <2>2, RealmAssumption DEF Wakes
<1>3. Typed'
  BY <1>1, <1>2 DEF Typed, Stored, IInv
<1>4. BuildCurrent'
  BY <1>1 DEF BuildCurrent
<1>5. SnapshotCurrent'
  <2>1. Settled' => Settled
    BY <1>1, <1>2 DEF Settled
  <2>2. QED
    BY <1>1, <2>1 DEF SnapshotCurrent, IInv
<1>6. Fresh'
  <2>1. \A k \in Keys : Held(k)' \subseteq Held(k)
    BY <1>1 DEF Held
  <2>2. QED
    BY <1>2, <2>1 DEF Fresh, IInv
<1>7. Serving'
  BY <1>1 DEF Serving, Served
<1>8. QED
  BY <1>3, <1>4, <1>5, <1>6, <1>7 DEF IInv

\* Resolved gives the row it was handed, or none.
LEMMA ResolvedRow ==
  ASSUME NEW row \in OptRows, NEW now \in OptRows
  PROVE  /\ Resolved(row, now) \in OptRows
         /\ Resolved(row, now) # None => Resolved(row, now) = row
         /\ (/\ row # None /\ now # None /\ row.id = now.id
             /\ Patterns(row.doc) \subseteq Patterns(now.doc) /\ Compilable(row.doc))
            => Resolved(row, now) # None
BY DEF Resolved, OptRows

\* A query of buildRealm: what is known of what it read carries over.
LEMMA LoadKeeps ==
  ASSUME IInv, LoadInterfaces \/ LoadEndpoints \/ LoadTriggers
  PROVE  IInv'
<1>1. UNCHANGED <<pc, arg, ifaces, triggers, snap, reloadMu, missed>>
  BY DEF LoadInterfaces, LoadEndpoints, LoadTriggers, dbVars
<1>2. SnapshotCurrent' /\ Asked' /\ (Quiet' <=> Quiet) /\ (reloadMu' \in Requests => pc'[reloadMu'] = "reload")
  BY <1>1 DEF IInv, SnapshotCurrent, Settled, Typed, Asked, Quiet
<1>3. /\ ifaces \in [Keys -> OptRows]
      /\ snap # None => snap.ifaces \in [Keys -> OptRows]
  BY DEF IInv, Typed, Stored
<1>4. CASE LoadInterfaces
  <2>1. rpc' = "endpoints" /\ build'.rows = ifaces
    BY <1>4 DEF LoadInterfaces
  <2>2. Typed' /\ BuildCurrent'
    BY <1>1, <1>2, <1>3, <2>1 DEF Typed, Stored, BuildCurrent
  <2>3. \A k \in Keys : Held(k)' \subseteq Held(k)
    BY <1>1, <2>1 DEF Held
  <2>4. Fresh'
    BY <1>1, <2>3 DEF IInv, Fresh
  <2>5. Serving'
    BY <1>1, <2>1 DEF Serving, Served
  <2>6. QED
    BY <1>2, <2>2, <2>4, <2>5 DEF IInv
<1>5. CASE LoadEndpoints
  <2>1. /\ rpc = "endpoints" /\ rpc' = "triggers"
        /\ build'.ifaces = [k \in Keys |-> Resolved(build.rows[k], ifaces[k])]
    BY <1>5 DEF LoadEndpoints
  <2>2. build.rows \in [Keys -> OptRows]
    BY <2>1 DEF IInv, Typed, Stored
  <2>3. ASSUME NEW k \in Keys
        PROVE  /\ build'.ifaces[k] \in OptRows
               /\ build'.ifaces[k] # None => build'.ifaces[k] = build.rows[k]
    BY <1>3, <2>1, <2>2, ResolvedRow
  <2>4. build'.ifaces \in [Keys -> OptRows]
    BY <2>1, <2>3
  <2>5. Typed'
    BY <1>1, <1>2, <1>3, <2>1, <2>4 DEF Typed, Stored
  <2>6. BuildCurrent'
    <3>1. Quiet => build.rows = ifaces
      BY <2>1 DEF IInv, BuildCurrent
    <3>2. QED
      BY <1>1, <1>2, <2>1, <3>1 DEF BuildCurrent
  <2>7. \A k \in Keys : Held(k)' \subseteq Held(k)
    BY <1>1, <2>1, <2>3 DEF Held
  <2>8. Fresh'
    BY <1>1, <2>7 DEF IInv, Fresh
  <2>9. ASSUME NEW k \in Keys
        PROVE  Served(k)'
    <3>1. SUFFICES ASSUME snap # None, snap.ifaces[k] # None, ifaces[k] # None,
                          snap.ifaces[k].id = ifaces[k].id, Compilable(ifaces[k].doc)
                   PROVE  build'.ifaces[k] # None
      BY <1>1, <2>1 DEF Served
    <3>2. /\ build.rows[k] # None /\ build.rows[k].id = ifaces[k].id
          /\ Patterns(build.rows[k].doc) \subseteq Patterns(ifaces[k].doc)
      BY <2>1, <3>1 DEF IInv, Serving, Served
    <3>3. build.rows[k].doc \in Documents /\ ifaces[k].doc \in Documents
      BY <1>3, <2>2, <3>1, <3>2 DEF OptRows, Rows
    <3>4. Compilable(build.rows[k].doc)
      BY <3>1, <3>2, <3>3, FewerEndpointsCompile
    <3>5. build.rows[k] \in OptRows /\ ifaces[k] \in OptRows
      BY <1>3, <2>2
    <3>6. Resolved(build.rows[k], ifaces[k]) # None
      BY <3>1, <3>2, <3>4, <3>5, ResolvedRow
    <3>7. QED
      BY <2>1, <3>6
  <2>10. QED
    BY <1>2, <2>5, <2>6, <2>8, <2>9 DEF IInv, Serving
<1>6. CASE LoadTriggers
  <2>1. /\ rpc = "triggers" /\ rpc' = "policies"
        /\ build'.ifaces = build.ifaces /\ build'.triggers = triggers
    BY <1>6 DEF LoadTriggers
  <2>2. Typed'
    BY <1>1, <1>2, <2>1 DEF IInv, Typed, Stored
  <2>3. BuildCurrent'
    BY <1>1, <1>2, <2>1 DEF IInv, BuildCurrent
  <2>4. \A k \in Keys : Held(k)' \subseteq Held(k)
    BY <1>1, <2>1 DEF Held
  <2>5. Fresh'
    BY <1>1, <2>4 DEF IInv, Fresh
  <2>6. Serving'
    BY <1>1, <2>1 DEF IInv, Serving, Served
  <2>7. QED
    BY <1>2, <2>2, <2>3, <2>5, <2>6 DEF IInv
<1>7. QED
  BY <1>4, <1>5, <1>6

\* The mutex is given back: nobody who waits for a reload is forgotten.
LEMMA Unlocks ==
  ASSUME IInv, NEW failed, Unlock(failed)
  PROVE  /\ UNCHANGED <<ifaces, triggers>> /\ rpc' = "none" /\ missed' = failed
         /\ Asked' /\ reloadMu' \notin Requests
         /\ Quiet' => Quiet
         /\ \A r \in Requests : pc'[r] \in {"idle", "insert"} => pc[r] \in {"idle", "insert"}
<1>1. /\ UNCHANGED <<arg, ifaces, triggers>> /\ rpc' = "none" /\ missed' = failed
      /\ reloadMu' = None
      /\ pc' = [r \in Requests |-> IF r = reloadMu THEN "done" ELSE pc[r]]
  BY DEF Unlock, dbVars
<1>2. pc \in [Requests -> Labels] /\ (reloadMu \in Requests => pc[reloadMu] = "reload")
  BY DEF IInv, Typed, Asked
<1>3. /\ pc' \in [Requests -> Labels]
      /\ \A r \in Requests : pc'[r] = pc[r] \/ (pc'[r] = "done" /\ pc[r] = "reload")
  BY <1>1, <1>2 DEF Labels
<1>4. Asked'
  BY <1>1, <1>3 DEF IInv, Typed, Asked
<1>5. reloadMu' \notin Requests
  BY <1>1, RealmAssumption
<1>6. QED
  BY <1>1, <1>3, <1>4, <1>5 DEF Quiet

LEMMA SwapKeeps ==
  ASSUME IInv, LoadPoliciesAndSwap
  PROVE  IInv'
<1>1. /\ rpc = "policies" /\ Unlock(FALSE)
      /\ snap' = [ifaces |-> build.ifaces, triggers |-> {Attached(t) : t \in build.triggers}]
  BY ZenonT(30) DEF LoadPoliciesAndSwap
<1>2. /\ UNCHANGED <<ifaces, triggers>> /\ rpc' = "none"
      /\ Asked' /\ reloadMu' \notin Requests
      /\ Quiet' => Quiet
      /\ \A r \in Requests : pc'[r] \in {"idle", "insert"} => pc[r] \in {"idle", "insert"}
  BY <1>1, Unlocks, ZenonT(30)
<1>3. snap'.ifaces = build.ifaces /\ snap'.triggers = {Attached(t) : t \in build.triggers}
  BY <1>1
<1>4. Typed'
  BY <1>1, <1>2, <1>3 DEF IInv, Typed, Stored
<1>5. {t.trigger : t \in snap'.triggers} = build.triggers
  <2>1. \A t : Attached(t).trigger = t
    BY DEF Attached
  <2>2. QED
    BY <1>3, <2>1
<1>6. SnapshotCurrent'
  <2>1. SUFFICES ASSUME Settled'
                 PROVE  SnapshotCurrent'
    BY DEF SnapshotCurrent
  <2>2. Quiet
    BY <1>2, <2>1 DEF Settled, Quiet
  <2>3. build.ifaces = [k \in Keys |-> Resolved(ifaces[k], ifaces[k])] /\ build.triggers = triggers
    BY <1>1, <2>2 DEF IInv, BuildCurrent
  <2>4. QED
    BY <1>2, <1>3, <1>5, <2>3 DEF SnapshotCurrent
<1>7. Fresh'
  <2>1. \A k \in Keys : Held(k)' \subseteq Held(k)
    BY <1>1, <1>2, <1>3 DEF Held
  <2>2. QED
    BY <1>2, <2>1 DEF IInv, Fresh
<1>8. QED
  BY <1>2, <1>4, <1>6, <1>7 DEF IInv, BuildCurrent, Serving, Served

LEMMA FailureKeeps ==
  ASSUME IInv, ReloadFails
  PROVE  IInv'
<1>1. Unlock(TRUE) /\ UNCHANGED snap
  BY ZenonT(30) DEF ReloadFails
<1>2. /\ UNCHANGED <<ifaces, triggers>> /\ rpc' = "none" /\ missed' = TRUE
      /\ Asked' /\ reloadMu' \notin Requests
      /\ \A r \in Requests : pc'[r] \in {"idle", "insert"} => pc[r] \in {"idle", "insert"}
  BY <1>1, Unlocks, ZenonT(30)
<1>3. Typed'
  BY <1>1, <1>2 DEF IInv, Typed, Stored
<1>4. Fresh'
  <2>1. \A k \in Keys : Held(k)' \subseteq Held(k)
    BY <1>1, <1>2 DEF Held
  <2>2. QED
    BY <1>2, <2>1 DEF IInv, Fresh
<1>5. QED
  BY <1>2, <1>3, <1>4 DEF IInv, SnapshotCurrent, Settled, BuildCurrent, Serving, Served

LEMMA InitIInv ==
  ASSUME Init
  PROVE  IInv
<1>1. /\ pc = [r \in Requests |-> "idle"] /\ arg = [r \in Requests |-> None]
      /\ ifaces \in [Keys -> OptRows] /\ reloadMu = None /\ rpc = "none"
      /\ \A k \in Keys : ifaces[k] # None => ifaces[k].id = Earlier
  BY DEF Init, InitTables, OptRows, Installed
<1>2. ASSUME snap # None
      PROVE  /\ snap.ifaces = [k \in Keys |-> Resolved(ifaces[k], ifaces[k])]
             /\ snap.triggers = {Attached(t) : t \in triggers}
  BY <1>2 DEF Init
<1>3. ASSUME NEW k \in Keys
      PROVE  /\ Resolved(ifaces[k], ifaces[k]) \in OptRows
             /\ Resolved(ifaces[k], ifaces[k]) # None => Resolved(ifaces[k], ifaces[k]) = ifaces[k]
  BY <1>1, ResolvedRow
<1>4. Typed
  <2>1. Asked
    BY <1>1 DEF Asked, Labels
  <2>2. Stored
    BY <1>1, <1>2, <1>3 DEF Stored
  <2>3. QED
    BY <1>1, <2>1, <2>2, RealmAssumption DEF Typed
<1>5. SnapshotCurrent
  <2>1. \A t : Attached(t).trigger = t
    BY DEF Attached
  <2>2. snap # None => {t.trigger : t \in snap.triggers} = triggers
    BY <1>2, <2>1
  <2>3. QED
    BY <1>2, <2>2 DEF SnapshotCurrent, Settled
<1>6. Fresh
  <2>1. \A k \in Keys : \A x \in Held(k) : x.id = Earlier
    BY <1>1, <1>2, <1>3 DEF Held
  <2>2. QED
    BY <2>1, RealmAssumption DEF Fresh
<1>7. QED
  BY <1>1, <1>4, <1>5, <1>6 DEF IInv, BuildCurrent, Serving, Served

\* A step is one of these.
LEMMA Steps ==
  ASSUME Typed, [Next]_vars
  PROVE  \/ Proceeds
         \/ \E x \in Requests \cup {Listener, Healer} : Lock(x)
         \/ Reload
BY StartProceeds, RequestProceeds, IdleProceeds DEF Next, RequestStep

LEMMA IInvStep ==
  ASSUME IInv, [Next]_vars
  PROVE  IInv'
<1>1. Typed
  BY DEF IInv
<1>2. QED
  BY <1>1, Steps, ProceedsKeeps, LockKeeps, LoadKeeps, SwapKeeps, FailureKeeps DEF Reload

\* For every set of requests, documents and triggers, and every number of failed
\* queries and notifications: once no committed change waits for its refresh and
\* the last reload worked, the engine's snapshot is what the tables hold,
\* however reloads and transactions interleaved (reloadRealm, RefreshInterfaces).
THEOREM SnapshotCatchesUp == Spec => []SnapshotCurrent
<1>1. Init => IInv
  BY InitIInv
<1>2. IInv /\ [Next]_vars => IInv'
  BY IInvStep
<1>3. IInv => SnapshotCurrent
  BY DEF IInv
<1>4. QED
  BY <1>1, <1>2, <1>3, PTL DEF Spec

\* For every set of requests and documents: a reload keeps serving an interface
\* that stays installed, whatever is committed between its queries, and no
\* update drops an endpoint (LoadRealmInterfaces, UpdateInterface of the store).
THEOREM ServiceKept == Spec => NoServiceGap
<1> DEFINE Kept ==
      \A k \in Keys :
        /\ snap # None /\ snap.ifaces[k] # None /\ ifaces[k] # None
           /\ snap.ifaces[k].id = ifaces[k].id /\ Compilable(ifaces[k].doc)
           => snap'.ifaces[k] # None
        /\ ifaces[k] # None /\ ifaces'[k] # None /\ ifaces'[k].id = ifaces[k].id
           => Patterns(ifaces[k].doc) \subseteq Patterns(ifaces'[k].doc)
<1>1. Init => IInv
  BY InitIInv
<1>2. IInv /\ [Next]_vars => IInv'
  BY IInvStep
<1>3. ASSUME IInv, [Next]_vars
      PROVE  Kept
  <2>1. CASE Proceeds
    BY <2>1 DEF Proceeds, Evolves
  <2>2. CASE UNCHANGED <<snap, ifaces>>
    BY <2>2
  <2>3. CASE LoadPoliciesAndSwap
    <3>1. snap'.ifaces = build.ifaces /\ ifaces' = ifaces /\ rpc = "policies"
      BY <2>3 DEF LoadPoliciesAndSwap, Unlock, dbVars
    <3>2. QED
      BY <1>3, <3>1 DEF IInv, Serving, Served
  <2>4. (\E x \in Requests \cup {Listener, Healer} : Lock(x)) => UNCHANGED <<snap, ifaces>>
    BY DEF Lock, dbVars
  <2>5. Reload => LoadPoliciesAndSwap \/ UNCHANGED <<snap, ifaces>>
    BY DEF Reload, LoadInterfaces, LoadEndpoints, LoadTriggers, ReloadFails, Unlock, dbVars
  <2>6. Typed
    BY <1>3 DEF IInv
  <2> HIDE DEF Kept
  <2>7. QED
    BY <1>3, <2>1, <2>2, <2>3, <2>4, <2>5, <2>6, Steps
<1>4. IInv /\ [Next]_vars => [Kept]_vars
  BY <1>3
<1>5. QED
  BY <1>1, <1>2, <1>4, PTL DEF Spec, NoServiceGap

-----------------------------------------------------------------------------
(* What a minor upgrade keeps *)

(* Endpoints with the same normalized key are satisfied by the same paths,     *)
(* whatever their placeholders are called (normalizedKey).                     *)
LEMMA SameKeySamePaths ==
  ASSUME NEW a, NEW b,
         Segs(a) \in Seq([literal : STRING, param : BOOLEAN]),
         Segs(b) \in Seq([literal : STRING, param : BOOLEAN]),
         NormalizedKey(a) = NormalizedKey(b),
         NEW path \in Seq(STRING), Satisfies(path, Segs(a))
  PROVE  Satisfies(path, Segs(b))
<1>1. DOMAIN Segs(a) = DOMAIN Segs(b)
  <2>1. DOMAIN NormalizedKey(a) = DOMAIN Segs(a) /\ DOMAIN NormalizedKey(b) = DOMAIN Segs(b)
    BY DEF NormalizedKey
  <2>2. QED
    BY <2>1
<1>2. /\ Len(Segs(a)) \in Nat /\ DOMAIN Segs(a) = 1..Len(Segs(a))
      /\ Len(Segs(b)) \in Nat /\ DOMAIN Segs(b) = 1..Len(Segs(b))
      /\ Len(path) \in Nat /\ DOMAIN path = 1..Len(path)
  OBVIOUS
<1>3. Len(Segs(a)) = Len(Segs(b)) /\ Len(path) = Len(Segs(a)) /\ DOMAIN path = DOMAIN Segs(a)
  <2>1. Len(path) = Len(Segs(a))
    BY Zenon DEF Satisfies
  <2>2. \A m, n \in Nat : 1..m = 1..n => m = n
    OBVIOUS
  <2>3. QED
    BY Zenon, <1>1, <1>2, <2>1, <2>2
<1>4. ASSUME NEW k \in DOMAIN path
      PROVE  IF Segs(b)[k].param THEN PlaceholderValueOK(path[k]) ELSE Segs(b)[k].literal = path[k]
  <2> DEFINE s == Segs(a)[k]
             t == Segs(b)[k]
  <2>1. (IF s.param THEN Param("") ELSE s) = (IF t.param THEN Param("") ELSE t)
    <3>1. /\ NormalizedKey(a)[k] = (IF s.param THEN Param("") ELSE s)
          /\ NormalizedKey(b)[k] = (IF t.param THEN Param("") ELSE t)
      BY <1>1, <1>3, <1>4 DEF NormalizedKey
    <3>2. QED
      BY <3>1
  <2>2. Param("").param = TRUE
    BY DEF Param
  <2>3. IF s.param THEN PlaceholderValueOK(path[k]) ELSE s.literal = path[k]
    BY <1>4 DEF Satisfies
  <2> HIDE DEF s, t
  <2>4. (s.param /\ t.param) \/ (~s.param /\ ~t.param /\ s = t)
    BY Zenon, <2>1, <2>2
  <2>5. IF t.param THEN PlaceholderValueOK(path[k]) ELSE t.literal = path[k]
    BY Zenon, <2>3, <2>4
  <2>6. QED
    BY Zenon, <2>5 DEF t
<1>5. QED
  BY <1>3, <1>4 DEF Satisfies

(* No path satisfies two endpoints of a document ParseInterface accepts.       *)
LEMMA OneEndpointPerPath ==
  ASSUME NEW doc \in Documents, NEW i \in DOMAIN doc.mappings, NEW j \in DOMAIN doc.mappings,
         NEW path \in Seq(STRING),
         Satisfies(path, Segs(doc.mappings[i])), Satisfies(path, Segs(doc.mappings[j]))
  PROVE  i = j
<1> SUFFICES ASSUME i # j PROVE FALSE
  OBVIOUS
<1> DEFINE a == Segs(doc.mappings[i])
           b == Segs(doc.mappings[j])
<1>1. EndpointsUnique(doc.mappings) /\ i \in Nat /\ j \in Nat
  BY RealmAssumption DEF Parses
<1>2. /\ a \in Seq([literal : STRING, param : BOOLEAN])
      /\ b \in Seq([literal : STRING, param : BOOLEAN])
  BY RealmAssumption DEF Segs
<1>3. Len(a) = Len(b) /\ DOMAIN a = DOMAIN path /\ DOMAIN b = DOMAIN path
  <2>1. Len(path) = Len(a) /\ Len(path) = Len(b)
    BY Zenon DEF Satisfies
  <2>2. DOMAIN a = 1..Len(a) /\ DOMAIN b = 1..Len(b) /\ DOMAIN path = 1..Len(path)
    BY <1>2
  <2>3. QED
    BY Zenon, <2>1, <2>2
<1> HIDE DEF a, b
<1>4. \A k \in DOMAIN path : Meet(a[k], b[k]) /\ Meet(b[k], a[k])
  BY Zenon DEF Satisfies, Meet, a, b
<1>5. Overlap(a, b) /\ Overlap(b, a)
  BY Zenon, <1>3, <1>4 DEF Overlap
<1>6. i < j \/ j < i
  BY <1>1
<1>7. QED
  BY Zenon, <1>1, <1>5, <1>6 DEF EndpointsUnique, Indices, a, b

(* A path a device may publish on under one version of an interface it may     *)
(* publish on under every minor upgrade, and whatever endpoint of the upgrade  *)
(* it satisfies has the type and the attributes it had (CheckMinorUpgrade).    *)
THEOREM UpgradesKeepPaths ==
  ASSUME NEW old \in Documents, NEW new \in Documents, CheckMinorUpgrade(old, new),
         NEW path \in Seq(STRING), NEW i \in Indices(old.mappings),
         Satisfies(path, Segs(old.mappings[i]))
  PROVE  /\ \E j \in Indices(new.mappings) : Satisfies(path, Segs(new.mappings[j]))
         /\ \A j \in Indices(new.mappings) : Satisfies(path, Segs(new.mappings[j])) =>
              SameMappingAttributes(old.mappings[i], new.mappings[j])
<1>1. PICK j \in Indices(new.mappings) :
        /\ NormalizedKey(new.mappings[j]) = NormalizedKey(old.mappings[i])
        /\ SameMappingAttributes(old.mappings[i], new.mappings[j])
  BY Zenon DEF CheckMinorUpgrade
<1>2. /\ Segs(old.mappings[i]) \in Seq([literal : STRING, param : BOOLEAN])
      /\ Segs(new.mappings[j]) \in Seq([literal : STRING, param : BOOLEAN])
  BY RealmAssumption DEF Segs, Indices
<1>3. Satisfies(path, Segs(new.mappings[j]))
  BY <1>1, <1>2, SameKeySamePaths
<1>4. \A n \in Indices(new.mappings) : Satisfies(path, Segs(new.mappings[n])) => n = j
  BY <1>3, OneEndpointPerPath DEF Indices
<1>5. QED
  BY Zenon, <1>1, <1>3, <1>4
=============================================================================
