----------------------------- MODULE Retention -----------------------------
(***************************************************************************)
(* Retention, cold-storage archival, integrity checks and purge of closed  *)
(* incidents: services/incident_retention.py, incident_archive_integrity.  *)
(* py, the two archive stores, and the routes that call them.              *)
(*                                                                         *)
(* A request runs in a worker.  Its reads are separate steps, its writes   *)
(* become visible in its commit, and the object store, which is outside    *)
(* the transaction, is written before the commit.  A request may fail      *)
(* between any two steps: its session is rolled back, the store is not.    *)
(*                                                                         *)
(* Abstractions: a payload is the number of the write that stored it, the  *)
(* checksum of a row is the number of the payload it was computed from; a  *)
(* retention age is a small number of days that does not pass in a run     *)
(* (the policy moves instead); an archive number is its incident and       *)
(* format, which is what the code builds it from.                          *)
(***************************************************************************)
EXTENDS Naturals, FiniteSets

CONSTANTS
  Incident,     \* incident ids
  Bare,         \* incidents whose timeline has no event (imported rows)
  Age,          \* [Incident -> Nat], days since creation
  Worker,       \* concurrent requests
  Kinds,        \* [Worker -> kinds of request the worker runs]
  Format,       \* archive formats in use, of JSON and PDF
  Hold,         \* hold ids
  DefaultAge,   \* minimum_purge_age_days of the default policy
  Selections,   \* incident_ids of archive requests, the empty list meaning all
  Updates,      \* policies operators set: <<purge age, require archive>>
  MaxPayload,   \* bound: payloads generated
  MaxChecks     \* bound: integrity checks recorded

ASSUME RetentionAssumption ==
  /\ Bare \subseteq Incident
  /\ Age \in [Incident -> Nat]
  /\ IsFiniteSet(Worker)
  /\ Kinds \in [Worker -> SUBSET {"archive", "purge", "verify", "orphans"}]
  /\ Format \subseteq {"JSON", "PDF"}
  /\ Format # {}
  /\ DefaultAge \in Nat
  /\ Selections \subseteq SUBSET Incident
  /\ Updates \subseteq Nat \X BOOLEAN
  /\ MaxPayload \in Nat
  /\ MaxChecks \in Nat

VARIABLES
  incident,   \* [Incident -> [present, closed, archived : BOOLEAN]]
  policy,     \* the enabled policy row, or NoPolicy
  holds,      \* [Hold -> [active : BOOLEAN, of : incident or None]]
  archives,   \* the rows of incident_archives
  objects,    \* [Key -> payload stored, 0 when there is no object]
  payloads,   \* payloads generated so far
  checks,     \* integrity checks committed
  trail,      \* audit events of integrity checks committed
  batches,    \* verification requests that have recorded a check
  unknown,    \* checks of archives that were gone, which have no audit event
  late,       \* [Hold -> workers that had read the holds before it]
  pc, ctx     \* control point and local variables of each request

vars == <<incident, policy, holds, archives, objects, payloads,
          checks, trail, batches, unknown, late, pc, ctx>>
store == <<archives, objects, payloads>>
audit == <<checks, trail, batches, unknown>>

-----------------------------------------------------------------------------
AnyFormat == CHOOSE f \in Format : TRUE
Archivers == {w \in Worker : "archive" \in Kinds[w]}
Key == Incident \X Format
None == "none"
NoPolicy == [purgeAge |-> 0, requireArchive |-> FALSE, exists |-> FALSE]
DefaultPolicy == [purgeAge |-> DefaultAge, requireArchive |-> TRUE, exists |-> TRUE]
Policies == [purgeAge : {0, DefaultAge} \cup {u[1] : u \in Updates}, requireArchive : BOOLEAN, exists : BOOLEAN]

IncidentRow == [present : BOOLEAN, closed : BOOLEAN, archived : BOOLEAN]
HoldRow == [active : BOOLEAN, of : Incident \cup {None}]
ArchiveRow == [key : Key, sum : 1 .. MaxPayload]

Context == [op : {"none", "archive", "purge", "verify", "orphans"},
            ids : SUBSET Incident, format : Format, policy : Policies,
            todo : SUBSET Incident, held : SUBSET Incident,
            rows : SUBSET ArchiveRow, victims : SUBSET Incident,
            keys : SUBSET Key, pending : 0 .. MaxChecks, fresh : BOOLEAN]

NoContext == [op |-> "none", ids |-> {}, format |-> AnyFormat, policy |-> NoPolicy,
              todo |-> {}, held |-> {}, rows |-> {}, victims |-> {},
              keys |-> {}, pending |-> 0, fresh |-> TRUE]

TypeOK ==
  /\ incident \in [Incident -> IncidentRow]
  /\ policy \in Policies
  /\ holds \in [Hold -> HoldRow]
  /\ archives \subseteq ArchiveRow
  /\ objects \in [Key -> 0 .. MaxPayload]
  /\ payloads \in 0 .. MaxPayload
  /\ checks \in 0 .. MaxChecks
  /\ trail \in 0 .. MaxChecks
  /\ batches \in 0 .. MaxChecks
  /\ unknown \in 0 .. MaxChecks
  /\ late \in [Hold -> SUBSET Worker]
  /\ pc \in [Worker -> {"idle", "policy", "insert", "read", "holds", "loop", "write"}]
  /\ ctx \in [Worker -> Context]

Init ==
  /\ incident = [i \in Incident |-> [present |-> TRUE, closed |-> FALSE, archived |-> FALSE]]
  /\ policy = NoPolicy
  /\ holds = [h \in Hold |-> [active |-> FALSE, of |-> None]]
  /\ archives = {}
  /\ objects = [k \in Key |-> 0]
  /\ payloads = 0
  /\ checks = 0
  /\ trail = 0
  /\ batches = 0
  /\ unknown = 0
  /\ late = [h \in Hold |-> {}]
  /\ pc = [w \in Worker |-> "idle"]
  /\ ctx = [w \in Worker |-> NoContext]

-----------------------------------------------------------------------------
(* Shared reads.                                                           *)

HeldOnce == {holds[h].of : h \in Hold} \cap {None}
Held == {holds[h].of : h \in {g \in Hold : holds[g].active}}
ArchivesOf(i) == {a \in archives : a.key[1] = i}
IsArchived(i) == ArchivesOf(i) # {} \/ incident[i].archived

(* Both stores answer True only for the payload the checksum was taken of. *)
Verified(a) == objects[a.key] = a.sum

(* The eligibility rules of evaluate_retention.                            *)
CanPurge(i, p, held) ==
  /\ incident[i].closed
  /\ i \notin held
  /\ Age[i] >= p.purgeAge
  /\ p.requireArchive => IsArchived(i)

(* The rules purge_incidents applies again to an incident it read closed.  *)
YoungPurge(w, i) ==
  /\ i \notin ctx[w].held
  /\ ctx[w].policy.requireArchive => IsArchived(i)

PurgeUnarchived(w, i) ==
  /\ i \notin ctx[w].held
  /\ Age[i] >= ctx[w].policy.purgeAge

PurgeRules(w, i) ==
  /\ i \notin ctx[w].held
  /\ Age[i] >= ctx[w].policy.purgeAge
  /\ ctx[w].policy.requireArchive => IsArchived(i)

(* End of a request: the session is closed and what it did not commit is   *)
(* gone, audit rows added after the last commit included.                  *)
Close(w) ==
  /\ pc' = [pc EXCEPT ![w] = "idle"]
  /\ ctx' = [ctx EXCEPT ![w] = NoContext]
  /\ late' = [h \in Hold |-> late[h] \ {w}]

Goto(w, step) == pc' = [pc EXCEPT ![w] = step]

-----------------------------------------------------------------------------
(* Requests that are one transaction.                                      *)

(* place_hold: 404 for an unknown incident, then one commit.               *)
PlaceHold(h, i) ==
  /\ holds[h].of = None
  /\ incident[i].present
  /\ holds' = [holds EXCEPT ![h] = [active |-> TRUE, of |-> i]]
  /\ late' = [late EXCEPT ![h] = {w \in Worker : pc[w] \in {"loop", "write"}}]
  /\ UNCHANGED <<incident, policy, store, audit, pc, ctx>>

(* release_hold: only an active hold.                                      *)
ReleaseHold(h) ==
  /\ holds[h].active
  /\ holds' = [holds EXCEPT ![h].active = FALSE]
  /\ UNCHANGED <<incident, policy, store, audit, late, pc, ctx>>

(* update_policy, of the policy there is or of the default one it creates. *)
UpdatePolicy(u) ==
  /\ policy' = [purgeAge |-> u[1], requireArchive |-> u[2], exists |-> TRUE]
  /\ UNCHANGED <<incident, holds, store, audit, late, pc, ctx>>

(* The incident service closes and reopens incidents meanwhile.            *)
ChangeStatus(i) ==
  /\ incident[i].present
  /\ incident' = [incident EXCEPT ![i].closed = ~@]
  /\ UNCHANGED <<policy, holds, store, audit, late, pc, ctx>>

-----------------------------------------------------------------------------
(* get_or_create_policy: the read, then, when no policy is enabled, an     *)
(* insert of its own that the unique policy_name may refuse.               *)

Begin(w, op, ids, f) ==
  /\ pc[w] = "idle"
  /\ op \in Kinds[w]
  /\ ctx' = [ctx EXCEPT ![w] = [NoContext EXCEPT !.op = op, !.ids = ids, !.format = f]]
  /\ Goto(w, IF op \in {"archive", "purge"} THEN "policy" ELSE "read")
  /\ UNCHANGED <<incident, policy, holds, store, audit, late>>

GetPolicy(w) ==
  /\ pc[w] = "policy"
  /\ ctx' = [ctx EXCEPT ![w].policy = IF ctx[w].op = "purge" THEN policy ELSE NoPolicy]
  /\ Goto(w, IF policy.exists THEN "read" ELSE "insert")
  /\ UNCHANGED <<incident, policy, holds, store, audit, late>>

CreatePolicy(w) ==
  /\ pc[w] = "insert"
  /\ IF policy.exists
     THEN Close(w) /\ UNCHANGED policy
     ELSE /\ policy' = DefaultPolicy
          /\ Goto(w, "policy")
          /\ UNCHANGED <<late, ctx>>
  /\ UNCHANGED <<incident, holds, store, audit>>

-----------------------------------------------------------------------------
(* The incidents of the request, then the holds, each in one query; the    *)
(* loops below work on these two answers.                                  *)

ReadIncidents(w) ==
  /\ pc[w] = "read"
  /\ ctx[w].op \in {"archive", "purge"}
  /\ ctx' = [ctx EXCEPT ![w].todo = {i \in ctx[w].ids : incident[i].present /\ incident[i].closed},
                        ![w].ids = {}]
  /\ Goto(w, "holds")
  /\ UNCHANGED <<incident, policy, holds, store, audit, late>>

ReadHolds(w) ==
  /\ pc[w] = "holds"
  /\ ctx' = [ctx EXCEPT ![w].held = Held]
  /\ Goto(w, "loop")
  /\ UNCHANGED <<incident, policy, holds, store, audit, late>>

-----------------------------------------------------------------------------
(* archive_incidents.                                                      *)

(* One turn of the loop up to the query for an existing archive: a held or *)
(* an archived incident is passed over.                                    *)
PickAgain(w, i) ==
  /\ pc[w] = "loop"
  /\ ctx[w].op = "archive"
  /\ i \in ctx[w].todo \ ctx[w].held
  /\ ctx' = [ctx EXCEPT ![w].keys = {<<i, ctx[w].format>>}]
  /\ Goto(w, "write")
  /\ UNCHANGED <<incident, policy, holds, store, audit, late>>

PickIncident(w, i) ==
  /\ pc[w] = "loop"
  /\ ctx[w].op = "archive"
  /\ i \in ctx[w].todo
  /\ IF i \in ctx[w].held \/ ArchivesOf(i) # {}
     THEN ctx' = [ctx EXCEPT ![w].todo = @ \ {i}] /\ UNCHANGED pc
     ELSE ctx' = [ctx EXCEPT ![w].keys = {<<i, ctx[w].format>>}] /\ Goto(w, "write")
  /\ UNCHANGED <<incident, policy, holds, store, audit, late>>

(* The payload is generated and stored under the archive number, over      *)
(* whatever was there; the row joins the session.                          *)
StoreEarlySum(w) ==
  /\ pc[w] = "write"
  /\ payloads < MaxPayload
  /\ LET k == CHOOSE key \in ctx[w].keys : TRUE IN
     /\ payloads' = payloads + 1
     /\ objects' = [objects EXCEPT ![k] = payloads']
     /\ ctx' = [ctx EXCEPT ![w].rows = @ \cup {[key |-> k, sum |-> payloads]},
                           ![w].todo = @ \ {k[1]}, ![w].keys = {}]
  /\ Goto(w, "loop")
  /\ UNCHANGED <<incident, policy, holds, archives, audit, late>>

StoreObject(w) ==
  /\ pc[w] = "write"
  /\ payloads < MaxPayload
  /\ LET k == CHOOSE key \in ctx[w].keys : TRUE IN
     /\ payloads' = payloads + 1
     /\ objects' = [objects EXCEPT ![k] = payloads']
     /\ ctx' = [ctx EXCEPT ![w].rows = @ \cup {[key |-> k, sum |-> payloads']},
                           ![w].todo = @ \ {k[1]}, ![w].keys = {}]
  /\ Goto(w, "loop")
  /\ UNCHANGED <<incident, policy, holds, archives, audit, late>>

(* The one commit of the request: refused by the unique archive_number and *)
(* by the foreign key to an incident that is gone.                         *)
CommitArchive(w) ==
  LET new == ctx[w].rows IN
  /\ pc[w] = "loop"
  /\ ctx[w].op = "archive"
  /\ ctx[w].todo = {}
  /\ IF \A r \in new : incident[r.key[1]].present /\ \A a \in archives : a.key # r.key
     THEN /\ archives' = archives \cup new
          /\ incident' = [i \in Incident |->
               IF \E r \in new : r.key[1] = i THEN [incident[i] EXCEPT !.archived = TRUE]
               ELSE incident[i]]
     ELSE UNCHANGED <<archives, incident>>
  /\ Close(w)
  /\ UNCHANGED <<policy, holds, objects, payloads, audit>>

-----------------------------------------------------------------------------
(* purge_incidents with confirm = True.                                    *)

(* The archive, when there is one, is verified first; a store that cannot  *)
(* be read verifies nothing.                                               *)
Examine(w, i) ==
  /\ pc[w] = "loop"
  /\ ctx[w].op = "purge"
  /\ i \in ctx[w].todo
  /\ \/ /\ PurgeRules(w, i)
        /\ ArchivesOf(i) # {} => \E a \in ArchivesOf(i) : Verified(a)
        /\ ctx' = [ctx EXCEPT ![w].todo = @ \ {i}, ![w].victims = @ \cup {i}]
     \/ /\ ~PurgeRules(w, i) \/ ArchivesOf(i) # {}
        /\ ctx' = [ctx EXCEPT ![w].todo = @ \ {i}]
  /\ UNCHANGED <<incident, policy, holds, store, audit, late, pc>>

(* The before_delete listener of IncidentEvent refuses every timeline row, *)
(* so the flush fails as soon as one victim has a timeline.                *)
DeletableAlways(w) == TRUE
Deletable(w) == ctx[w].victims \subseteq Bare

(* Deleting an incident cascades to its holds and archive rows, not to the *)
(* stored object.                                                          *)
CommitPurge(w) ==
  LET gone == ctx[w].victims IN
  /\ pc[w] = "loop"
  /\ ctx[w].op = "purge"
  /\ ctx[w].todo = {}
  /\ IF Deletable(w)
     THEN /\ incident' = [i \in Incident |->
               IF i \in gone THEN [present |-> FALSE, closed |-> FALSE, archived |-> FALSE]
               ELSE incident[i]]
          /\ archives' = {a \in archives : a.key[1] \notin gone}
          /\ holds' = [h \in Hold |-> IF holds[h].of \in gone
                                      THEN [active |-> FALSE, of |-> None] ELSE holds[h]]
     ELSE UNCHANGED <<incident, archives, holds>>
  /\ Close(w)
  /\ UNCHANGED <<policy, objects, payloads, audit>>

-----------------------------------------------------------------------------
(* verify_archives and verify_archive: each archive of the batch is read,  *)
(* checked and committed on its own; its audit row is added afterwards and *)
(* so belongs to the next commit of the session, when there is one.        *)

ReadBatch(w, batch) ==
  /\ pc[w] = "read"
  /\ ctx[w].op = "verify"
  /\ batch \subseteq {a.key : a \in archives}
  /\ ctx' = [ctx EXCEPT ![w].keys = batch]
  /\ Goto(w, "loop")
  /\ UNCHANGED <<incident, policy, holds, store, audit, late>>

RecordUnaudited(w) ==
  /\ checks < MaxChecks
  /\ checks' = checks + 1
  /\ batches' = IF ctx[w].fresh THEN batches + 1 ELSE batches
  /\ UNCHANGED trail

RecordCheck(w) ==
  /\ checks < MaxChecks
  /\ checks' = checks + 1
  /\ trail' = trail + ctx[w].pending
  /\ batches' = IF ctx[w].fresh THEN batches + 1 ELSE batches

(* An archive row that is gone by now is recorded as INVALID_ARCHIVE_      *)
(* METADATA, a check without an audit row; any other verdict, the store    *)
(* being unavailable included, is followed by one.                         *)
VerifyArchive(w, k) ==
  /\ pc[w] = "loop"
  /\ ctx[w].op = "verify"
  /\ k \in ctx[w].keys
  /\ RecordCheck(w)
  /\ \E known \in {IF \E a \in archives : a.key = k THEN 1 ELSE 0} :
       /\ unknown' = unknown + 1 - known
       /\ ctx' = [ctx EXCEPT ![w].keys = @ \ {k}, ![w].fresh = FALSE, ![w].pending = known]
  /\ UNCHANGED <<incident, policy, holds, store, late, pc>>

(* detect_orphans: the archive numbers are read first, the directory is    *)
(* listed after; every object without a number is a check, and its audit   *)
(* row is inside the commit.  The commit is made with or without orphans.  *)
ReadNumbers(w) ==
  /\ \/ pc[w] = "read" /\ ctx[w].op = "orphans"
     \/ pc[w] = "loop" /\ ctx[w].op = "verify" /\ ctx[w].keys = {}
  /\ ctx' = [ctx EXCEPT ![w].op = "orphans", ![w].keys = {a.key : a \in archives}]
  /\ Goto(w, "loop")
  /\ UNCHANGED <<incident, policy, holds, store, audit, late>>

Orphans(known) == {k \in Key : objects[k] # 0 /\ k \notin known}

ListObjects(w) ==
  LET found == Cardinality(Orphans(ctx[w].keys)) IN
  /\ pc[w] = "loop"
  /\ ctx[w].op = "orphans"
  /\ checks + found <= MaxChecks
  /\ checks' = checks + found
  /\ trail' = trail + ctx[w].pending + found
  /\ Close(w)
  /\ UNCHANGED <<incident, policy, holds, store, batches, unknown>>

EndVerification(w) ==
  /\ pc[w] = "loop"
  /\ ctx[w].op = "verify"
  /\ ctx[w].keys = {}
  /\ Close(w)
  /\ UNCHANGED <<incident, policy, holds, store, audit>>

-----------------------------------------------------------------------------
(* A database or storage error, a lost client or a stopped process ends a  *)
(* request anywhere before its commit.                                     *)
Fail(w) ==
  /\ pc[w] # "idle"
  /\ Close(w)
  /\ UNCHANGED <<incident, policy, holds, store, audit>>

GovernanceRoutes ==
  \/ \E h \in Hold, i \in Incident : PlaceHold(h, i)
  \/ \E h \in Hold : ReleaseHold(h)
  \/ \E u \in Updates : UpdatePolicy(u)
  \/ \E w \in Worker, ids \in Selections, f \in Format : Begin(w, "archive", ids, f)
  \/ \E w \in Worker : Begin(w, "purge", Incident, AnyFormat)

IntegrityRoutes ==
  \E w \in Worker : Begin(w, "verify", {}, AnyFormat) \/ Begin(w, "orphans", {}, AnyFormat)

Step(w) ==
  \/ GetPolicy(w) \/ CreatePolicy(w) \/ ReadIncidents(w) \/ ReadHolds(w)
  \/ \E i \in Incident : PickIncident(w, i) \/ Examine(w, i)
  \/ StoreObject(w) \/ CommitArchive(w) \/ CommitPurge(w)
  \/ \E batch \in SUBSET Key : ReadBatch(w, batch)
  \/ \E k \in Key : VerifyArchive(w, k)
  \/ ReadNumbers(w) \/ ListObjects(w) \/ EndVerification(w)
  \/ Fail(w)

Next ==
  \/ GovernanceRoutes
  \/ IntegrityRoutes
  \/ \E i \in Incident : ChangeStatus(i)
  \/ \E w \in Worker : Step(w)

Spec == Init /\ [][Next]_vars

-----------------------------------------------------------------------------
(* Properties.                                                             *)

(* The object behind every archive row is the one its checksum was taken   *)
(* of, although the store is written before the commit and requests fail   *)
(* in between - as long as archive requests do not overlap each other      *)
(* (incident_retention.py:388-433).                                        *)
RowMatchesObject == Cardinality(Archivers) <= 1 => \A a \in archives : Verified(a)

(* Rows, objects and requests have their types, and rows match objects.    *)
ArchivesSound == TypeOK /\ RowMatchesObject

(* An incident is marked ARCHIVED only while its archive row exists.      *)
ArchivedStateBacked == \A i \in Incident : incident[i].archived => ArchivesOf(i) # {}

(* No archive row and no hold outlives its incident.                       *)
RowsHaveIncident ==
  /\ \A a \in archives : incident[a.key[1]].present
  /\ \A h \in Hold : holds[h].of # None => incident[holds[h].of].present

(* The timeline is append-only against the purge as well: no request ever  *)
(* removes an incident whose timeline has an event                         *)
(* (models/incident_event.py:107-114).                                     *)
TimelineSurvives == \A i \in Incident \ Bare : incident[i].present

(* Marks, archive rows, holds and timelines refer to what exists, in       *)
(* whatever order archivals, holds, purges and failures commit             *)
(* (incident_retention.py:410-433, 519-547).                               *)
ReferencesLive == ArchivedStateBacked /\ RowsHaveIncident /\ TimelineSurvives

(* What a purge has selected, the preview of evaluate_retention would have *)
(* offered too, unless the incident was reopened or removed meanwhile.     *)
PreviewCoversPurge ==
  \A w \in Worker : \A i \in ctx[w].victims :
    \/ CanPurge(i, ctx[w].policy, ctx[w].held)
    \/ ~incident[i].closed

(* Of the audit events of a verification request at most the last one is   *)
(* lost: it is added to the session after the commit of its check          *)
(* (incident_archive_integrity.py:159-183).                                *)
AuditLossBounded == checks <= trail + unknown + batches

Removed(i) == incident[i].present /\ ~incident'[i].present
Archived(i) == ~incident[i].archived /\ incident'[i].archived

(* A hold stops every archival and purge that had not read the holds when  *)
(* it was placed; only a request already past that read may still commit.  *)
HoldStopsLaterWork == [][
  \A h \in Hold :
    holds[h].active /\ (Removed(holds[h].of) \/ Archived(holds[h].of))
      => \E w \in late[h] : pc[w] = "loop" /\ pc'[w] = "idle"]_vars

(* When the policy a purge read requires an archive, the incidents it      *)
(* removes leave an intact copy in the store.                              *)
PurgeKeepsCopy == [][
  Cardinality(Archivers) <= 1 =>
  \A i \in Incident : Removed(i) =>
    \E w \in Worker :
      /\ i \in ctx[w].victims
      /\ pc'[w] = "idle"
      /\ ctx[w].policy.requireArchive =>
           \E a \in ArchivesOf(i) : Verified(a) /\ objects'[a.key] = a.sum]_vars

=============================================================================
