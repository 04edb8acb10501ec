---------------------------- MODULE FeatureStore ----------------------------
(***************************************************************************)
(* The write path of the OAPIF backend: concurrent Lambda invocations of   *)
(* POST, PUT, PATCH and DELETE on the features of one collection of one    *)
(* organization (one DynamoDB partition), each a sequence of separate      *)
(* DynamoDB calls on the features table and the changes table.             *)
(*                                                                         *)
(* One invocation is one element of Requests.  It draws at most one UUID   *)
(* for an ETag and, if it is a POST, one for a feature id; UUIDs never     *)
(* collide, so the invocation itself stands for both: the version that     *)
(* request r writes has the ETag r, and the feature it creates the id r.   *)
(* Geometry and properties are abstracted to the set of requests whose     *)
(* edits they hold: a replacement holds its own edit only, a merge patch   *)
(* adds its own to what it merged with.                                    *)
(***************************************************************************)
EXTENDS Naturals

CONSTANTS
    Requests,       \* the invocations; also the ETags and feature ids they draw
    Levels,         \* visibility levels
    DefaultLevel,   \* the level of a feature created without one ("public")
    None,           \* no item, no header, no property
    Roles,          \* the roles of the clients
    Creators,       \* bound: the invocations that may be POSTs
    Faults          \* which faults of the environment may occur

ASSUME DefaultLevelAssumption == DefaultLevel \in Levels
ASSUME CreatorsAssumption == Creators \subseteq Requests
ASSUME RolesAssumption == Roles \subseteq {"viewer", "editor", "admin"}
ASSUME FaultsAssumption == Faults \subseteq {"stale_read", "lost_answer", "failure"}

Ops == {"POST", "PUT", "PATCH", "DELETE"}
WriteRoles == {"editor", "admin"}

VARIABLES
    store,      \* features table: the current item of every feature, or None
    replica,    \* a copy of it that an eventually consistent read may see
    changes,    \* changes table: the set of change records
    pc,         \* where each invocation is
    call,       \* the call each invocation serves, or None
    draft,      \* DELETE: the item it read; the others: the item it will put
    stamp,      \* the timestamp the invocation took (utcnow_iso)
    reply,      \* the answer of each finished invocation
    clock,      \* the time: it passes with every write to the features table
    at          \* auxiliary: when each invocation's mutation committed, 0 if not

vars == <<store, replica, changes, pc, call, draft, stamp, reply, clock, at>>

Items == [vis : Levels, body : SUBSET Requests, etag : Requests, deleted : BOOLEAN]

Calls == [op : Ops, id : Requests, ifMatch : Requests \cup {None}, role : Roles,
          vis : Levels \cup {None}]

ASSUME NoneAssumption == None \notin Requests \cup Levels \cup Items \cup Calls

ChangeRecords == [id : Requests, op : Ops, ts : Nat, by : Requests,
                  vis : Levels, body : SUBSET Requests]

Phases == {"idle", "check", "read", "write", "log", "done"}
Replies == {"none", "success", "refused", "not_found", "mismatch", "error"}

TypeOK ==
    /\ store \in [Requests -> Items \cup {None}]
    /\ replica \in [Requests -> Items \cup {None}]
    /\ changes \subseteq ChangeRecords
    /\ pc \in [Requests -> Phases]
    /\ call \in [Requests -> Calls \cup {None}]
    /\ draft \in [Requests -> Items \cup {None}]
    /\ stamp \in [Requests -> Nat]
    /\ reply \in [Requests -> Replies]
    /\ clock \in Nat
    /\ at \in [Requests -> Nat]

Init ==
    /\ store = [r \in Requests |-> None]
    /\ replica = [r \in Requests |-> None]
    /\ changes = {}
    /\ pc = [r \in Requests |-> "idle"]
    /\ call = [r \in Requests |-> None]
    /\ draft = [r \in Requests |-> None]
    /\ stamp = [r \in Requests |-> 0]
    /\ reply = [r \in Requests |-> "none"]
    /\ clock = 0
    /\ at = [r \in Requests |-> 0]

-----------------------------------------------------------------------------
(***************************************************************************)
(* Calls                                                                   *)
(***************************************************************************)

Committed == {r \in Requests : at[r] > 0}

Features == {id \in Requests : store[id] # None}

\* The versions of a feature that were ever current, by their ETags: those a
\* client can have learned from a GET or from the answer to a write.
VersionsOf(id) == {r \in Committed : call[r].id = id /\ call[r].op # "DELETE"}

\* What clients send as request r, by operation.  An id or an ETag is one the
\* service made.  If-Match and the visibility property may be absent; DELETE has
\* no body.
CallsOf(r, op) ==
    {c \in Calls :
        /\ c.op = op
        /\ op = "POST" => r \in Creators /\ c.id = r /\ c.ifMatch = None
        /\ op # "POST" => c.id \in Features /\ c.ifMatch \in VersionsOf(c.id) \cup {None}
        /\ op = "DELETE" => c.vis = None}

\* The checks the handlers make before they touch the features table: a write
\* role, If-Match on everything but POST, and no visibility from an editor in a
\* POST or PATCH.  PUT compares the visibility later, with the stored feature.
Admissible(c) ==
    /\ c.role \in WriteRoles
    /\ c.op # "POST" => c.ifMatch # None
    /\ c.op \in {"POST", "PATCH"} /\ c.role # "admin" => c.vis = None

-----------------------------------------------------------------------------
(***************************************************************************)
(* Items                                                                   *)
(***************************************************************************)

\* get_item asks for no consistent read: DynamoDB may answer from a copy that
\* lags behind.  DynamoDB Local and moto always answer with the current item.
ReadsLagging(id) == {store[id], replica[id]}

ReadsOf(id) ==
    IF "stale_read" \in Faults THEN {store[id], replica[id]} ELSE {store[id]}

\* get_feature raises FeatureNotFoundError for anything else.
Found(item) == item # None /\ ~item.deleted

\* _get_feature_or_raise compares what it read with If-Match.
MatchesUnchecked(c, item) == TRUE
MatchesQuoted(c, item) == FALSE
Matches(c, item) == item.etag = c.ifMatch

LevelOr(level, default) == IF level = None THEN default ELSE level

\* utcnow_iso, to the microsecond.  The clock passes with every write: between
\* the timestamp of a write and that of a request that names the version it
\* wrote lie the write itself and a round trip of a client, longer than the
\* clocks of two hosts are apart.
NowInSeconds == clock \div 2
Now == clock

NewItemBare(r, c) ==
    [vis |-> c.vis, body |-> {r}, etag |-> r, deleted |-> FALSE]

NewItem(r, c) ==
    [vis |-> LevelOr(c.vis, DefaultLevel), body |-> {r}, etag |-> r, deleted |-> FALSE]

\* What replace_feature and update_feature put over the item they read; DELETE
\* keeps the item for the change record.
NextItemReset(r, c, item) ==
    IF c.op = "DELETE" THEN item
    ELSE [vis |-> LevelOr(c.vis, DefaultLevel),
          body |-> IF c.op = "PATCH" THEN item.body \cup {r} ELSE {r},
          etag |-> r, deleted |-> FALSE]

NextItem(r, c, item) ==
    IF c.op = "DELETE" THEN item
    ELSE [vis |-> LevelOr(c.vis, item.vis),
          body |-> IF c.op = "PATCH" THEN item.body \cup {r} ELSE {r},
          etag |-> r, deleted |-> FALSE]

\* check_field_permissions_for_replace
MayReplace(c, vis) == c.role = "admin" \/ LevelOr(c.vis, vis) = vis

\* The condition expressions of the three conditional writes.
ConditionBlind(c, item) ==
    IF c.op = "POST" THEN item = None ELSE Found(item)

ConditionUndeletes(c, item) ==
    IF c.op = "POST" THEN item = None
    ELSE item # None /\ item.etag = c.ifMatch

ConditionHolds(c, item) ==
    IF c.op = "POST" THEN item = None
    ELSE Found(item) /\ item.etag = c.ifMatch

\* What the features table holds after the write.  DELETE sets the flag of the
\* stored item and leaves its ETag; the others put their item.
Written(c, item, stored) ==
    IF c.op = "DELETE" THEN [stored EXCEPT !.deleted = TRUE] ELSE item

\* The change record of an invocation.  Its sort key is the timestamp followed
\* by the feature id.
RecordOf(r) ==
    [id |-> call[r].id, op |-> call[r].op, ts |-> stamp[r], by |-> r,
     vis |-> draft[r].vis, body |-> draft[r].body]

KeyOf(c) == <<c.ts, c.id>>

-----------------------------------------------------------------------------
(***************************************************************************)
(* The steps of an invocation                                              *)
(***************************************************************************)

\* The invocation answers, and what it held in memory is gone.  The calls of
\* those that committed stay, as auxiliary state the properties refer to.
Finish(r, answer) ==
    /\ pc' = [pc EXCEPT ![r] = "done"]
    /\ reply' = [reply EXCEPT ![r] = answer]
    /\ call' = [call EXCEPT ![r] = IF at[r] > 0 THEN @ ELSE None]
    /\ draft' = [draft EXCEPT ![r] = None]
    /\ stamp' = [stamp EXCEPT ![r] = 0]

\* A call passes the handler's own checks.  Any other call (also one that names an
\* unknown collection, or has a body that is no JSON or violates the schema) is
\* answered 4xx and changes nothing: it is a stuttering step.
Accept(r, c) ==
    /\ Admissible(c)
    /\ call' = [call EXCEPT ![r] = c]
    /\ UNCHANGED <<store, replica, changes, reply, clock, at>>

\* POST takes its timestamp and builds the new item at once.
Create(r) ==
    /\ pc[r] = "idle"
    /\ \E c \in CallsOf(r, "POST") :
        /\ Accept(r, c)
        /\ stamp' = [stamp EXCEPT ![r] = Now]
        /\ draft' = [draft EXCEPT ![r] = NewItem(r, c)]
        /\ pc' = [pc EXCEPT ![r] = "write"]

\* PUT first reads the stored feature for the visibility check.
Replace(r) ==
    /\ pc[r] = "idle"
    /\ \E c \in CallsOf(r, "PUT") :
        /\ Accept(r, c)
        /\ pc' = [pc EXCEPT ![r] = "check"]
        /\ UNCHANGED <<stamp, draft>>

\* PATCH and DELETE go to the data access layer.
Update(r) ==
    /\ pc[r] = "idle"
    /\ \E c \in CallsOf(r, "PATCH") :
        /\ Accept(r, c)
        /\ pc' = [pc EXCEPT ![r] = "read"]
        /\ UNCHANGED <<stamp, draft>>

Delete(r) ==
    /\ pc[r] = "idle"
    /\ \E c \in CallsOf(r, "DELETE") :
        /\ Accept(r, c)
        /\ pc' = [pc EXCEPT ![r] = "read"]
        /\ UNCHANGED <<stamp, draft>>

Submit(r) == Create(r) \/ Replace(r) \/ Update(r) \/ Delete(r)

\* handle_replace_feature reads the feature to compare visibilities, and
\* forgets it: replace_feature reads it again.
Check(r) ==
    /\ pc[r] = "check"
    /\ \E item \in ReadsOf(call[r].id) :
        \/ /\ ~Found(item)
           /\ Finish(r, "not_found")
        \/ /\ Found(item)
           /\ ~MayReplace(call[r], item.vis)
           /\ Finish(r, "refused")
        \/ /\ Found(item)
           /\ MayReplace(call[r], item.vis)
           /\ pc' = [pc EXCEPT ![r] = "read"]
           /\ UNCHANGED <<call, reply, draft, stamp>>
    /\ UNCHANGED <<store, replica, changes, clock, at>>

\* The data access layer reads the feature, compares its ETag with If-Match,
\* builds the new item from what it read and takes the timestamp.  The body of a
\* PUT or PATCH may name another organization, which is refused here.
Read(r) ==
    /\ pc[r] = "read"
    /\ \E item \in ReadsOf(call[r].id) :
        \/ /\ ~Found(item)
           /\ Finish(r, "not_found")
        \/ /\ Found(item)
           /\ ~Matches(call[r], item)
           /\ Finish(r, "mismatch")
        \/ /\ Found(item)
           /\ Matches(call[r], item)
           /\ call[r].op # "DELETE"
           /\ Finish(r, "refused")
        \/ /\ Found(item)
           /\ Matches(call[r], item)
           /\ draft' = [draft EXCEPT ![r] = NextItem(r, call[r], item)]
           /\ stamp' = [stamp EXCEPT ![r] = Now]
           /\ pc' = [pc EXCEPT ![r] = "write"]
           /\ UNCHANGED <<call, reply>>
    /\ UNCHANGED <<store, replica, changes, clock, at>>

\* The conditional write succeeds.  The answer reaches the invocation, which
\* goes on to the change log; or it is lost, and the SDK sends the write again.
Commit(r) ==
    /\ pc[r] = "write"
    /\ ConditionHolds(call[r], store[call[r].id])
    /\ store' = [store EXCEPT ![call[r].id] = Written(call[r], draft[r], @)]
    /\ clock' = clock + 1
    /\ at' = [at EXCEPT ![r] = clock + 1]
    /\ \/ pc' = [pc EXCEPT ![r] = "log"]
       \/ "lost_answer" \in Faults /\ UNCHANGED pc
    /\ UNCHANGED <<replica, changes, call, draft, stamp, reply>>

\* The condition of the write fails: ETagMismatchError, except that
\* create_feature lets the ClientError through, which is answered 500.
Reject(r) ==
    /\ pc[r] = "write"
    /\ ~ConditionHolds(call[r], store[call[r].id])
    /\ Finish(r, IF call[r].op = "POST" THEN "error" ELSE "mismatch")
    /\ UNCHANGED <<store, replica, changes, clock, at>>

\* The change record is put, over one with the same key if there is one, and
\* the invocation answers.
LogForgotten(r) ==
    /\ pc[r] = "log"
    /\ Finish(r, "success")
    /\ UNCHANGED <<store, replica, changes, clock, at>>

Log(r) ==
    /\ pc[r] = "log"
    /\ changes' = {c \in changes : KeyOf(c) # KeyOf(RecordOf(r))} \cup {RecordOf(r)}
    /\ Finish(r, "success")
    /\ UNCHANGED <<store, replica, clock, at>>

\* A DynamoDB call fails for good (throttling, time out) or the invocation dies:
\* the client is answered 500, or nothing, and what was written stays.
Fail(r) ==
    /\ "failure" \in Faults
    /\ pc[r] \in {"check", "read", "write", "log"}
    /\ Finish(r, "error")
    /\ UNCHANGED <<store, replica, changes, clock, at>>

\* DynamoDB brings the copy of a feature up to date.
Replicate(id) ==
    /\ "stale_read" \in Faults
    /\ replica[id] # store[id]
    /\ replica' = [replica EXCEPT ![id] = store[id]]
    /\ UNCHANGED <<store, changes, pc, call, draft, stamp, reply, clock, at>>

Step(r) == Check(r) \/ Read(r) \/ Commit(r) \/ Reject(r) \/ Log(r) \/ Fail(r)

Next ==
    \/ \E r \in Requests : Submit(r) \/ Step(r)
    \/ \E id \in Requests : Replicate(id)

\* An admitted invocation runs on until it has answered: Lambda ends it after
\* 30 seconds at the latest (Fail), and every DynamoDB call returns or raises.
\* Nothing obliges clients to send requests, or DynamoDB to be in time.
Fairness == \A r \in Requests : WF_vars(Step(r))

Spec == Init /\ [][Next]_vars /\ Fairness

-----------------------------------------------------------------------------
(***************************************************************************)
(* Properties                                                              *)
(***************************************************************************)

\* Optimistic locking loses no update: a mutation is applied to the very version
\* its If-Match names, which was current until then.  No other mutation of the
\* feature committed in between, however stale the reads and however often the
\* conditional write was sent.
NoLostUpdate ==
    \A s \in Committed : call[s].op # "POST" =>
        LET base == call[s].ifMatch IN
        /\ base \in VersionsOf(call[s].id)
        /\ at[base] < at[s]
        /\ \A q \in Committed :
              call[q].id = call[s].id => at[q] <= at[base] \/ at[s] <= at[q]

\* The stored feature holds the edits of its last POST or PUT and of every PATCH
\* that committed after it, and no others: no merge drops a concurrent edit.
EditsKept ==
    \A id \in Features :
        store[id].body =
            {q \in VersionsOf(id) :
                \A p \in VersionsOf(id) : call[p].op # "PATCH" => at[p] <= at[q]}

\* The last change record of a feature that has all its mutations shows what the
\* features table holds, and for a DELETE what it held when the flag was set.
LogTellsState ==
    \A c \in changes :
        (\A q \in Committed : call[q].id = c.id => at[q] <= at[c.by])
        => /\ store[c.id].vis = c.vis
           /\ store[c.id].body = c.body
           /\ store[c.id].deleted <=> c.op = "DELETE"

\* Sorted by key, the change log of a feature shows its mutations in the order
\* in which they took effect, although timestamps are taken before the writes.
LogInCommitOrder ==
    \A c, d \in changes :
        c.id = d.id /\ at[c.by] < at[d.by] => c.ts < d.ts

\* The change log is append-only: no record is put over another one.
LogAppendOnly == [][changes \subseteq changes']_vars

\* A deleted feature is frozen.  DELETE keeps the ETag, so a writer that read the
\* feature before still holds a matching one.
DeletedIsFrozen ==
    [][\A id \in Features : store[id].deleted => store'[id] = store[id]]_vars

\* A mutation takes effect at most once, also when the SDK repeats the write.
CommitsOnce == [][\A r \in Committed : at'[r] = at[r]]_vars

\* Every request that takes effect reads, modifies and writes the feature in one
\* step, and the others leave it alone.
Register ==
    INSTANCE FeatureRegister
        WITH Versions <- Requests, features <- store,
             used <- {r \in Committed : call[r].op # "DELETE"}

ImplementsRegister == Register!Spec

\* Only an admin changes the visibility of a feature.
EditorsKeepVisibility ==
    [][\A id \in Features : store'[id].vis # store[id].vis =>
          \E r \in Requests : at'[r] # at[r] /\ call[r].role = "admin"]_vars

\* A 412 means that another request superseded the version If-Match names, and a
\* 404 that another request deleted the feature.
RefusalsJustified ==
    [][\A r \in Requests : reply'[r] # reply[r] =>
          /\ reply'[r] = "mismatch" =>
                \E s \in Committed \ {r} : call[s].ifMatch = call[r].ifMatch
          /\ reply'[r] = "not_found" =>
                \E s \in Committed \ {r} :
                    call[s].op = "DELETE" /\ call[s].id = call[r].id]_vars

Logged(r) == \E c \in changes : c.by = r

\* Once every invocation has ended, the change log records all mutations.
AllMutationsLogged ==
    (\A r \in Requests : pc[r] \in {"idle", "done"}) => \A r \in Committed : Logged(r)

\* A mutation that took effect is eventually recorded, unless its invocation
\* failed, which its client sees as an error.
CommittedIsLogged ==
    \A r \in Requests : at[r] > 0 ~> Logged(r) \/ reply[r] = "error"

\* Writers do not starve each other: while a request is in flight that names the
\* current version, that version is superseded in the end, by it or by another,
\* or the request is refused for its content or fails.
InFlight(r, base) ==
    /\ pc[r] \in {"check", "read", "write"}
    /\ call[r].ifMatch = base

VersionAdvances ==
    \A r, base \in Requests :
        InFlight(r, base) /\ Found(store[call[r].id]) /\ store[call[r].id].etag = base
        ~> \/ \E s \in Committed : call[s].ifMatch = base
           \/ reply[r] \in {"refused", "error"}

=============================================================================
