-------------------------- MODULE FeatureLogProofs --------------------------
(***************************************************************************)
(* Theorems about the change log of FeatureStore.                          *)
(***************************************************************************)
EXTENDS FeatureContentProofs

-----------------------------------------------------------------------------

\* The time ts of a mutation that took effect lies between the commit of the
\* version it was applied to and its own.
StampedIn(r, ts) ==
    /\ ts < at[r]
    /\ call[r].op # "POST" => at[call[r].ifMatch] <= ts

\* The timestamps of the invocations under way.
StampsInOrder ==
    \A r \in Requests : pc[r] \in {"write", "log"} =>
        /\ stamp[r] <= clock
        /\ call[r].op # "POST" => at[call[r].ifMatch] <= stamp[r]
        /\ at[r] > 0 => stamp[r] < at[r]

\* Nothing happens to a feature before its POST.
PostsFirst ==
    \A r, q \in Committed :
        call[r].op = "POST" /\ call[q].id = call[r].id => at[r] <= at[q]

\* Only mutations are recorded, each by its own invocation as the last thing it does.
RecordsTrue ==
    \A c \in changes :
        /\ c.by \in Committed /\ pc[c.by] = "done"
        /\ c.id = call[c.by].id /\ c.op = call[c.by].op
        /\ StampedIn(c.by, c.ts)

\* The mutations of a feature that are the last so far.
LastOf(r) == \A q \in Committed : call[q].id = call[r].id => at[q] <= at[r]

\* What an invocation is about to record is what it left in the table.
LoggersTrue ==
    \A r \in Requests : pc[r] = "log" =>
        /\ at[r] > 0
        /\ LastOf(r) =>
              /\ store[call[r].id].vis = draft[r].vis
              /\ store[call[r].id].body = draft[r].body
              /\ store[call[r].id].deleted <=> call[r].op = "DELETE"

LogInv == StampsInOrder /\ PostsFirst /\ RecordsTrue /\ LoggersTrue /\ LogTellsState

LEMMA LogInit == Init => LogInv
BY DEF Init, LogInv, StampsInOrder, PostsFirst, RecordsTrue, LoggersTrue, LogTellsState,
   Committed

-----------------------------------------------------------------------------
(***************************************************************************)
(* Steps                                                                   *)
(***************************************************************************)

\* A step that commits nothing has to show that timestamps lie in order, and that the
\* records it adds are those of invocations that end.
LEMMA LogQuiet ==
    ASSUME StoreInv, LogInv, UNCHANGED <<store, clock, at>>,
           \A q \in Committed : call'[q] = call[q],
           StampsInOrder',
           \A q \in Requests : pc[q] = "done" => pc'[q] = "done",
           \A q \in Requests : pc'[q] = "log" => pc[q] = "log" /\ draft'[q] = draft[q],
           \A c \in changes' : c \in changes \/
              \E r \in Requests : pc[r] = "log" /\ pc'[r] = "done" /\ c = RecordOf(r)
    PROVE  LogInv'
<1>1. Committed' = Committed /\ Committed \subseteq Requests
  BY VersionsSame DEF Committed
<1>2. PostsFirst'
  BY <1>1 DEF LogInv, PostsFirst
<1>3. \A r \in Committed : LastOf(r)' = LastOf(r)
  BY <1>1 DEF LastOf
<1>4. LoggersTrue'
  <2>1. \A r \in Requests : at[r] > 0 => r \in Committed
    BY DEF Committed
  <2>2. QED
    BY <1>3, <2>1 DEF LogInv, LoggersTrue
<1>5. ASSUME NEW r \in Requests, pc[r] = "log", NEW c, c = RecordOf(r)
      PROVE  /\ r \in Committed /\ c.by = r
             /\ c.id = call[r].id /\ c.op = call[r].op /\ c.ts = stamp[r]
             /\ c.vis = draft[r].vis /\ c.body = draft[r].body
             /\ StampedIn(r, c.ts)
  <2>1. r \in Committed
    BY <1>5 DEF LogInv, LoggersTrue, Committed
  <2>2. StampedIn(r, stamp[r])
    BY <1>5, <2>1 DEF LogInv, StampsInOrder, StampedIn, Committed
  <2>3. QED
    BY <1>5, <2>1, <2>2 DEF RecordOf
<1>6. \A r \in Committed : \A ts : StampedIn(r, ts)' = StampedIn(r, ts)
  BY DEF StampedIn
<1>7. RecordsTrue'
  <2> SUFFICES ASSUME NEW c \in changes'
               PROVE  /\ c.by \in Committed' /\ pc'[c.by] = "done"
                      /\ c.id = call'[c.by].id /\ c.op = call'[c.by].op
                      /\ StampedIn(c.by, c.ts)'
    BY DEF RecordsTrue
  <2>1. CASE c \in changes
    BY <1>1, <1>6, <2>1 DEF LogInv, RecordsTrue
  <2>2. CASE \E r \in Requests : pc[r] = "log" /\ pc'[r] = "done" /\ c = RecordOf(r)
    BY <1>1, <1>5, <1>6, <2>2
  <2>3. QED
    BY <2>1, <2>2
<1>8. LogTellsState'
  <2> SUFFICES ASSUME NEW c \in changes',
                      \A q \in Committed : call[q].id = c.id => at[q] <= at[c.by]
               PROVE  /\ store[c.id].vis = c.vis
                      /\ store[c.id].body = c.body
                      /\ store[c.id].deleted <=> c.op = "DELETE"
    BY <1>1 DEF LogTellsState
  <2>1. CASE c \in changes
    BY <2>1 DEF LogInv, LogTellsState
  <2>2. CASE \E r \in Requests : pc[r] = "log" /\ pc'[r] = "done" /\ c = RecordOf(r)
    BY <1>5, <2>2 DEF LogInv, LoggersTrue, LastOf
  <2>3. QED
    BY <2>1, <2>2
<1>9. QED
  BY <1>2, <1>4, <1>7, <1>8 DEF LogInv

\* An invocation ends, with or without a record.
LEMMA LogFinish ==
    ASSUME StoreInv, LogInv, NEW r \in Requests, NEW a \in Replies, Finish(r, a),
           UNCHANGED <<store, clock, at>>,
           \A c \in changes' : c \in changes \/ (pc[r] = "log" /\ c = RecordOf(r))
    PROVE  LogInv'
<1>1. /\ pc'[r] = "done"
      /\ \A q \in Requests \ {r} :
            pc'[q] = pc[q] /\ draft'[q] = draft[q] /\ call'[q] = call[q] /\ stamp'[q] = stamp[q]
      /\ at[r] > 0 => call'[r] = call[r]
  BY DEF Finish, StoreInv, TypeInv, TypeOK
<1>2. \A q \in Committed : call'[q] = call[q]
  BY <1>1 DEF Committed
<1>3. StampsInOrder'
  BY <1>1 DEF LogInv, StampsInOrder
<1>4. QED
  BY <1>1, <1>2, <1>3, LogQuiet

LEMMA LogSubmit ==
    ASSUME StoreInv, LogInv, NEW r \in Requests, Submit(r)
    PROVE  LogInv'
<1>1. PICK c \in Calls :
         /\ pc[r] = "idle"
         /\ c \in CallsOf(r, c.op)
         /\ Accept(r, c)
         /\ \/ /\ c.op = "POST"
               /\ stamp' = [stamp EXCEPT ![r] = Now]
               /\ draft' = [draft EXCEPT ![r] = NewItem(r, c)]
               /\ pc' = [pc EXCEPT ![r] = "write"]
            \/ /\ c.op # "POST"
               /\ UNCHANGED <<stamp, draft>>
               /\ \E p \in {"check", "read"} : pc' = [pc EXCEPT ![r] = p]
  BY SubmitCases
<1>2. /\ at[r] = 0 /\ UNCHANGED <<store, changes, clock, at>> /\ call'[r] = c
      /\ \A q \in Requests \ {r} :
            pc'[q] = pc[q] /\ draft'[q] = draft[q] /\ call'[q] = call[q] /\ stamp'[q] = stamp[q]
      /\ pc'[r] \notin {"log", "done"}
      /\ pc'[r] = "write" => c.op = "POST" /\ stamp'[r] = clock
  BY <1>1 DEF Accept, StoreInv, TypeInv, TypeOK, VersionInv, NotYet, Now
<1>3. \A q \in Committed : call'[q] = call[q]
  BY <1>2 DEF Committed
<1>4. StampsInOrder'
  BY <1>2 DEF LogInv, StampsInOrder, StoreInv, TypeInv, TypeOK
<1>5. QED
  BY <1>1, <1>2, <1>3, <1>4, LogQuiet

\* A read takes the time after the version it read was committed.
LEMMA LogRead ==
    ASSUME StoreInv, LogInv, NEW r \in Requests, pc[r] = "read",
           stamp' = [stamp EXCEPT ![r] = Now],
           draft' = [draft EXCEPT ![r] = draft'[r]],
           pc' = [pc EXCEPT ![r] = "write"],
           UNCHANGED <<store, changes, call, clock, at>>
    PROVE  LogInv'
<1>1. /\ \A q \in Requests \ {r} :
            pc'[q] = pc[q] /\ draft'[q] = draft[q] /\ stamp'[q] = stamp[q]
      /\ stamp'[r] = clock /\ pc'[r] = "write" /\ clock \in Nat
  BY DEF StoreInv, TypeInv, TypeOK, Now
<1>2. call[r].op # "POST" => at[call[r].ifMatch] <= clock
  <2>1. call[r] # None
    BY NoneAssumption DEF StoreInv, TypeInv, InMemory
  <2>2. QED
    BY <2>1 DEF StoreInv, VersionInv, BaseKnown, Timed, VersionsOf, Committed
<1>3. at[r] = 0
  BY DEF StoreInv, VersionInv, NotYet
<1>4. StampsInOrder'
  BY <1>1, <1>2, <1>3 DEF LogInv, StampsInOrder
<1>5. QED
  BY <1>1, <1>4, LogQuiet

\* What DELETE will record is what it left in the table: the item it read has the ETag of
\* the current one, and so the same content.
LEMMA DeletedAsRead ==
    ASSUME StoreInv, NEW r \in Requests, Commit(r), call[r].op = "DELETE"
    PROVE  /\ store'[call[r].id].vis = draft[r].vis
           /\ store'[call[r].id].body = draft[r].body
           /\ store'[call[r].id].deleted
<1>1. /\ call[r].id \in Requests /\ pc[r] = "write"
      /\ draft[r] \in Items /\ draft[r] # None
  BY CommitEffect, NoneAssumption DEF StoreInv, TypeInv, InMemory, Commit
<1>2. /\ store[call[r].id] \in Items /\ store[call[r].id] # None
      /\ store'[call[r].id] = [store[call[r].id] EXCEPT !.deleted = TRUE]
      /\ store[call[r].id].etag = call[r].ifMatch
  BY CommitPuts, NoneAssumption DEF StoreInv
<1>3. draft[r] \in Copies(call[r].id) /\ store[call[r].id] \in Copies(call[r].id)
  BY <1>1, <1>2 DEF Copies, Keeping
<1>4. draft[r].etag = store[call[r].id].etag
  BY <1>1, <1>2 DEF StoreInv, ContentInv, DraftsBased
<1>5. draft[r].vis = store[call[r].id].vis /\ draft[r].body = store[call[r].id].body
  BY <1>1, <1>3, <1>4 DEF StoreInv, ContentInv, CopiesTrue, CopiesAgree
<1>6. QED
  BY <1>2, <1>5 DEF Items

LEMMA LogCommit ==
    ASSUME StoreInv, LogInv, NEW r \in Requests, Commit(r)
    PROVE  LogInv'
<1>1. /\ call[r] \in Calls /\ call[r] # None /\ call' = call
      /\ at[r] = 0 /\ at'[r] = clock + 1 /\ clock' = clock + 1
      /\ \A q \in Requests \ {r} : at'[q] = at[q]
      /\ Committed' = Committed \cup {r}
      /\ \A id \in Requests : id # call[r].id => store'[id] = store[id]
      /\ \A q \in Committed : at[q] <= clock
  BY CommitEffect DEF StoreInv
<1>2. /\ draft' = draft /\ stamp' = stamp /\ changes' = changes /\ pc[r] = "write"
      /\ pc'[r] \in {"write", "log"}
      /\ \A q \in Requests \ {r} : pc'[q] = pc[q]
  BY DEF Commit, StoreInv, TypeInv, TypeOK
<1>3. /\ clock \in Nat /\ at \in [Requests -> Nat] /\ stamp \in [Requests -> Nat]
      /\ Committed \subseteq Requests /\ r \notin Committed
      /\ \A q \in Committed : at'[q] = at[q]
  BY <1>1 DEF StoreInv, TypeInv, TypeOK, Committed
<1>4. \A q \in Requests : call[q] # None /\ call[q].op # "POST" => call[q].ifMatch \in Committed
  BY DEF StoreInv, VersionInv, BaseKnown, VersionsOf
<1>5. \A q \in Committed : call[q] # None /\ call[q] \in Calls
  BY NoneAssumption DEF StoreInv, TypeInv, InMemory, Committed
<1>6. StampsInOrder'
  <2> SUFFICES ASSUME NEW q \in Requests, pc'[q] \in {"write", "log"}
               PROVE  /\ stamp[q] <= clock + 1
                      /\ call[q].op # "POST" => at'[call[q].ifMatch] <= stamp[q]
                      /\ at'[q] > 0 => stamp[q] < at'[q]
    BY <1>1, <1>2 DEF StampsInOrder
  <2>1. /\ stamp[q] <= clock
        /\ call[q].op # "POST" => at[call[q].ifMatch] <= stamp[q]
        /\ at[q] > 0 => stamp[q] < at[q]
    BY <1>2 DEF LogInv, StampsInOrder
  <2>2. pc[q] \in {"write", "log"}
    BY <1>2
  <2>3. call[q] # None
    BY <2>2, NoneAssumption DEF StoreInv, TypeInv, InMemory
  <2>4. call[q].op # "POST" => at'[call[q].ifMatch] = at[call[q].ifMatch]
    BY <1>3, <1>4, <2>3
  <2>5. QED
    BY <1>1, <1>3, <2>1, <2>4
<1>7. PostsFirst'
  <2> SUFFICES ASSUME NEW p \in Committed', NEW q \in Committed',
                      call[p].op = "POST", call[q].id = call[p].id
               PROVE  at'[p] <= at'[q]
    BY <1>1 DEF PostsFirst
  <2>1. CASE p = r /\ q # r
    <3>1. store[call[r].id] = None
      BY <2>1, CommitPuts DEF StoreInv
    <3>2. QED
      BY <1>1, <2>1, <3>1 DEF StoreInv, VersionInv, Latest, Calls
  <2>2. CASE p # r /\ q = r
    BY <1>1, <1>3, <2>2
  <2>3. CASE p # r /\ q # r
    BY <1>1, <1>3, <2>3 DEF LogInv, PostsFirst
  <2>4. CASE p = r /\ q = r
    BY <1>1, <1>3, <2>4
  <2>5. QED
    BY <2>1, <2>2, <2>3, <2>4
<1>8. RecordsTrue'
  <2> SUFFICES ASSUME NEW c \in changes
               PROVE  /\ c.by \in Committed' /\ pc'[c.by] = "done"
                      /\ c.id = call[c.by].id /\ c.op = call[c.by].op
                      /\ c.ts < at'[c.by]
                      /\ call[c.by].op # "POST" => at'[call[c.by].ifMatch] <= c.ts
    BY <1>1, <1>2 DEF RecordsTrue, StampedIn
  <2>1. /\ c.by \in Committed /\ pc[c.by] = "done"
        /\ c.id = call[c.by].id /\ c.op = call[c.by].op
        /\ c.ts < at[c.by]
        /\ call[c.by].op # "POST" => at[call[c.by].ifMatch] <= c.ts
    BY DEF LogInv, RecordsTrue, StampedIn
  <2>2. QED
    BY <1>1, <1>2, <1>3, <1>4, <1>5, <2>1
<1>9. \A q \in Committed : call[q].id = call[r].id => ~LastOf(q)'
  BY <1>1, <1>3 DEF LastOf
<1>10. \A q \in Committed : call[q].id # call[r].id =>
          (LastOf(q)' <=> LastOf(q)) /\ store'[call[q].id] = store[call[q].id]
  BY <1>1, <1>3, <1>5 DEF LastOf, Calls
<1>11. LoggersTrue'
  <2> SUFFICES ASSUME NEW q \in Requests, pc'[q] = "log"
               PROVE  /\ at'[q] > 0
                      /\ LastOf(q)' =>
                            /\ store'[call[q].id].vis = draft[q].vis
                            /\ store'[call[q].id].body = draft[q].body
                            /\ store'[call[q].id].deleted <=> call[q].op = "DELETE"
    BY <1>1, <1>2 DEF LoggersTrue
  <2>1. CASE q = r /\ call[r].op = "DELETE"
    BY <1>1, <1>3, <2>1, DeletedAsRead
  <2>2. CASE q = r /\ call[r].op # "DELETE"
    <3>1. at'[r] > 0
      BY <1>1, <1>3
    <3>2. store'[call[r].id] = draft[r] /\ ~draft[r].deleted
      BY <2>2, CommitPuts DEF StoreInv
    <3>3. QED
      BY <2>2, <3>1, <3>2
  <2>3. CASE q # r
    <3>1. /\ pc[q] = "log" /\ at[q] > 0 /\ q \in Committed /\ at'[q] = at[q]
      BY <1>1, <1>2, <2>3 DEF LogInv, LoggersTrue, Committed
    <3>2. QED
      BY <1>9, <1>10, <3>1 DEF LogInv, LoggersTrue
  <2>4. QED
    BY <2>1, <2>2, <2>3
<1>12. LogTellsState'
  <2> SUFFICES ASSUME NEW c \in changes,
                      \A q \in Committed' : call[q].id = c.id => at'[q] <= at'[c.by]
               PROVE  /\ store'[c.id].vis = c.vis
                      /\ store'[c.id].body = c.body
                      /\ store'[c.id].deleted <=> c.op = "DELETE"
    BY <1>1, <1>2 DEF LogTellsState
  <2>1. c.by \in Committed /\ c.id = call[c.by].id
    BY DEF LogInv, RecordsTrue
  <2>2. c.id # call[r].id
    BY <1>1, <1>3, <2>1
  <2>3. \A q \in Committed : call[q].id = c.id => at[q] <= at[c.by]
    BY <1>1, <1>3, <2>1
  <2>4. store'[c.id] = store[c.id]
    BY <1>10, <2>1, <2>2
  <2>5. QED
    BY <2>3, <2>4 DEF LogInv, LogTellsState
<1>13. QED
  BY <1>6, <1>7, <1>8, <1>11, <1>12 DEF LogInv

LEMMA LogNext == StoreInv /\ LogInv /\ [Next]_vars => LogInv'
<1> SUFFICES ASSUME StoreInv, LogInv, [Next]_vars PROVE LogInv'
  OBVIOUS
<1>1. ASSUME NEW r \in Requests, Submit(r) PROVE LogInv'
  BY <1>1, LogSubmit
<1>2. ASSUME NEW r \in Requests, Check(r) PROVE LogInv'
  <2>1. CASE \E a \in Replies : Finish(r, a)
    BY <1>2, <2>1, LogFinish DEF Check
  <2>2. CASE /\ pc' = [pc EXCEPT ![r] = "read"]
             /\ UNCHANGED <<call, reply, draft, stamp>>
    <3>1. \A q \in Requests : pc'[q] = IF q = r THEN "read" ELSE pc[q]
      BY <2>2 DEF StoreInv, TypeInv, TypeOK
    <3>2. StampsInOrder'
      BY <1>2, <2>2, <3>1 DEF Check, LogInv, StampsInOrder
    <3>3. QED
      BY <1>2, <2>2, <3>1, <3>2, LogQuiet DEF Check
  <2>3. QED
    BY <1>2, <2>1, <2>2 DEF Check, Replies
<1>3. ASSUME NEW r \in Requests, Read(r) PROVE LogInv'
  <2>1. CASE \E a \in Replies : Finish(r, a)
    BY <1>3, <2>1, LogFinish DEF Read
  <2>2. CASE \E item \in ReadsOf(call[r].id) :
                /\ draft' = [draft EXCEPT ![r] = NextItem(r, call[r], item)]
                /\ stamp' = [stamp EXCEPT ![r] = Now]
                /\ pc' = [pc EXCEPT ![r] = "write"]
                /\ UNCHANGED <<call, reply>>
    <3>1. draft' = [draft EXCEPT ![r] = draft'[r]]
      BY <2>2 DEF StoreInv, TypeInv, TypeOK
    <3>2. QED
      BY <1>3, <2>2, <3>1, LogRead DEF Read
  <2>3. QED
    BY <1>3, <2>1, <2>2 DEF Read, Replies
<1>4. ASSUME NEW r \in Requests, Commit(r) PROVE LogInv'
  BY <1>4, LogCommit
<1>5. ASSUME NEW r \in Requests, Reject(r) \/ Log(r) \/ Fail(r) PROVE LogInv'
  BY <1>5, LogFinish DEF Reject, Log, Fail, Replies
<1>6. CASE UNCHANGED <<store, changes, pc, call, draft, stamp, clock, at>>
  <2>1. StampsInOrder'
    BY <1>6 DEF LogInv, StampsInOrder
  <2>2. QED
    BY <1>6, <2>1, LogQuiet
<1>7. QED
  BY <1>1, <1>2, <1>3, <1>4, <1>5, <1>6 DEF Next, Step, Replicate, vars

LEMMA LogInvariant == Spec => [](StoreInv /\ LogInv)
BY StoreInvariant, LogInit, LogNext, PTL DEF Spec

\* The last record of a feature shows what the features table holds, for any number of
\* writers, whatever a DELETE had read when it recorded it.
THEOREM LogShowsState == Spec => []LogTellsState
BY LogInvariant, PTL DEF LogInv

\* Times between the version a mutation was applied to and its own commit are ordered as
\* the mutations are.
LEMMA StampsOrdered ==
    ASSUME StoreInv, PostsFirst, NEW r \in Committed, NEW q \in Committed,
           call[r].id = call[q].id, at[r] < at[q],
           NEW ts \in Nat, NEW us \in Nat, StampedIn(r, ts), StampedIn(q, us)
    PROVE  ts < us
<1>1. r \in Requests /\ q \in Requests /\ at \in [Requests -> Nat]
  BY DEF Committed, StoreInv, TypeInv, TypeOK
<1>2. call[q].op # "POST"
  BY <1>1 DEF PostsFirst
<1>3. /\ call[q].ifMatch \in Requests
      /\ at[r] <= at[call[q].ifMatch] \/ at[q] <= at[r]
  BY <1>2 DEF StoreInv, VersionInv, NoLostUpdate, VersionsOf, Committed
<1>4. QED
  BY <1>1, <1>2, <1>3 DEF StampedIn

\* Sorted by its keys the log of a feature is in commit order, though timestamps are taken
\* before the writes: optimistic locking keeps the times of two mutations apart.
THEOREM LogSortsByCommit == Spec => []LogInCommitOrder
<1>1. StoreInv /\ LogInv => LogInCommitOrder
  <2> SUFFICES ASSUME StoreInv, LogInv, NEW c \in changes, NEW d \in changes,
                      c.id = d.id, at[c.by] < at[d.by]
               PROVE  c.ts < d.ts
    BY DEF LogInCommitOrder
  <2>1. c.ts \in Nat /\ d.ts \in Nat
    BY DEF StoreInv, TypeInv, TypeOK, ChangeRecords
  <2>2. /\ c.by \in Committed /\ d.by \in Committed /\ call[c.by].id = call[d.by].id
        /\ StampedIn(c.by, c.ts) /\ StampedIn(d.by, d.ts)
    BY DEF LogInv, RecordsTrue
  <2>3. QED
    BY <2>1, <2>2, StampsOrdered DEF LogInv
<1>2. QED
  BY <1>1, LogInvariant, PTL

\* A record that is put has a key of its own.
LEMMA RecordsStay ==
    ASSUME StoreInv, LogInv, [Next]_vars
    PROVE  changes \subseteq changes'
<1> SUFFICES ASSUME NEW c \in changes PROVE c \in changes'
  OBVIOUS
<1>1. CASE UNCHANGED changes
  BY <1>1
<1>2. ASSUME NEW r \in Requests, Log(r) PROVE c \in changes'
  <2>1. /\ r \in Committed /\ stamp[r] \in Nat /\ StampedIn(r, stamp[r])
    BY <1>2 DEF Log, LogInv, LoggersTrue, StampsInOrder, StampedIn, Committed,
       StoreInv, TypeInv, TypeOK
  <2>2. /\ c.by \in Committed /\ pc[c.by] = "done" /\ c.id = call[c.by].id
        /\ c.ts \in Nat /\ StampedIn(c.by, c.ts)
    BY DEF LogInv, RecordsTrue, StoreInv, TypeInv, TypeOK, ChangeRecords
  <2>3. ASSUME c.id = call[r].id PROVE c.ts # stamp[r]
    <3>1. c.by # r
      BY <1>2, <2>2 DEF Log
    <3>2. at[c.by] \in Nat /\ at[r] \in Nat /\ at[c.by] # at[r]
      BY <2>1, <2>2, <3>1 DEF StoreInv, TypeInv, TypeOK, VersionInv, Timed, Committed
    <3>3. at[c.by] < at[r] => c.ts < stamp[r]
      BY <2>1, <2>2, <2>3, StampsOrdered DEF LogInv
    <3>4. at[r] < at[c.by] => stamp[r] < c.ts
      BY <2>1, <2>2, <2>3, StampsOrdered DEF LogInv
    <3>5. QED
      BY <2>1, <2>2, <3>2, <3>3, <3>4
  <2>4. KeyOf(c) # KeyOf(RecordOf(r))
    BY <2>3 DEF KeyOf, RecordOf
  <2>5. QED
    BY <1>2, <2>4 DEF Log
<1>3. QED
  BY <1>1, <1>2, SubmitIsQuiet
     DEF Next, Step, Check, Read, Commit, Reject, Fail, Replicate, vars

\* No record is ever put over another one.
THEOREM LogOnlyGrows == Spec => LogAppendOnly
<1>1. StoreInv /\ LogInv /\ [Next]_vars => [changes \subseteq changes']_vars
  BY RecordsStay
<1>2. QED
  BY <1>1, LogInvariant, PTL DEF Spec, LogAppendOnly

\* A mutation that took effect is recorded, or about to be.
LoggedInTime == \A r \in Committed : pc[r] = "log" \/ Logged(r)

LEMMA LoggedInit == Init => LoggedInTime
<1> SUFFICES ASSUME Init, NEW r \in Committed PROVE FALSE
  BY DEF LoggedInTime
<1>1. r \in Requests /\ at[r] = 0
  BY DEF Init, Committed
<1>2. QED
  BY <1>1 DEF Committed

LEMMA LoggedNext ==
    ASSUME Faults \cap {"failure", "lost_answer"} = {},
           StoreInv, LogInv, LoggedInTime, [Next]_vars
    PROVE  LoggedInTime'
<1>1. \A r \in Requests : Logged(r) => Logged(r)'
  BY RecordsStay DEF Logged
<1> SUFFICES ASSUME NEW r \in Committed' PROVE pc'[r] = "log" \/ Logged(r)'
  BY DEF LoggedInTime
<1>2. r \in Requests
  BY DEF Committed
<1>3. CASE pc'[r] = pc[r] /\ at'[r] = at[r]
  BY <1>1, <1>2, <1>3 DEF LoggedInTime, Committed
<1>4. ASSUME NEW q \in Requests, q # r, Submit(q) \/ Step(q)
      PROVE  pc'[r] = pc[r] /\ at'[r] = at[r]
  <2>1. CASE Submit(q)
    BY <1>2, <1>4, <2>1, SubmitCases DEF Accept, StoreInv, TypeInv, TypeOK
  <2>2. CASE Step(q)
    BY <1>2, <1>4, <2>2
       DEF Step, Check, Read, Commit, Reject, Log, Fail, Finish, StoreInv, TypeInv, TypeOK
  <2>3. QED
    BY <1>4, <2>1, <2>2
<1>5. CASE Submit(r)
  <2>1. at'[r] = 0
    BY <1>2, <1>5, SubmitCases DEF Accept, StoreInv, VersionInv, NotYet
  <2>2. QED
    BY <2>1 DEF Committed
<1>6. CASE Check(r) \/ Read(r)
  <2>1. at'[r] = 0
    BY <1>2, <1>6 DEF Check, Read, StoreInv, VersionInv, NotYet
  <2>2. QED
    BY <2>1 DEF Committed
<1>7. CASE Commit(r)
  BY <1>2, <1>7 DEF Commit, StoreInv, TypeInv, TypeOK
<1>8. CASE Reject(r)
  <2>1. r \in Committed /\ pc[r] # "log"
    BY <1>8 DEF Reject, Committed
  <2>2. QED
    BY <1>1, <1>2, <2>1 DEF LoggedInTime
<1>9. CASE Log(r)
  BY <1>9 DEF Log, Logged, RecordOf
<1>10. ~Fail(r)
  BY DEF Fail
<1>11. CASE UNCHANGED <<pc, at>>
  BY <1>3, <1>11
<1>12. QED
  BY <1>2, <1>3, <1>4, <1>5, <1>6, <1>7, <1>8, <1>9, <1>10, <1>11
     DEF Next, Step, Replicate, vars

\* The change log is complete if no call fails for good and no answer is lost: nothing
\* but a failure between the two writes, or a write that is sent again after it was
\* applied and then refused, leaves a mutation without its record.
THEOREM LogCompleteWithoutFaults ==
    ASSUME Faults \cap {"failure", "lost_answer"} = {}
    PROVE  Spec => []AllMutationsLogged
<1>1. Init => LoggedInTime
  BY LoggedInit
<1>2. StoreInv /\ LogInv /\ LoggedInTime /\ [Next]_vars => LoggedInTime'
  BY LoggedNext
<1>3. LoggedInTime => AllMutationsLogged
  BY DEF LoggedInTime, AllMutationsLogged, Committed
<1>4. QED
  BY <1>1, <1>2, <1>3, LogInvariant, PTL DEF Spec
=============================================================================
