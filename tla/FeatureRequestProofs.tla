------------------------ MODULE FeatureRequestProofs ------------------------
(***************************************************************************)
(* Theorems about what FeatureStore does to a request if its reads are     *)
(* current, as those of the store that the repository's tests run against: *)
(* who changes the visibility of a feature, and what a refusal means.      *)
(***************************************************************************)
EXTENDS FeatureContentProofs

-----------------------------------------------------------------------------
(***************************************************************************)
(* Visibility                                                              *)
(***************************************************************************)

\* While the version is current that an editor's PUT or PATCH names, the visibility
\* that it was checked for is that of the stored feature.
LevelsKept ==
    \A r \in Requests :
        /\ call[r] # None /\ call[r].op \in {"PUT", "PATCH"} /\ call[r].role # "admin"
        /\ Found(store[call[r].id]) /\ store[call[r].id].etag = call[r].ifMatch
        => LET vis == store[call[r].id].vis IN
           /\ pc[r] = "read" => LevelOr(call[r].vis, vis) = vis
           /\ pc[r] = "write" => draft[r].vis = vis

\* An invocation that ends knows nothing of levels any more.
LEMMA LevelsFinish ==
    ASSUME TypeInv, LevelsKept, NEW r \in Requests, NEW a \in Replies, Finish(r, a),
           UNCHANGED store
    PROVE  LevelsKept'
<1>1. /\ pc'[r] = "done"
      /\ \A q \in Requests \ {r} : pc'[q] = pc[q] /\ draft'[q] = draft[q] /\ call'[q] = call[q]
  BY DEF Finish, TypeInv, TypeOK
<1>2. QED
  BY <1>1 DEF LevelsKept, Found

\* A write makes the version that is current a new one, which no request has named yet,
\* or deletes the feature.
LEMMA LevelsCommit ==
    ASSUME TypeInv, VersionInv, LevelsKept, NEW s \in Requests, Commit(s)
    PROVE  LevelsKept'
<1>1. /\ call' = call /\ draft' = draft /\ s \notin Committed
      /\ \A q \in Requests : pc'[q] \in {"read", "write"} => pc'[q] = pc[q]
      /\ \A id \in Requests : id # call[s].id => store'[id] = store[id]
  <2>1. /\ call' = call /\ at[s] = 0
        /\ \A id \in Requests : id # call[s].id => store'[id] = store[id]
    BY CommitEffect
  <2>2. /\ draft' = draft
        /\ \A q \in Requests : pc'[q] \in {"read", "write"} => pc'[q] = pc[q]
    BY DEF Commit, TypeInv, TypeOK
  <2>3. QED
    BY <2>1, <2>2 DEF Committed
<1>2. ASSUME NEW r \in Requests, call[r] # None, call[r].op # "POST",
             call[r].id = call[s].id, Found(store'[call[r].id])
      PROVE  store'[call[r].id].etag # call[r].ifMatch
  <2>1. call[r].ifMatch \in Committed
    BY <1>2 DEF VersionInv, BaseKnown, VersionsOf
  <2>2. call[s].op = "DELETE" => ~Found(store'[call[s].id])
    BY CommitPuts DEF Found, Items
  <2>3. store'[call[s].id].etag = s
    BY <1>2, <2>2, CommitPuts
  <2>4. QED
    BY <1>1, <1>2, <2>1, <2>3
<1>3. QED
  <2> SUFFICES ASSUME NEW r \in Requests,
                      call[r] # None, call[r].op \in {"PUT", "PATCH"}, call[r].role # "admin",
                      Found(store'[call[r].id]), store'[call[r].id].etag = call[r].ifMatch,
                      pc[r] = pc'[r], pc[r] \in {"read", "write"}
               PROVE  LET vis == store'[call[r].id].vis IN
                      /\ pc[r] = "read" => LevelOr(call[r].vis, vis) = vis
                      /\ pc[r] = "write" => draft[r].vis = vis
    BY <1>1 DEF LevelsKept, Found
  <2>1. call[r].id # call[s].id /\ call[r].id \in Requests
    BY <1>2 DEF TypeInv, TypeOK, Calls
  <2>2. store'[call[r].id] = store[call[r].id]
    BY <1>1, <2>1
  <2>3. QED
    BY <2>2 DEF LevelsKept, Found

LEMMA LevelsNext ==
    ASSUME "stale_read" \notin Faults, TypeInv, VersionInv, LevelsKept, [Next]_vars
    PROVE  LevelsKept'
<1>1. ASSUME NEW r \in Requests, Submit(r) PROVE LevelsKept'
  <2>1. PICK c \in Calls :
           /\ pc[r] = "idle"
           /\ c \in CallsOf(r, c.op)
           /\ Accept(r, c)
           /\ \/ /\ c.op = "POST"
                 /\ stamp' = [stamp EXCEPT ![r] = Now]
                 /\ draft' = [draft EXCEPT ![r] = NewItem(r, c)]
                 /\ pc' = [pc EXCEPT ![r] = "write"]
              \/ /\ c.op # "POST"
                 /\ UNCHANGED <<stamp, draft>>
                 /\ \E p \in {"check", "read"} : pc' = [pc EXCEPT ![r] = p]
    BY <1>1, SubmitCases
  <2>2. /\ \A q \in Requests \ {r} :
              pc'[q] = pc[q] /\ draft'[q] = draft[q] /\ call'[q] = call[q]
        /\ call'[r] = c /\ UNCHANGED store
    BY <2>1 DEF Accept, TypeInv, TypeOK
  <2>3. pc'[r] = "read" => c.op \in {"PATCH", "DELETE"}
    BY <1>1, <2>2 DEF Submit, Create, Replace, Update, Delete, CallsOf, Accept, TypeInv, TypeOK
  <2>4. pc'[r] = "write" => c.op = "POST"
    BY <2>1 DEF TypeInv, TypeOK
  <2>5. c.op = "PATCH" /\ c.role # "admin" => c.vis = None
    BY <2>1 DEF Accept, Admissible
  <2>6. QED
    BY <2>2, <2>3, <2>4, <2>5 DEF LevelsKept, LevelOr, Found
<1>2. ASSUME NEW r \in Requests, Check(r) PROVE LevelsKept'
  <2>1. CASE \E a \in Replies : Finish(r, a)
    BY <1>2, <2>1, LevelsFinish DEF Check
  <2>2. CASE /\ MayReplace(call[r], store[call[r].id].vis)
             /\ pc' = [pc EXCEPT ![r] = "read"]
             /\ UNCHANGED <<call, reply, draft, stamp>>
    <3>1. \A q \in Requests : pc'[q] = IF q = r THEN "read" ELSE pc[q]
      BY <2>2 DEF TypeInv, TypeOK
    <3>2. QED
      BY <1>2, <2>2, <3>1 DEF Check, LevelsKept, Found, MayReplace
  <2>3. QED
    BY <1>2, <2>1, <2>2 DEF Check, Replies, ReadsOf
<1>3. ASSUME NEW r \in Requests, Read(r) PROVE LevelsKept'
  <2>1. CASE \E a \in Replies : Finish(r, a)
    BY <1>3, <2>1, LevelsFinish DEF Read
  <2>2. CASE /\ Found(store[call[r].id])
             /\ Matches(call[r], store[call[r].id])
             /\ draft' = [draft EXCEPT ![r] = NextItem(r, call[r], store[call[r].id])]
             /\ pc' = [pc EXCEPT ![r] = "write"]
             /\ UNCHANGED <<call, store>>
    <3>1. /\ \A q \in Requests \ {r} : pc'[q] = pc[q] /\ draft'[q] = draft[q]
          /\ pc'[r] = "write" /\ draft'[r] = NextItem(r, call[r], store[call[r].id])
      BY <2>2 DEF TypeInv, TypeOK
    <3>2. call[r].op \in {"PUT", "PATCH"} =>
             draft'[r].vis = LevelOr(call[r].vis, store[call[r].id].vis)
      BY <3>1 DEF NextItem
    <3>3. QED
      BY <1>3, <2>2, <3>1, <3>2 DEF Read, LevelsKept, Found, Matches
  <2>3. QED
    BY <1>3, <2>1, <2>2 DEF Read, Replies, ReadsOf
<1>4. ASSUME NEW r \in Requests, Commit(r) PROVE LevelsKept'
  BY <1>4, LevelsCommit
<1>5. ASSUME NEW r \in Requests, Reject(r) \/ Log(r) \/ Fail(r) PROVE LevelsKept'
  BY <1>5, LevelsFinish DEF Reject, Log, Fail, Replies
<1>6. CASE UNCHANGED <<store, pc, call, draft>>
  BY <1>6 DEF LevelsKept, Found
<1>7. QED
  BY <1>1, <1>2, <1>3, <1>4, <1>5, <1>6 DEF Next, Step, Replicate, vars

\* If reads are current, as in the tests of the repository, only an admin changes the
\* visibility of a feature, though PUT is checked against one read and built on another.
THEOREM OnlyAdminsSetVisibility ==
    ASSUME "stale_read" \notin Faults
    PROVE  Spec => EditorsKeepVisibility
<1>1. Init => LevelsKept
  BY DEF Init, LevelsKept
<1>2. TypeInv /\ VersionInv /\ LevelsKept /\ [Next]_vars => LevelsKept'
  BY LevelsNext
<1>3. TypeInv /\ VersionInv /\ LevelsKept /\ [Next]_vars =>
         [\A id \in Features : store'[id].vis # store[id].vis =>
             \E r \in Requests : at'[r] # at[r] /\ call[r].role = "admin"]_vars
  <2> SUFFICES ASSUME TypeInv, VersionInv, LevelsKept, Next,
                      NEW id \in Features, store'[id].vis # store[id].vis
               PROVE  \E r \in Requests : at'[r] # at[r] /\ call[r].role = "admin"
    OBVIOUS
  <2>1. CASE UNCHANGED store
    BY <2>1
  <2>2. ASSUME NEW r \in Requests, Commit(r)
        PROVE  \E q \in Requests : at'[q] # at[q] /\ call[q].role = "admin"
    <3>1. /\ call[r] \in Calls /\ call[r] # None /\ at[r] = 0 /\ at'[r] = clock + 1
          /\ id = call[r].id /\ pc[r] = "write"
      BY <2>2, CommitEffect DEF Commit, Features
    <3>2. call[r].op # "POST" /\ Found(store[id]) /\ store[id].etag = call[r].ifMatch
      BY <2>2, <3>1, CommitPuts DEF Features
    <3>3. call[r].op # "DELETE" /\ store'[id] = draft[r]
      BY <2>2, <3>1, CommitPuts DEF Items
    <3>4. call[r].op \in {"PUT", "PATCH"}
      BY <3>1, <3>2, <3>3 DEF Calls, Ops
    <3>5. call[r].role = "admin"
      BY <3>1, <3>2, <3>3, <3>4 DEF LevelsKept
    <3>6. at'[r] # at[r]
      BY <3>1 DEF TypeInv, TypeOK
    <3>7. QED
      BY <3>5, <3>6
  <2>3. QED
    BY <2>1, <2>2, SubmitIsQuiet DEF Next, Step, Check, Read, Reject, Log, Fail, Replicate
<1>4. QED
  BY <1>1, <1>2, <1>3, VersionInvariant, PTL DEF Spec, EditorsKeepVisibility

-----------------------------------------------------------------------------
(***************************************************************************)
(* Refusals                                                                *)
(***************************************************************************)

\* A version that is not current was superseded by a request that named it, and a
\* deleted feature had a DELETE that named its last version.
Superseded ==
    \A id \in Features :
        /\ \A v \in VersionsOf(id) :
              v # store[id].etag => \E s \in Committed : call[s].ifMatch = v
        /\ store[id].deleted =>
              \E s \in Committed : /\ call[s].op = "DELETE" /\ call[s].id = id
                                   /\ call[s].ifMatch = store[id].etag

\* No invocation reads or waits for its write that has committed: every answer of
\* DynamoDB arrives.  POST reads nothing.
AnswersArrive ==
    /\ \A r \in Requests : pc[r] = "write" => at[r] = 0
    /\ \A r \in Requests : pc[r] \in {"check", "read"} => call[r].op # "POST"

LEMMA SupersededSame ==
    ASSUME Superseded, UNCHANGED <<store, at>>, \A q \in Committed : call'[q] = call[q]
    PROVE  Superseded'
<1>1. /\ Committed' = Committed /\ Features' = Features
      /\ \A id : VersionsOf(id)' = VersionsOf(id)
  BY VersionsSame DEF Features
<1>2. QED
  BY <1>1 DEF Superseded

LEMMA SupersededCommit ==
    ASSUME TypeInv, VersionInv, Superseded, NEW r \in Requests, Commit(r)
    PROVE  Superseded'
<1>1. /\ call' = call /\ call[r].id \in Requests
      /\ Committed' = Committed \cup {r}
      /\ \A id \in Requests : VersionsOf(id)' =
            IF id = call[r].id /\ call[r].op # "DELETE"
            THEN VersionsOf(id) \cup {r} ELSE VersionsOf(id)
      /\ \A id \in Requests : id # call[r].id => store'[id] = store[id]
  BY CommitEffect
<1> SUFFICES ASSUME NEW id \in Features'
             PROVE  /\ \A v \in VersionsOf(id)' :
                          v # store'[id].etag => \E s \in Committed' : call[s].ifMatch = v
                    /\ store'[id].deleted =>
                          \E s \in Committed' : /\ call[s].op = "DELETE" /\ call[s].id = id
                                                /\ call[s].ifMatch = store'[id].etag
  BY <1>1 DEF Superseded
<1>2. id \in Requests /\ store'[id] # None
  BY DEF Features
<1>3. CASE id # call[r].id
  <2>1. id \in Features /\ store'[id] = store[id] /\ VersionsOf(id)' = VersionsOf(id)
    BY <1>1, <1>2, <1>3 DEF Features
  <2>2. QED
    BY <1>1, <2>1 DEF Superseded
<1>4. CASE id = call[r].id /\ call[r].op = "DELETE"
  <2>1. /\ store'[id].etag = store[id].etag /\ store[id].etag = call[r].ifMatch
        /\ id \in Features /\ VersionsOf(id)' = VersionsOf(id)
    <3>1. /\ store[id] \in Items /\ store'[id] = [store[id] EXCEPT !.deleted = TRUE]
          /\ Found(store[id]) /\ store[id].etag = call[r].ifMatch
      BY <1>4, CommitPuts
    <3>2. QED
      BY <1>1, <1>2, <1>4, <3>1 DEF Items, Found, Features
  <2>2. QED
    BY <1>1, <1>4, <2>1 DEF Superseded
<1>5. CASE id = call[r].id /\ call[r].op = "POST"
  <2>1. store'[id].etag = r /\ ~store'[id].deleted /\ store[id] = None
    BY <1>5, CommitPuts
  <2>2. VersionsOf(id)' = {r}
    BY <1>1, <1>2, <1>5, <2>1 DEF VersionInv, Latest, VersionsOf
  <2>3. QED
    BY <2>1, <2>2
<1>6. CASE id = call[r].id /\ call[r].op \notin {"POST", "DELETE"}
  <2>1. /\ store'[id].etag = r /\ ~store'[id].deleted
        /\ id \in Features /\ store[id].etag = call[r].ifMatch
    BY <1>2, <1>6, CommitPuts DEF Found, Features
  <2>2. QED
    BY <1>1, <1>2, <1>6, <2>1 DEF Superseded
<1>7. QED
  BY <1>3, <1>4, <1>5, <1>6

LEMMA SupersededNext ==
    ASSUME TypeInv, VersionInv, Superseded, [Next]_vars
    PROVE  Superseded'
<1>1. CASE UNCHANGED <<store, at>>
  BY <1>1, CallsStay, SupersededSame
<1>2. ASSUME NEW r \in Requests, Commit(r) PROVE Superseded'
  BY <1>2, SupersededCommit
<1>3. QED
  BY <1>1, <1>2, SubmitIsQuiet
     DEF Next, Step, Check, Read, Reject, Log, Fail, Replicate, vars

LEMMA AnswersNext ==
    ASSUME "lost_answer" \notin Faults, TypeInv, VersionInv, AnswersArrive, [Next]_vars
    PROVE  AnswersArrive'
<1>1. ASSUME NEW r \in Requests, Submit(r) PROVE AnswersArrive'
  <2>1. PICK c \in Calls :
           /\ pc[r] = "idle"
           /\ c \in CallsOf(r, c.op)
           /\ Accept(r, c)
           /\ \/ /\ c.op = "POST"
                 /\ stamp' = [stamp EXCEPT ![r] = Now]
                 /\ draft' = [draft EXCEPT ![r] = NewItem(r, c)]
                 /\ pc' = [pc EXCEPT ![r] = "write"]
              \/ /\ c.op # "POST"
                 /\ UNCHANGED <<stamp, draft>>
                 /\ \E p \in {"check", "read"} : pc' = [pc EXCEPT ![r] = p]
    BY <1>1, SubmitCases
  <2>2. at[r] = 0
    BY <2>1 DEF VersionInv, NotYet
  <2>3. QED
    BY <2>1, <2>2 DEF Accept, AnswersArrive, TypeInv, TypeOK
<1>2. ASSUME NEW r \in Requests, NEW a \in Replies, Finish(r, a), UNCHANGED at
      PROVE  AnswersArrive'
  BY <1>2 DEF Finish, AnswersArrive, TypeInv, TypeOK
<1>3. ASSUME NEW r \in Requests, pc[r] \in {"check", "read"}, UNCHANGED <<call, at>>,
             \E p \in {"read", "write"} : pc' = [pc EXCEPT ![r] = p]
      PROVE  AnswersArrive'
  BY <1>3 DEF AnswersArrive, TypeInv, TypeOK, VersionInv, NotYet
<1>4. ASSUME NEW r \in Requests, Commit(r) PROVE AnswersArrive'
  BY <1>4 DEF Commit, AnswersArrive, TypeInv, TypeOK
<1>5. CASE UNCHANGED <<pc, call, at>>
  BY <1>5 DEF AnswersArrive
<1>6. QED
  BY <1>1, <1>2, <1>3, <1>4, <1>5
     DEF Next, Step, Check, Read, Reject, Log, Fail, Replicate, Replies, vars

\* What the current item says to a request that names a version there was.
LEMMA RefusalsMean ==
    ASSUME TypeInv, VersionInv, Superseded, NEW r \in Requests, at[r] = 0,
           call[r] \in Calls, call[r].op # "POST"
    PROVE  /\ ~Found(store[call[r].id]) =>
                 \E s \in Committed \ {r} :
                     call[s].op = "DELETE" /\ call[s].id = call[r].id
           /\ ~Found(store[call[r].id]) \/ store[call[r].id].etag # call[r].ifMatch =>
                 \E s \in Committed \ {r} : call[s].ifMatch = call[r].ifMatch
<1>1. call[r] # None /\ call[r].id \in Requests /\ r \notin Committed
  BY NoneAssumption DEF Calls, Committed
<1>2. call[r].ifMatch \in VersionsOf(call[r].id)
  BY <1>1 DEF VersionInv, BaseKnown
<1>3. call[r].id \in Features
  BY <1>1, <1>2 DEF VersionInv, Latest, VersionsOf, Features
<1>4. store[call[r].id].deleted => \E s \in Committed :
         call[s].op = "DELETE" /\ call[s].id = call[r].id
         /\ call[s].ifMatch = store[call[r].id].etag
  BY <1>3 DEF Superseded
<1>5. call[r].ifMatch # store[call[r].id].etag =>
         \E s \in Committed : call[s].ifMatch = call[r].ifMatch
  BY <1>2, <1>3 DEF Superseded
<1>6. QED
  BY <1>1, <1>3, <1>4, <1>5 DEF Found, Features

\* If reads are current and no answer is lost, a 412 means that another request has
\* superseded the version If-Match names, and a 404 that another deleted the feature.
THEOREM RefusalsAreJustified ==
    ASSUME "stale_read" \notin Faults, "lost_answer" \notin Faults
    PROVE  Spec => RefusalsJustified
<1> DEFINE Inv == TypeInv /\ VersionInv /\ Superseded /\ AnswersArrive
<1>1. Init => Superseded /\ AnswersArrive
  BY DEF Init, Superseded, AnswersArrive, Features
<1>2. Inv /\ [Next]_vars => Superseded' /\ AnswersArrive'
  BY SupersededNext, AnswersNext
<1>3. Inv /\ [Next]_vars =>
         [\A r \in Requests : reply'[r] # reply[r] =>
             /\ reply'[r] = "mismatch" =>
                   \E s \in Committed \ {r} : call[s].ifMatch = call[r].ifMatch
             /\ reply'[r] = "not_found" =>
                   \E s \in Committed \ {r} :
                       call[s].op = "DELETE" /\ call[s].id = call[r].id]_vars
  <2> SUFFICES ASSUME Inv, Next, NEW r \in Requests, reply'[r] # reply[r],
                      reply'[r] \in {"mismatch", "not_found"}
               PROVE  /\ reply'[r] = "mismatch" =>
                            \E s \in Committed \ {r} : call[s].ifMatch = call[r].ifMatch
                      /\ reply'[r] = "not_found" =>
                            \E s \in Committed \ {r} :
                                call[s].op = "DELETE" /\ call[s].id = call[r].id
    OBVIOUS
  <2>1. CASE UNCHANGED reply
    BY <2>1
  <2>2. ASSUME NEW q \in Requests, NEW a \in Replies, Finish(q, a)
        PROVE  q = r /\ a = reply'[r]
    BY <2>2 DEF Finish, TypeInv, TypeOK
  <2>3. ASSUME NEW q \in Requests, Check(q)
        PROVE  /\ reply'[r] = "not_found" /\ pc[r] = "check" /\ ~Found(store[call[r].id])
    BY <2>1, <2>2, <2>3 DEF Check, ReadsOf, Replies
  <2>4. ASSUME NEW q \in Requests, Read(q)
        PROVE  /\ pc[r] = "read"
               /\ reply'[r] = "not_found" => ~Found(store[call[r].id])
               /\ reply'[r] = "mismatch" => store[call[r].id].etag # call[r].ifMatch
    BY <2>1, <2>2, <2>4 DEF Read, ReadsOf, Matches, Replies
  <2>5. ASSUME NEW q \in Requests, Reject(q)
        PROVE  /\ pc[r] = "write" /\ reply'[r] = "mismatch" /\ call[r].op # "POST"
               /\ ~Found(store[call[r].id]) \/ store[call[r].id].etag # call[r].ifMatch
    BY <2>2, <2>5 DEF Reject, ConditionHolds, Replies
  <2>6. ASSUME NEW q \in Requests, Log(q) \/ Fail(q) PROVE FALSE
    BY <2>2, <2>6 DEF Log, Fail, Replies
  <2>7. ASSUME pc[r] \in {"check", "read", "write"}, call[r].op # "POST"
        PROVE  at[r] = 0 /\ call[r] \in Calls
    BY <2>7 DEF AnswersArrive, TypeInv, InMemory, VersionInv, NotYet
  <2>8. CASE \E q \in Requests : Check(q) \/ Read(q)
    <3>1. at[r] = 0 /\ call[r] \in Calls /\ call[r].op # "POST"
      BY <2>3, <2>4, <2>7, <2>8 DEF AnswersArrive
    <3>2. QED
      BY <2>3, <2>4, <2>8, <3>1, RefusalsMean
  <2>9. CASE \E q \in Requests : Reject(q)
    <3>1. at[r] = 0 /\ call[r] \in Calls /\ call[r].op # "POST"
      BY <2>5, <2>7, <2>9
    <3>2. QED
      BY <2>5, <2>9, <3>1, RefusalsMean
  <2>10. QED
    BY <2>1, <2>6, <2>8, <2>9, SubmitIsQuiet DEF Next, Step, Commit, Replicate
<1>4. QED
  <2>1. Init => Inv
    BY <1>1, TypeInit, VersionInit
  <2>2. Inv /\ [Next]_vars => Inv'
    BY <1>2, TypeNext, VersionNext
  <2>3. QED
    BY <1>3, <2>1, <2>2, PTL DEF Spec, RefusalsJustified

=============================================================================
