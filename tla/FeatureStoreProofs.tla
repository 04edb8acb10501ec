------------------------- MODULE FeatureStoreProofs -------------------------
(***************************************************************************)
(* Theorems about FeatureStore, for any number of invocations and for any  *)
(* set of faults.                                                          *)
(***************************************************************************)
EXTENDS FeatureStore, TLAPS

-----------------------------------------------------------------------------
(***************************************************************************)
(* Types                                                                   *)
(***************************************************************************)

\* The items the operators build are items.
LEMMA NewItemType ==
    ASSUME NEW r \in Requests, NEW c \in Calls
    PROVE  NewItem(r, c) \in Items
BY DefaultLevelAssumption DEF NewItem, Items, Calls, LevelOr

LEMMA NextItemType ==
    ASSUME NEW r \in Requests, NEW c \in Calls, NEW item \in Items
    PROVE  NextItem(r, c, item) \in Items
BY DEF NextItem, Items, Calls, LevelOr

\* A read yields an item or nothing.
LEMMA ReadType ==
    ASSUME TypeOK, NEW id \in Requests, NEW item \in ReadsOf(id)
    PROVE  /\ item \in Items \cup {None}
           /\ Found(item) => item \in Items
BY DEF TypeOK, ReadsOf, Found

\* An invocation under way has a call, and one about to write has its item.
\* TypeOK alone is not inductive: what Read and Commit store is of the right type
\* because the call and the draft they use are there.
InMemory ==
    \A r \in Requests :
        /\ pc[r] \in {"check", "read", "write", "log"} => call[r] \in Calls
        /\ pc[r] \in {"write", "log"} => draft[r] \in Items
        /\ at[r] > 0 => call[r] \in Calls

TypeInv == TypeOK /\ InMemory

LEMMA TypeInit == Init => TypeInv
BY DEF Init, TypeInv, TypeOK, InMemory, Phases, Replies

\* An invocation that ends keeps the types.
LEMMA FinishType ==
    ASSUME TypeInv, NEW r \in Requests, NEW a \in Replies, Finish(r, a),
           UNCHANGED <<store, replica, clock, at>>, changes' \subseteq ChangeRecords
    PROVE  TypeInv'
BY DEF TypeInv, TypeOK, InMemory, Phases, Finish

\* What the four handlers do when a call arrives.
LEMMA SubmitCases ==
    ASSUME NEW r \in Requests, Submit(r)
    PROVE  \E c \in Calls :
              /\ pc[r] = "idle"
              /\ c \in CallsOf(r, c.op)
              /\ Accept(r, c)
              /\ \/ /\ c.op = "POST"
                    /\ stamp' = [stamp EXCEPT ![r] = Now]
                    /\ draft' = [draft EXCEPT ![r] = NewItem(r, c)]
                    /\ pc' = [pc EXCEPT ![r] = "write"]
                 \/ /\ c.op # "POST"
                    /\ UNCHANGED <<stamp, draft>>
                    /\ \E p \in {"check", "read"} : pc' = [pc EXCEPT ![r] = p]
<1>1. CASE Create(r)
  BY <1>1 DEF Create, CallsOf
<1>2. CASE Replace(r)
  BY <1>2 DEF Replace, CallsOf
<1>3. CASE Update(r)
  BY <1>3 DEF Update, CallsOf
<1>4. CASE Delete(r)
  BY <1>4 DEF Delete, CallsOf
<1>5. QED
  BY <1>1, <1>2, <1>3, <1>4 DEF Submit

\* They leave the tables alone.
LEMMA SubmitIsQuiet ==
    ASSUME NEW r \in Requests, Submit(r)
    PROVE  UNCHANGED <<store, replica, changes, reply, clock, at>>
BY SubmitCases DEF Accept

LEMMA TypeNext == TypeInv /\ [Next]_vars => TypeInv'
<1> SUFFICES ASSUME TypeInv, [Next]_vars PROVE TypeInv'
  OBVIOUS
<1> USE DEF TypeInv
<1>1. ASSUME NEW r \in Requests, Submit(r) PROVE TypeInv'
  <2>1. PICK c \in Calls :
           /\ pc[r] = "idle"
           /\ c \in CallsOf(r, c.op)
           /\ Accept(r, c)
           /\ \/ /\ c.op = "POST"
                 /\ stamp' = [stamp EXCEPT ![r] = Now]
                 /\ draft' = [draft EXCEPT ![r] = NewItem(r, c)]
                 /\ pc' = [pc EXCEPT ![r] = "write"]
              \/ /\ c.op # "POST"
                 /\ UNCHANGED <<stamp, draft>>
                 /\ \E p \in {"check", "read"} : pc' = [pc EXCEPT ![r] = p]
    BY <1>1, SubmitCases
  <2>2. NewItem(r, c) \in Items
    BY NewItemType
  <2>3. TypeOK'
    BY <2>1, <2>2 DEF Accept, TypeOK, Phases, Now
  <2>4. InMemory'
    BY <2>1, <2>2 DEF Accept, TypeOK, InMemory
  <2>5. QED
    BY <2>3, <2>4
<1>2. ASSUME NEW r \in Requests, Check(r) PROVE TypeInv'
  <2>1. CASE \E a \in Replies : Finish(r, a)
    BY <1>2, <2>1, FinishType DEF Check, TypeOK
  <2>2. CASE /\ pc' = [pc EXCEPT ![r] = "read"]
             /\ UNCHANGED <<call, reply, draft, stamp>>
    BY <1>2, <2>2 DEF Check, TypeOK, InMemory, Phases
  <2>3. QED
    BY <1>2, <2>1, <2>2 DEF Check, Replies
<1>3. ASSUME NEW r \in Requests, Read(r) PROVE TypeInv'
  <2>1. call[r] \in Calls /\ call[r].id \in Requests
    BY <1>3 DEF Read, InMemory, Calls
  <2>2. CASE \E a \in Replies : Finish(r, a)
    BY <1>3, <2>2, FinishType DEF Read, TypeOK
  <2>3. ASSUME NEW item \in ReadsOf(call[r].id), Found(item),
               draft' = [draft EXCEPT ![r] = NextItem(r, call[r], item)],
               stamp' = [stamp EXCEPT ![r] = Now],
               pc' = [pc EXCEPT ![r] = "write"],
               UNCHANGED <<call, reply>>
        PROVE  TypeInv'
    <3>1. NextItem(r, call[r], item) \in Items
      BY <2>1, <2>3, ReadType, NextItemType
    <3>2. QED
      BY <1>3, <2>1, <2>3, <3>1 DEF Read, TypeOK, InMemory, Phases, Now
  <2>4. QED
    BY <1>3, <2>2, <2>3 DEF Read, Replies
<1>4. ASSUME NEW r \in Requests, Commit(r) PROVE TypeInv'
  <2>1. /\ call[r] \in Calls /\ call[r].id \in Requests
        /\ draft[r] \in Items
    BY <1>4 DEF Commit, InMemory, Calls
  <2>2. Written(call[r], draft[r], store[call[r].id]) \in Items
    BY <1>4, <2>1 DEF Commit, Written, ConditionHolds, Found, TypeOK, Items
  <2>3. QED
    BY <1>4, <2>1, <2>2 DEF Commit, TypeOK, InMemory, Phases
<1>5. ASSUME NEW r \in Requests, Reject(r) PROVE TypeInv'
  BY <1>5, FinishType DEF Reject, Replies, TypeOK
<1>6. ASSUME NEW r \in Requests, Log(r) PROVE TypeInv'
  <2>1. RecordOf(r) \in ChangeRecords
    BY <1>6 DEF Log, InMemory, TypeOK, RecordOf, ChangeRecords, Calls, Items
  <2>2. QED
    BY <1>6, <2>1, FinishType DEF Log, Replies, TypeOK
<1>7. ASSUME NEW r \in Requests, Fail(r) PROVE TypeInv'
  BY <1>7, FinishType DEF Fail, Replies, TypeOK
<1>8. ASSUME NEW id \in Requests, Replicate(id) PROVE TypeInv'
  BY <1>8 DEF Replicate, TypeOK, InMemory
<1>9. CASE UNCHANGED vars
  BY <1>9 DEF vars, TypeOK, InMemory
<1>10. QED
  BY <1>1, <1>2, <1>3, <1>4, <1>5, <1>6, <1>7, <1>8, <1>9 DEF Next, Step

LEMMA TypeInvariant == Spec => []TypeInv
BY TypeInit, TypeNext, PTL DEF Spec

\* What the program stores, sends and records has the types TypeOK gives.
THEOREM TypeCorrect == Spec => []TypeOK
BY TypeInvariant, PTL DEF TypeInv

-----------------------------------------------------------------------------
(***************************************************************************)
(* Versions                                                                *)
(***************************************************************************)

\* Commit times lie in the past, and no two mutations share one.
Timed ==
    /\ \A r \in Requests : at[r] <= clock
    /\ \A r, s \in Committed : at[r] = at[s] => r = s

\* An invocation that has not reached its write has not committed.
NotYet == \A r \in Requests : pc[r] \in {"idle", "check", "read"} => at[r] = 0

\* A POST creates the feature named after it; the others name a version that
\* was current when they were sent.
BaseKnown ==
    \A r \in Requests : call[r] # None =>
        IF call[r].op = "POST" THEN call[r].id = r
        ELSE call[r].ifMatch \in VersionsOf(call[r].id)

\* The stored item of a feature is its latest version, and a feature that is not
\* marked deleted has seen no DELETE.
Latest ==
    \A id \in Requests :
        /\ store[id] = None => \A q \in Committed : call[q].id # id
        /\ store[id] # None =>
              /\ store[id].etag \in VersionsOf(id)
              /\ \A q \in VersionsOf(id) : at[q] <= at[store[id].etag]
        /\ Found(store[id]) =>
              \A q \in Committed : call[q].id = id => call[q].op # "DELETE"

\* An item about to be written is marked with the ETag of its invocation.
OwnETag ==
    \A r \in Requests :
        pc[r] = "write" /\ call[r].op # "DELETE" => draft[r].etag = r /\ ~draft[r].deleted

VersionInv ==
    Timed /\ NotYet /\ BaseKnown /\ Latest /\ OwnETag /\ NoLostUpdate

LEMMA VersionInit == Init => VersionInv
BY NoneAssumption DEF Init, VersionInv, Timed, NotYet, BaseKnown, Latest, OwnETag,
   NoLostUpdate, Committed, VersionsOf, Found

\* A step that commits nothing and forgets no committed call leaves the versions
\* of every feature as they are.
LEMMA VersionsSame ==
    ASSUME UNCHANGED at, \A q \in Committed : call'[q] = call[q]
    PROVE  /\ Committed' = Committed
           /\ \A id : VersionsOf(id)' = VersionsOf(id)
BY DEF Committed, VersionsOf

\* Such a step has the invariant to show only for what it changed in memory.
LEMMA Quiet ==
    ASSUME TypeInv, VersionInv, UNCHANGED <<store, clock, at>>,
           \A q \in Committed : call'[q] = call[q],
           NotYet', BaseKnown', OwnETag'
    PROVE  VersionInv'
<1>1. /\ Committed' = Committed
      /\ \A id : VersionsOf(id)' = VersionsOf(id)
  BY VersionsSame
<1>2. Timed'
  BY <1>1 DEF VersionInv, Timed
<1>3. Latest'
  BY <1>1 DEF VersionInv, Latest, Found
<1>4. NoLostUpdate'
  BY <1>1 DEF VersionInv, NoLostUpdate
<1>5. QED
  BY <1>2, <1>3, <1>4 DEF VersionInv

\* An invocation that ends without a write.
LEMMA QuietFinish ==
    ASSUME TypeInv, VersionInv, NEW r \in Requests, NEW a \in Replies, Finish(r, a),
           UNCHANGED <<store, clock, at>>
    PROVE  VersionInv'
<1>1. \A q \in Requests : call'[q] = call[q] \/ (q = r /\ call'[q] = None /\ at[q] = 0)
  BY DEF Finish, TypeInv, TypeOK
<1>2. \A q \in Committed : call'[q] = call[q]
  BY <1>1 DEF Committed
<1>3. NotYet'
  BY DEF Finish, TypeInv, TypeOK, VersionInv, NotYet
<1>4. BaseKnown'
  BY <1>1, <1>2, VersionsSame DEF VersionInv, BaseKnown
<1>5. OwnETag'
  BY <1>1 DEF Finish, TypeInv, TypeOK, VersionInv, OwnETag
<1>6. QED
  BY <1>2, <1>3, <1>4, <1>5, Quiet

\* An invocation whose condition holds has not committed before: what it sends is
\* the first copy of its write, or a copy the store has not applied.
LEMMA FirstCommit ==
    ASSUME TypeInv, VersionInv, NEW r \in Requests, pc[r] = "write",
           ConditionHolds(call[r], store[call[r].id])
    PROVE  at[r] = 0
<1> DEFINE id == call[r].id
<1>1. call[r] \in Calls /\ id \in Requests /\ call[r] # None
  BY NoneAssumption DEF TypeInv, TypeOK, InMemory, Calls
<1>2. SUFFICES ASSUME at[r] > 0 PROVE FALSE
  BY DEF TypeInv, TypeOK
<1>3. r \in Committed
  BY <1>2 DEF Committed
<1>4. CASE call[r].op = "POST"
  BY <1>1, <1>3, <1>4 DEF ConditionHolds, VersionInv, Latest
<1>5. CASE call[r].op = "DELETE"
  BY <1>1, <1>3, <1>5 DEF ConditionHolds, VersionInv, Latest
<1>6. CASE call[r].op \in {"PUT", "PATCH"}
  <2>1. r \in VersionsOf(id)
    BY <1>3, <1>6 DEF VersionsOf
  <2>2. at[r] <= at[call[r].ifMatch]
    BY <1>1, <1>6, <2>1 DEF ConditionHolds, Found, VersionInv, Latest
  <2>3. at[call[r].ifMatch] < at[r]
    BY <1>3, <1>6 DEF VersionInv, NoLostUpdate
  <2>4. call[r].ifMatch \in Requests
    BY <1>3, <1>6 DEF VersionInv, NoLostUpdate, VersionsOf, Committed
  <2>5. QED
    BY <2>2, <2>3, <2>4 DEF TypeInv, TypeOK
<1>7. QED
  BY <1>1, <1>4, <1>5, <1>6 DEF Calls, Ops

\* What a successful conditional write does to the versions of its feature.
LEMMA CommitEffect ==
    ASSUME TypeInv, VersionInv, NEW r \in Requests, Commit(r)
    PROVE  /\ call[r] \in Calls /\ call[r].id \in Requests /\ call[r] # None
           /\ at[r] = 0 /\ at'[r] = clock + 1 /\ clock' = clock + 1
           /\ \A q \in Requests \ {r} : at'[q] = at[q]
           /\ call' = call
           /\ Committed' = Committed \cup {r}
           /\ \A id \in Requests : VersionsOf(id)' =
                 IF id = call[r].id /\ call[r].op # "DELETE"
                 THEN VersionsOf(id) \cup {r} ELSE VersionsOf(id)
           /\ store'[call[r].id] = Written(call[r], draft[r], store[call[r].id])
           /\ \A id \in Requests : id # call[r].id => store'[id] = store[id]
           /\ \A q \in Committed : at[q] <= clock
<1>1. call[r] \in Calls /\ call[r].id \in Requests /\ call[r] # None
  BY NoneAssumption DEF Commit, TypeInv, TypeOK, InMemory, Calls
<1>2. at[r] = 0
  BY FirstCommit DEF Commit
<1>3. /\ at'[r] = clock + 1 /\ clock' = clock + 1 /\ call' = call
      /\ \A q \in Requests \ {r} : at'[q] = at[q]
  BY DEF Commit, TypeInv, TypeOK
<1>4. Committed' = Committed \cup {r}
  BY <1>3 DEF Committed, TypeInv, TypeOK
<1>5. \A id \in Requests : VersionsOf(id)' =
          IF id = call[r].id /\ call[r].op # "DELETE"
          THEN VersionsOf(id) \cup {r} ELSE VersionsOf(id)
  BY <1>3, <1>4 DEF VersionsOf
<1>6. /\ store'[call[r].id] = Written(call[r], draft[r], store[call[r].id])
      /\ \A id \in Requests : id # call[r].id => store'[id] = store[id]
  BY <1>1 DEF Commit, TypeInv, TypeOK
<1>7. \A q \in Committed : at[q] <= clock
  BY DEF VersionInv, Timed, Committed
<1>8. QED
  BY <1>1, <1>2, <1>3, <1>4, <1>5, <1>6, <1>7

\* The heart of optimistic locking: a conditional write that succeeds makes the
\* version it names the last one before it, and itself the latest.
LEMMA VersionCommit ==
    ASSUME TypeInv, VersionInv, NEW r \in Requests, Commit(r)
    PROVE  VersionInv'
<1> DEFINE me == call[r].id
<1>1. PICK base : base = call[r].ifMatch
  OBVIOUS
<1>2. /\ call[r] \in Calls /\ me \in Requests /\ call[r] # None
      /\ at[r] = 0 /\ at'[r] = clock + 1 /\ clock' = clock + 1
      /\ \A q \in Requests \ {r} : at'[q] = at[q]
      /\ call' = call
      /\ Committed' = Committed \cup {r}
      /\ store'[me] = Written(call[r], draft[r], store[me])
      /\ \A id \in Requests : id # me => store'[id] = store[id]
      /\ \A q \in Committed : at[q] <= clock
  BY CommitEffect
<1>3. \A id \in Requests : VersionsOf(id)' =
          IF id = me /\ call[r].op # "DELETE"
          THEN VersionsOf(id) \cup {r} ELSE VersionsOf(id)
  BY CommitEffect
<1>4. /\ clock \in Nat /\ at \in [Requests -> Nat] /\ at' \in [Requests -> Nat]
      /\ Committed \subseteq Requests /\ r \notin Committed
      /\ \A q \in Committed : at'[q] = at[q] /\ at[q] > 0
  BY <1>2 DEF Commit, TypeInv, TypeOK, Committed
<1>5. ConditionHolds(call[r], store[me]) /\ pc[r] = "write"
  BY DEF Commit
<1>6. Timed'
  BY <1>2, <1>4 DEF VersionInv, Timed
<1>7. NotYet'
  BY <1>2, <1>5 DEF Commit, TypeInv, TypeOK, VersionInv, NotYet
<1>8. BaseKnown'
  BY <1>2, <1>3 DEF VersionInv, BaseKnown, Calls, TypeInv, TypeOK
<1>9. OwnETag'
  BY <1>2 DEF Commit, TypeInv, TypeOK, VersionInv, OwnETag
<1>10. Latest'
  <2> SUFFICES ASSUME NEW id \in Requests
               PROVE  /\ store'[id] = None => \A q \in Committed' : call[q].id # id
                      /\ store'[id] # None =>
                            /\ store'[id].etag \in VersionsOf(id)'
                            /\ \A q \in VersionsOf(id)' : at'[q] <= at'[store'[id].etag]
                      /\ Found(store'[id]) =>
                            \A q \in Committed' : call[q].id = id => call[q].op # "DELETE"
    BY <1>2 DEF Latest, Found
  <2>1. CASE id # me
    <3>1. /\ store'[id] = store[id] /\ VersionsOf(id)' = VersionsOf(id)
          /\ VersionsOf(id) \subseteq Committed
      BY <1>2, <1>3, <2>1 DEF VersionsOf
    <3>2. QED
      BY <1>2, <1>4, <2>1, <3>1 DEF VersionInv, Latest
  <2>2. CASE id = me /\ call[r].op = "DELETE"
    <3>1. /\ store[me] \in Items
          /\ store'[me] = [store[me] EXCEPT !.deleted = TRUE]
      BY <1>2, <1>5, <2>2 DEF Written, ConditionHolds, Found, TypeInv, TypeOK
    <3>2. /\ store'[me].etag = store[me].etag /\ ~Found(store'[me]) /\ store'[me] # None
      BY <3>1, NoneAssumption DEF Items, Found
    <3>3. VersionsOf(me)' = VersionsOf(me) /\ VersionsOf(me) \subseteq Committed
      BY <1>2, <1>3, <2>2 DEF VersionsOf
    <3>4. /\ store[me].etag \in VersionsOf(me)
          /\ \A q \in VersionsOf(me) : at[q] <= at[store[me].etag]
      BY <1>2, <3>1, NoneAssumption DEF VersionInv, Latest
    <3>5. \A q \in VersionsOf(me) : at'[q] <= at'[store[me].etag]
      BY <1>4, <3>3, <3>4
    <3>6. QED
      BY <1>2, <2>2, <3>2, <3>3, <3>4, <3>5
  <2>3. CASE id = me /\ call[r].op # "DELETE"
    <3>1. /\ store'[me] = draft[r] /\ draft[r] \in Items
          /\ draft[r].etag = r /\ draft[r] # None
      BY <1>2, <1>5, <2>3, NoneAssumption
         DEF Written, TypeInv, InMemory, VersionInv, OwnETag
    <3>2. VersionsOf(me)' = VersionsOf(me) \cup {r} /\ VersionsOf(me) \subseteq Committed
      BY <1>2, <1>3, <2>3 DEF VersionsOf
    <3>3. \A q \in Committed : call[q].id = me => call[q].op # "DELETE"
      BY <1>2, <1>5 DEF ConditionHolds, VersionInv, Latest
    <3>4. QED
      BY <1>2, <1>4, <2>3, <3>1, <3>2, <3>3
  <2>4. QED
    BY <2>1, <2>2, <2>3
<1>11. NoLostUpdate'
  <2>1. ASSUME call[r].op # "POST"
        PROVE  /\ base \in VersionsOf(me)
               /\ \A q \in Committed : call[q].id = me => at[q] <= at[base]
    <3>1. Found(store[me]) /\ store[me] # None /\ store[me].etag = base
      BY <1>1, <1>5, <2>1 DEF ConditionHolds, Found
    <3>2. \A q \in Committed : call[q].id = me => q \in VersionsOf(me)
      BY <1>2, <3>1 DEF VersionInv, Latest, VersionsOf
    <3>3. QED
      BY <1>2, <3>1, <3>2 DEF VersionInv, Latest
  <2> SUFFICES ASSUME NEW s \in Committed', call[s].op # "POST"
               PROVE  /\ call[s].ifMatch \in VersionsOf(call[s].id)'
                      /\ at'[call[s].ifMatch] < at'[s]
                      /\ \A q \in Committed' : call[q].id = call[s].id =>
                            at'[q] <= at'[call[s].ifMatch] \/ at'[s] <= at'[q]
    BY <1>2 DEF NoLostUpdate
  <2>2. CASE s = r
    <3>1. base \in Committed /\ base \in VersionsOf(me)'
      BY <1>2, <1>3, <2>1, <2>2 DEF VersionsOf
    <3>2. QED
      BY <1>1, <1>2, <1>4, <2>1, <2>2, <3>1
  <2>3. CASE s # r
    <3>1. s \in Committed
      BY <1>2, <2>3
    <3>2. PICK b : b = call[s].ifMatch
      OBVIOUS
    <3>3. /\ b \in VersionsOf(call[s].id) /\ b \in Committed
          /\ at[b] < at[s]
          /\ \A q \in Committed : call[q].id = call[s].id => at[q] <= at[b] \/ at[s] <= at[q]
      BY <3>1, <3>2 DEF VersionInv, NoLostUpdate, VersionsOf
    <3>4. call[s].id \in Requests
      BY <1>4, <3>1 DEF Committed, TypeInv, InMemory, Calls
    <3>5. b \in VersionsOf(call[s].id)'
      BY <1>2, <1>3, <3>3, <3>4
    <3>6. QED
      BY <1>2, <1>4, <3>1, <3>2, <3>3, <3>5
  <2>4. QED
    BY <2>2, <2>3
<1>12. QED
  BY <1>6, <1>7, <1>8, <1>9, <1>10, <1>11 DEF VersionInv

LEMMA VersionNext == TypeInv /\ VersionInv /\ [Next]_vars => VersionInv'
<1> SUFFICES ASSUME TypeInv, VersionInv, [Next]_vars PROVE VersionInv'
  OBVIOUS
<1>1. ASSUME NEW r \in Requests, Submit(r) PROVE VersionInv'
  <2>1. PICK c \in Calls :
           /\ pc[r] = "idle"
           /\ c \in CallsOf(r, c.op)
           /\ Accept(r, c)
           /\ \/ /\ c.op = "POST"
                 /\ stamp' = [stamp EXCEPT ![r] = Now]
                 /\ draft' = [draft EXCEPT ![r] = NewItem(r, c)]
                 /\ pc' = [pc EXCEPT ![r] = "write"]
              \/ /\ c.op # "POST"
                 /\ UNCHANGED <<stamp, draft>>
                 /\ \E p \in {"check", "read"} : pc' = [pc EXCEPT ![r] = p]
    BY <1>1, SubmitCases
  <2>2. /\ c \in Calls /\ at[r] = 0
        /\ \A q \in Requests : call'[q] = IF q = r THEN c ELSE call[q]
    BY <2>1 DEF Accept, CallsOf, TypeInv, TypeOK, VersionInv, NotYet
  <2>3. \A q \in Committed : call'[q] = call[q]
    BY <2>2 DEF Committed
  <2>4. NotYet'
    BY <2>1, <2>2 DEF Accept, TypeInv, TypeOK, VersionInv, NotYet
  <2>5. IF c.op = "POST" THEN c.id = r ELSE c.ifMatch \in VersionsOf(c.id)
    BY <2>1 DEF Accept, CallsOf, Admissible
  <2>6. UNCHANGED at
    BY <2>1 DEF Accept
  <2>7. \A id : VersionsOf(id)' = VersionsOf(id)
    BY <2>3, <2>6, VersionsSame
  <2>8. BaseKnown'
    BY <2>2, <2>5, <2>7 DEF VersionInv, BaseKnown
  <2>9. OwnETag'
    BY <2>1, <2>2 DEF Accept, NewItem, TypeInv, TypeOK, VersionInv, OwnETag
  <2>10. QED
    BY <2>1, <2>3, <2>4, <2>8, <2>9, Quiet DEF Accept
<1>2. ASSUME NEW r \in Requests, Check(r) PROVE VersionInv'
  <2>1. CASE \E a \in Replies : Finish(r, a)
    BY <1>2, <2>1, QuietFinish DEF Check
  <2>2. CASE /\ pc' = [pc EXCEPT ![r] = "read"]
             /\ UNCHANGED <<call, reply, draft, stamp>>
    <3>1. NotYet' /\ OwnETag'
      BY <1>2, <2>2 DEF Check, TypeInv, TypeOK, VersionInv, NotYet, OwnETag
    <3>2. BaseKnown'
      BY <1>2, <2>2, VersionsSame DEF Check, VersionInv, BaseKnown
    <3>3. QED
      BY <1>2, <2>2, <3>1, <3>2, Quiet DEF Check
  <2>3. QED
    BY <1>2, <2>1, <2>2 DEF Check, Replies
<1>3. ASSUME NEW r \in Requests, Read(r) PROVE VersionInv'
  <2>1. CASE \E a \in Replies : Finish(r, a)
    BY <1>3, <2>1, QuietFinish DEF Read
  <2>2. ASSUME NEW item \in ReadsOf(call[r].id), Found(item),
               draft' = [draft EXCEPT ![r] = NextItem(r, call[r], item)],
               pc' = [pc EXCEPT ![r] = "write"],
               UNCHANGED <<call, reply>>
        PROVE  VersionInv'
    <3>1. NotYet'
      BY <1>3, <2>2 DEF Read, TypeInv, TypeOK, VersionInv, NotYet
    <3>2. BaseKnown'
      BY <1>3, <2>2, VersionsSame DEF Read, VersionInv, BaseKnown
    <3>3. OwnETag'
      BY <1>3, <2>2 DEF Read, NextItem, TypeInv, TypeOK, VersionInv, OwnETag
    <3>4. QED
      BY <1>3, <2>2, <3>1, <3>2, <3>3, Quiet DEF Read
  <2>3. QED
    BY <1>3, <2>1, <2>2 DEF Read, Replies
<1>4. ASSUME NEW r \in Requests, Commit(r) PROVE VersionInv'
  BY <1>4, VersionCommit
<1>5. ASSUME NEW r \in Requests, Reject(r) PROVE VersionInv'
  BY <1>5, QuietFinish DEF Reject, Replies
<1>6. ASSUME NEW r \in Requests, Log(r) PROVE VersionInv'
  BY <1>6, QuietFinish DEF Log, Replies
<1>7. ASSUME NEW r \in Requests, Fail(r) PROVE VersionInv'
  BY <1>7, QuietFinish DEF Fail, Replies
<1>8. ASSUME NEW id \in Requests, Replicate(id) PROVE VersionInv'
  BY <1>8, Quiet, VersionsSame
     DEF Replicate, VersionInv, NotYet, BaseKnown, OwnETag
<1>9. CASE UNCHANGED vars
  BY <1>9, Quiet, VersionsSame DEF vars, VersionInv, NotYet, BaseKnown, OwnETag
<1>10. QED
  BY <1>1, <1>2, <1>3, <1>4, <1>5, <1>6, <1>7, <1>8, <1>9 DEF Next, Step

LEMMA VersionInvariant == Spec => [](TypeInv /\ VersionInv)
BY TypeInit, TypeNext, VersionInit, VersionNext, PTL DEF Spec

\* The calls of the invocations that committed stay.
LEMMA CallsStay ==
    ASSUME TypeInv, VersionInv, [Next]_vars
    PROVE  \A q \in Committed : call'[q] = call[q]
<1>1. ASSUME NEW r \in Requests, NEW a \in Replies, Finish(r, a)
      PROVE  \A q \in Committed : call'[q] = call[q]
  BY <1>1 DEF Finish, Committed, TypeInv, TypeOK
<1>2. ASSUME NEW r \in Requests, Submit(r)
      PROVE  \A q \in Committed : call'[q] = call[q]
  BY <1>2, SubmitCases DEF Accept, Committed, TypeInv, TypeOK, VersionInv, NotYet
<1>3. CASE UNCHANGED call
  BY <1>3
<1>4. QED
  BY <1>1, <1>2, <1>3
     DEF Next, Step, Check, Read, Commit, Reject, Log, Fail, Replicate, Replies, vars

\* Optimistic locking loses no update, for any number of concurrent writers, with
\* reads as stale and writes as often repeated as the environment likes.
THEOREM LosesNoUpdate == Spec => []NoLostUpdate
BY VersionInvariant, PTL DEF VersionInv

\* A deleted feature is never written again.
THEOREM DeletionIsFinal == Spec => DeletedIsFrozen
<1>1. TypeInv /\ VersionInv /\ [Next]_vars =>
        [\A id \in Features : store[id].deleted => store'[id] = store[id]]_vars
  <2> SUFFICES ASSUME TypeInv, VersionInv, Next, NEW id \in Features, store[id].deleted
               PROVE  store'[id] = store[id]
    OBVIOUS
  <2>1. CASE UNCHANGED store
    BY <2>1
  <2>2. ASSUME NEW r \in Requests, Commit(r) PROVE store'[id] = store[id]
    <3>1. ConditionHolds(call[r], store[call[r].id])
      BY <2>2 DEF Commit
    <3>2. id # call[r].id
      BY <3>1 DEF ConditionHolds, Found, Features
    <3>3. QED
      BY <2>2, <3>2, CommitEffect DEF Features
  <2>3. QED
    BY <2>1, <2>2, SubmitIsQuiet DEF Next, Step, Check, Read, Reject, Log, Fail, Replicate
<1>2. QED
  BY <1>1, VersionInvariant, PTL DEF Spec, DeletedIsFrozen

\* However often the SDK sends a write, it is applied at most once.
THEOREM AppliedOnce == Spec => CommitsOnce
<1>1. TypeInv /\ VersionInv /\ [Next]_vars => [\A r \in Committed : at'[r] = at[r]]_vars
  <2> SUFFICES ASSUME TypeInv, VersionInv, Next, NEW q \in Committed
               PROVE  at'[q] = at[q]
    OBVIOUS
  <2>1. CASE UNCHANGED at
    BY <2>1
  <2>2. ASSUME NEW r \in Requests, Commit(r) PROVE at'[q] = at[q]
    BY <2>2, CommitEffect DEF Committed
  <2>3. QED
    BY <2>1, <2>2, SubmitIsQuiet DEF Next, Step, Check, Read, Reject, Log, Fail, Replicate
<1>2. QED
  BY <1>1, VersionInvariant, PTL DEF Spec, CommitsOnce

=============================================================================
