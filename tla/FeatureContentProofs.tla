------------------------ MODULE FeatureContentProofs ------------------------
(***************************************************************************)
(* Theorems about what the features table holds in FeatureStore, and that  *)
(* FeatureStore implements FeatureRegister.                                *)
(***************************************************************************)
EXTENDS FeatureStoreProofs

-----------------------------------------------------------------------------
(***************************************************************************)
(* Copies                                                                  *)
(***************************************************************************)

\* The edits that a version holds: its own, and those of the versions before it
\* from the last one on that was no merge.
EditsAt(id, e) ==
    {q \in VersionsOf(id) :
        /\ at[q] <= at[e]
        /\ \A p \in VersionsOf(id) :
              call[p].op # "PATCH" /\ at[p] <= at[e] => at[p] <= at[q]}

\* DELETE keeps the item it read until it answers.
Keeping(id) ==
    {r \in Requests :
        pc[r] \in {"write", "log"} /\ call[r].op = "DELETE" /\ call[r].id = id}

\* The items of a feature there are anywhere: in the table, in the copy that a
\* lagging read may see, and in the memory of the invocations.
Copies(id) == ({store[id], replica[id]} \cup {draft[r] : r \in Keeping(id)}) \ {None}

\* However old a copy is, its ETag says what is in it.
CopiesTrue ==
    \A id \in Requests : \A item \in Copies(id) :
        item.etag \in VersionsOf(id) /\ item.body = EditsAt(id, item.etag)

CopiesAgree ==
    \A id \in Requests : \A item, other \in Copies(id) :
        item.etag = other.etag => item.vis = other.vis

\* An item about to be written was built on the version that If-Match names.
DraftsBased ==
    \A r \in Requests : pc[r] = "write" =>
        /\ call[r].op \in {"POST", "PUT"} => draft[r].body = {r}
        /\ call[r].op = "PATCH" =>
              draft[r].body = EditsAt(call[r].id, call[r].ifMatch) \cup {r}
        /\ call[r].op = "DELETE" => draft[r].etag = call[r].ifMatch

ContentInv == CopiesTrue /\ CopiesAgree /\ DraftsBased

LEMMA ContentInit == Init => ContentInv
BY DEF Init, ContentInv, CopiesTrue, CopiesAgree, DraftsBased, Copies, Keeping

\* A step that commits nothing leaves the edits of every version as they are.
LEMMA EditsSame ==
    ASSUME UNCHANGED at, \A q \in Committed : call'[q] = call[q]
    PROVE  \A id, e : EditsAt(id, e)' = EditsAt(id, e)
<1>1. \A id : VersionsOf(id)' = VersionsOf(id) /\ VersionsOf(id) \subseteq Committed
  BY VersionsSame DEF VersionsOf
<1>2. QED
  BY <1>1, Zenon DEF EditsAt

\* Such a step has the invariant to show only for the drafts it makes, if every copy
\* it leaves is one there was.
LEMMA ContentQuiet ==
    ASSUME ContentInv, UNCHANGED at, \A q \in Committed : call'[q] = call[q],
           \A id \in Requests : Copies(id)' \subseteq Copies(id),
           DraftsBased'
    PROVE  ContentInv'
<1>1. \A id : VersionsOf(id)' = VersionsOf(id)
  BY VersionsSame
<1>2. \A id, e : EditsAt(id, e)' = EditsAt(id, e)
  BY EditsSame
<1>3. CopiesTrue'
  BY <1>1, <1>2 DEF ContentInv, CopiesTrue
<1>4. CopiesAgree'
  BY DEF ContentInv, CopiesAgree
<1>5. QED
  BY <1>3, <1>4 DEF ContentInv

\* An invocation that ends without a write forgets its copy.
LEMMA ContentFinish ==
    ASSUME TypeInv, ContentInv, NEW r \in Requests, NEW a \in Replies, Finish(r, a),
           UNCHANGED <<store, replica, at>>
    PROVE  ContentInv'
<1>1. \A q \in Requests :
         /\ call'[q] = call[q] \/ (q = r /\ at[q] = 0)
         /\ q # r => pc'[q] = pc[q] /\ draft'[q] = draft[q] /\ call'[q] = call[q]
         /\ pc'[r] = "done"
  BY DEF Finish, TypeInv, TypeOK
<1>2. \A q \in Committed : call'[q] = call[q]
  BY <1>1 DEF Committed
<1>3. \A id \in Requests : Copies(id)' \subseteq Copies(id)
  BY <1>1 DEF Copies, Keeping
<1>4. \A id, e : EditsAt(id, e)' = EditsAt(id, e)
  BY <1>2, EditsSame
<1>5. DraftsBased'
  BY <1>1, <1>4 DEF ContentInv, DraftsBased
<1>6. QED
  BY <1>2, <1>3, <1>5, ContentQuiet

-----------------------------------------------------------------------------
(***************************************************************************)
(* What a write does to the versions                                       *)
(***************************************************************************)

\* An earlier version keeps its edits.
LEMMA EditsStay ==
    ASSUME TypeInv, VersionInv, NEW r \in Requests, Commit(r),
           NEW id \in Requests, NEW e \in VersionsOf(id)
    PROVE  EditsAt(id, e)' = EditsAt(id, e)
<1>1. /\ at'[r] = clock + 1 /\ call' = call
      /\ \A q \in Requests \ {r} : at'[q] = at[q]
      /\ \A q \in Committed : at[q] <= clock
      /\ VersionsOf(id)' \in {VersionsOf(id), VersionsOf(id) \cup {r}}
      /\ r \notin Committed
  BY CommitEffect DEF Committed
<1>2. VersionsOf(id) \subseteq Committed /\ Committed \subseteq Requests
  BY DEF VersionsOf, Committed
<1>3. /\ clock \in Nat /\ at \in [Requests -> Nat]
      /\ \A q \in VersionsOf(id) : at'[q] = at[q] /\ at[q] <= clock /\ q \in Requests
      /\ r \notin VersionsOf(id)
  BY <1>1, <1>2 DEF TypeInv, TypeOK
<1>4. \A q \in VersionsOf(id)' :
         q \in EditsAt(id, e)' <=> q \in EditsAt(id, e)
  <2> SUFFICES ASSUME NEW q \in VersionsOf(id)'
               PROVE  q \in EditsAt(id, e)' <=> q \in EditsAt(id, e)
    OBVIOUS
  <2>1. CASE q = r
    <3>1. ~(at'[q] <= at'[e])
      BY <1>1, <1>3, <2>1
    <3>2. q \notin VersionsOf(id)
      BY <1>3, <2>1
    <3>3. QED
      BY <3>1, <3>2 DEF EditsAt
  <2>2. CASE q # r
    <3>1. q \in VersionsOf(id)
      BY <1>1, <2>2
    <3>2. \A p \in VersionsOf(id)' : at'[p] <= at'[e] <=> p \in VersionsOf(id) /\ at[p] <= at[e]
      BY <1>1, <1>3
    <3>3. QED
      BY <1>1, <1>3, <3>1, <3>2 DEF EditsAt
  <2>3. QED
    BY <2>1, <2>2
<1>5. VersionsOf(id) \subseteq VersionsOf(id)'
  BY <1>1
<1>6. QED
  BY <1>4, <1>5 DEF EditsAt

\* The new version holds what its draft was built from.
LEMMA EditsGrow ==
    ASSUME TypeInv, VersionInv, NEW r \in Requests, Commit(r), call[r].op # "DELETE"
    PROVE  EditsAt(call[r].id, r)' =
              IF call[r].op = "PATCH" THEN EditsAt(call[r].id, call[r].ifMatch) \cup {r}
              ELSE {r}
<1> DEFINE me == call[r].id
           base == call[r].ifMatch
           old == VersionsOf(me)
<1>1. /\ at'[r] = clock + 1 /\ call' = call /\ me \in Requests
      /\ \A q \in Requests \ {r} : at'[q] = at[q]
      /\ \A q \in Committed : at[q] <= clock
      /\ VersionsOf(me)' = old \cup {r}
      /\ r \notin Committed
  BY CommitEffect DEF Committed
<1>2. /\ clock \in Nat /\ at \in [Requests -> Nat]
      /\ \A q \in old : at'[q] = at[q] /\ at[q] <= clock /\ q \in Requests
      /\ r \notin old
  BY <1>1 DEF TypeInv, TypeOK, VersionsOf, Committed
<1>3. \A q \in old \cup {r} : at'[q] <= at'[r]
  BY <1>1, <1>2
<1>4. EditsAt(me, r)' = {q \in old \cup {r} : \A p \in old \cup {r} :
                            call[p].op # "PATCH" => at'[p] <= at'[q]}
  BY <1>1, <1>3 DEF EditsAt
<1> HIDE DEF me, old
<1>5. CASE call[r].op # "PATCH"
  <2>1. \A q \in old : ~(at'[r] <= at'[q])
    BY <1>1, <1>2
  <2>2. \A q \in old \cup {r} :
           (\A p \in old \cup {r} : call[p].op # "PATCH" => at'[p] <= at'[q]) <=> q = r
    BY <1>3, <1>5, <2>1
  <2>3. EditsAt(me, r)' = {r}
    BY <1>4, <2>2
  <2>4. QED
    BY <1>5, <2>3 DEF me
<1>6. CASE call[r].op = "PATCH"
  <2>1. /\ Found(store[me]) /\ store[me].etag = base
        /\ base \in old /\ \A q \in old : at[q] <= at[base]
    BY <1>1, <1>6 DEF Commit, ConditionHolds, Found, VersionInv, Latest, me, old
  <2>2. EditsAt(me, base) =
           {q \in old : \A p \in old : call[p].op # "PATCH" => at[p] <= at[q]}
    BY <2>1 DEF EditsAt, old
  <2>3. \A q \in old :
           (\A p \in old \cup {r} : call[p].op # "PATCH" => at'[p] <= at'[q])
           <=> \A p \in old : call[p].op # "PATCH" => at[p] <= at[q]
    BY <1>2, <1>6
  <2>4. \A p \in old \cup {r} : call[p].op # "PATCH" => at'[p] <= at'[r]
    BY <1>3
  <2>5. EditsAt(me, r)' = EditsAt(me, base) \cup {r}
    BY <1>4, <2>2, <2>3, <2>4
  <2>6. QED
    BY <1>6, <2>5 DEF me
<1>7. QED
  BY <1>5, <1>6

\* What a successful conditional write puts into the table: its draft, which is the new
\* version, or the item there was, with the flag set.
LEMMA CommitPuts ==
    ASSUME TypeInv, VersionInv, NEW r \in Requests, Commit(r)
    PROVE  /\ call[r].op # "DELETE" =>
                 store'[call[r].id] = draft[r] /\ draft[r] \in Items
                 /\ draft[r].etag = r /\ ~draft[r].deleted
           /\ call[r].op = "DELETE" =>
                 /\ store[call[r].id] \in Items
                 /\ store'[call[r].id] = [store[call[r].id] EXCEPT !.deleted = TRUE]
           /\ call[r].op # "POST" =>
                 Found(store[call[r].id]) /\ store[call[r].id].etag = call[r].ifMatch
           /\ call[r].op = "POST" => store[call[r].id] = None
<1>1. /\ store'[call[r].id] = Written(call[r], draft[r], store[call[r].id])
      /\ call[r].id \in Requests
  BY CommitEffect
<1>2. ConditionHolds(call[r], store[call[r].id]) /\ pc[r] = "write"
  BY DEF Commit
<1>3. draft[r] \in Items /\ store[call[r].id] \in Items \cup {None}
  BY <1>1, <1>2 DEF TypeInv, TypeOK, InMemory
<1>4. QED
  BY <1>1, <1>2, <1>3 DEF Written, ConditionHolds, Found, VersionInv, OwnETag

\* A write adds one copy at most: its draft, or an item that differs from one there was
\* in its flag only.
LEMMA CopiesCommit ==
    ASSUME TypeInv, VersionInv, NEW r \in Requests, Commit(r),
           NEW id \in Requests, NEW item \in Copies(id)'
    PROVE  \/ item \in Copies(id)
           \/ /\ id = call[r].id /\ call[r].op # "DELETE" /\ item = draft[r]
           \/ \E stored \in Copies(id) :
                 item.etag = stored.etag /\ item.vis = stored.vis /\ item.body = stored.body
<1>1. /\ replica' = replica /\ call' = call /\ draft' = draft
      /\ pc'[r] \in {"write", "log"} /\ pc[r] = "write"
      /\ \A q \in Requests \ {r} : pc'[q] = pc[q]
      /\ \A i \in Requests : i # call[r].id => store'[i] = store[i]
  BY CommitEffect DEF Commit, TypeInv, TypeOK
<1>2. Keeping(id)' = Keeping(id)
  BY <1>1 DEF Keeping
<1>3. CASE item # store'[id]
  BY <1>1, <1>2, <1>3 DEF Copies
<1>4. CASE item = store'[id] /\ id # call[r].id
  BY <1>1, <1>4 DEF Copies
<1>5. CASE item = store'[id] /\ id = call[r].id /\ call[r].op = "DELETE"
  <2>1. /\ store[id] \in Items /\ store[id] # None
        /\ store'[id] = [store[id] EXCEPT !.deleted = TRUE]
    BY <1>5, CommitPuts, NoneAssumption
  <2>2. /\ item.etag = store[id].etag /\ item.vis = store[id].vis
        /\ item.body = store[id].body
    BY <1>5, <2>1 DEF Items
  <2>3. store[id] \in Copies(id)
    BY <2>1 DEF Copies
  <2>4. QED
    BY <2>2, <2>3
<1>6. CASE item = store'[id] /\ id = call[r].id /\ call[r].op # "DELETE"
  BY <1>6, CommitPuts
<1>7. QED
  BY <1>3, <1>4, <1>5, <1>6

LEMMA ContentCommit ==
    ASSUME TypeInv, VersionInv, ContentInv, NEW r \in Requests, Commit(r)
    PROVE  ContentInv'
<1>1. /\ call' = call /\ draft' = draft /\ pc[r] = "write" /\ r \notin Committed
      /\ \A q \in Requests : pc'[q] = "write" => pc[q] = "write"
      /\ \A id \in Requests : VersionsOf(id)' =
            IF id = call[r].id /\ call[r].op # "DELETE"
            THEN VersionsOf(id) \cup {r} ELSE VersionsOf(id)
  <2>1. /\ call' = call /\ at[r] = 0
        /\ \A id \in Requests : VersionsOf(id)' =
              IF id = call[r].id /\ call[r].op # "DELETE"
              THEN VersionsOf(id) \cup {r} ELSE VersionsOf(id)
    BY CommitEffect
  <2>2. /\ draft' = draft /\ pc[r] = "write"
        /\ \A q \in Requests : pc'[q] = "write" => pc[q] = "write"
    BY DEF Commit, TypeInv, TypeOK
  <2>3. QED
    BY <2>1, <2>2 DEF Committed
<1>2. \A id \in Requests : \A e \in VersionsOf(id) : EditsAt(id, e)' = EditsAt(id, e)
  BY EditsStay
<1>3. call[r].op # "DELETE" =>
         /\ draft[r].etag = r
         /\ draft[r].body = EditsAt(call[r].id, r)'
  <2> SUFFICES ASSUME call[r].op # "DELETE"
               PROVE  draft[r].etag = r /\ draft[r].body = EditsAt(call[r].id, r)'
    OBVIOUS
  <2>1. call[r].op \in {"POST", "PUT", "PATCH"}
    BY CommitEffect DEF Calls, Ops
  <2>2. EditsAt(call[r].id, r)' =
           IF call[r].op = "PATCH" THEN EditsAt(call[r].id, call[r].ifMatch) \cup {r} ELSE {r}
    BY EditsGrow
  <2>3. draft[r].body =
           IF call[r].op = "PATCH" THEN EditsAt(call[r].id, call[r].ifMatch) \cup {r} ELSE {r}
    BY <1>1, <2>1 DEF ContentInv, DraftsBased
  <2>4. QED
    BY <2>2, <2>3, CommitPuts
<1>4. CopiesTrue'
  <2> SUFFICES ASSUME NEW id \in Requests, NEW item \in Copies(id)'
               PROVE  item.etag \in VersionsOf(id)' /\ item.body = EditsAt(id, item.etag)'
    BY DEF CopiesTrue
  <2>1. CASE id = call[r].id /\ call[r].op # "DELETE" /\ item = draft[r]
    BY <1>1, <1>3, <2>1
  <2>2. CASE \E stored \in Copies(id) :
                item.etag = stored.etag /\ item.vis = stored.vis /\ item.body = stored.body
    <3>1. item.etag \in VersionsOf(id) /\ item.body = EditsAt(id, item.etag)
      BY <2>2 DEF ContentInv, CopiesTrue
    <3>2. QED
      BY <1>1, <1>2, <3>1
  <2>3. QED
    BY <2>1, <2>2, CopiesCommit
<1>5. CopiesAgree'
  <2> SUFFICES ASSUME NEW id \in Requests, NEW item \in Copies(id)', NEW other \in Copies(id)',
                      item.etag = other.etag
               PROVE  item.vis = other.vis
    BY DEF CopiesAgree
  <2> DEFINE IsNew(i) == id = call[r].id /\ call[r].op # "DELETE" /\ i = draft[r]
             IsOld(i) == \E stored \in Copies(id) : i.etag = stored.etag /\ i.vis = stored.vis
  <2>1. /\ IsNew(item) \/ IsOld(item)
        /\ IsNew(other) \/ IsOld(other)
    BY CopiesCommit
  <2>2. ASSUME NEW i, IsOld(i) PROVE i.etag # r
    <3>1. i.etag \in Committed
      BY <2>2 DEF ContentInv, CopiesTrue, VersionsOf
    <3>2. QED
      BY <1>1, <3>1
  <2>3. ASSUME NEW i, IsNew(i) PROVE i.etag = r
    BY <1>3, <2>3
  <2>4. CASE IsOld(item) /\ IsOld(other)
    BY <2>4 DEF ContentInv, CopiesAgree
  <2>5. CASE IsNew(item) /\ IsNew(other)
    BY <2>5
  <2>6. QED
    BY <2>1, <2>2, <2>3, <2>4, <2>5
<1>6. DraftsBased'
  <2> SUFFICES ASSUME NEW q \in Requests, pc[q] = "write", call[q].op = "PATCH",
                      NEW id, id = call[q].id, NEW base, base = call[q].ifMatch
               PROVE  EditsAt(id, base)' = EditsAt(id, base)
    BY <1>1 DEF DraftsBased, ContentInv
  <2>1. call[q] \in Calls /\ call[q] # None /\ id \in Requests
    BY NoneAssumption DEF TypeInv, InMemory, Calls
  <2>2. base \in VersionsOf(id)
    BY <2>1 DEF VersionInv, BaseKnown
  <2>3. QED
    BY <1>2, <2>1, <2>2
<1>7. QED
  BY <1>4, <1>5, <1>6 DEF ContentInv

-----------------------------------------------------------------------------
(***************************************************************************)
(* The other steps                                                         *)
(***************************************************************************)

LEMMA ContentSubmit ==
    ASSUME TypeInv, VersionInv, ContentInv, NEW r \in Requests, Submit(r)
    PROVE  ContentInv'
<1>1. PICK c \in Calls :
         /\ pc[r] = "idle"
         /\ c \in CallsOf(r, c.op)
         /\ Accept(r, c)
         /\ \/ /\ c.op = "POST"
               /\ stamp' = [stamp EXCEPT ![r] = Now]
               /\ draft' = [draft EXCEPT ![r] = NewItem(r, c)]
               /\ pc' = [pc EXCEPT ![r] = "write"]
            \/ /\ c.op # "POST"
               /\ UNCHANGED <<stamp, draft>>
               /\ \E p \in {"check", "read"} : pc' = [pc EXCEPT ![r] = p]
  BY SubmitCases
<1>2. /\ at[r] = 0 /\ UNCHANGED <<store, replica, at>>
      /\ \A q \in Requests : call'[q] = IF q = r THEN c ELSE call[q]
  BY <1>1 DEF Accept, TypeInv, TypeOK, VersionInv, NotYet
<1>3. /\ \A q \in Requests \ {r} : pc'[q] = pc[q] /\ draft'[q] = draft[q]
      /\ pc'[r] \in {"write", "log"} =>
            c.op = "POST" /\ pc'[r] = "write" /\ draft'[r] = NewItem(r, c)
  BY <1>1 DEF TypeInv, TypeOK
<1>4. \A q \in Committed : call'[q] = call[q]
  BY <1>2 DEF Committed
<1>5. \A id \in Requests : Copies(id)' \subseteq Copies(id)
  BY <1>1, <1>2, <1>3 DEF Copies, Keeping
<1>6. \A id, e : EditsAt(id, e)' = EditsAt(id, e)
  BY <1>2, <1>4, EditsSame
<1>7. DraftsBased'
  BY <1>2, <1>3, <1>6 DEF ContentInv, DraftsBased, NewItem
<1>8. QED
  BY <1>2, <1>4, <1>5, <1>7, ContentQuiet

\* What a read returns is a copy, current or not.
LEMMA ReadsAreCopies ==
    ASSUME NEW id \in Requests, NEW item \in ReadsOf(id), Found(item)
    PROVE  item \in Copies(id)
BY DEF ReadsOf, Found, Copies

LEMMA ContentRead ==
    ASSUME TypeInv, VersionInv, ContentInv, NEW r \in Requests, pc[r] = "read",
           NEW item \in ReadsOf(call[r].id), Found(item), Matches(call[r], item),
           draft' = [draft EXCEPT ![r] = NextItem(r, call[r], item)],
           pc' = [pc EXCEPT ![r] = "write"],
           UNCHANGED <<store, replica, call, at>>
    PROVE  ContentInv'
<1>1. /\ call[r] \in Calls /\ call[r].id \in Requests
      /\ item \in Copies(call[r].id)
  BY ReadsAreCopies DEF TypeInv, InMemory, Calls
<1>2. /\ item.etag = call[r].ifMatch
      /\ item.body = EditsAt(call[r].id, call[r].ifMatch)
  BY <1>1 DEF Matches, ContentInv, CopiesTrue
<1>3. /\ \A q \in Requests \ {r} : pc'[q] = pc[q] /\ draft'[q] = draft[q]
      /\ draft'[r] = NextItem(r, call[r], item)
  BY DEF TypeInv, TypeOK
<1>4. \A id \in Requests : Copies(id)' \subseteq Copies(id)
  BY <1>1, <1>3 DEF Copies, Keeping, NextItem
<1>5. \A id, e : EditsAt(id, e)' = EditsAt(id, e)
  BY EditsSame
<1>6. DraftsBased'
  <2>1. \A q \in Requests \ {r} : pc'[q] = "write" =>
           /\ call[q].op \in {"POST", "PUT"} => draft'[q].body = {q}
           /\ call[q].op = "PATCH" =>
                 draft'[q].body = EditsAt(call[q].id, call[q].ifMatch) \cup {q}
           /\ call[q].op = "DELETE" => draft'[q].etag = call[q].ifMatch
    BY <1>3 DEF ContentInv, DraftsBased
  <2>2. /\ call[r].op \in {"POST", "PUT"} => draft'[r].body = {r}
        /\ call[r].op = "PATCH" =>
              draft'[r].body = EditsAt(call[r].id, call[r].ifMatch) \cup {r}
        /\ call[r].op = "DELETE" => draft'[r].etag = call[r].ifMatch
    BY <1>2, <1>3 DEF NextItem
  <2>3. QED
    BY <1>5, <2>1, <2>2 DEF DraftsBased
<1>7. QED
  BY <1>4, <1>6, ContentQuiet

LEMMA ContentNext == TypeInv /\ VersionInv /\ ContentInv /\ [Next]_vars => ContentInv'
<1> SUFFICES ASSUME TypeInv, VersionInv, ContentInv, [Next]_vars PROVE ContentInv'
  OBVIOUS
<1>1. ASSUME UNCHANGED <<store, pc, call, draft, at>>,
             replica' = replica \/ \E id \in Requests :
                 replica' = [replica EXCEPT ![id] = store[id]]
      PROVE  ContentInv'
  <2>1. \A id \in Requests : replica'[id] \in {replica[id], store[id]}
    BY <1>1 DEF TypeInv, TypeOK
  <2>2. \A id \in Requests : Copies(id)' \subseteq Copies(id)
    BY <1>1, <2>1 DEF Copies, Keeping
  <2>3. \A id, e : EditsAt(id, e)' = EditsAt(id, e)
    BY <1>1, EditsSame
  <2>4. DraftsBased'
    BY <1>1, <2>3 DEF ContentInv, DraftsBased
  <2>5. QED
    BY <1>1, <2>2, <2>4, ContentQuiet
<1>2. ASSUME NEW r \in Requests, Submit(r) PROVE ContentInv'
  BY <1>2, ContentSubmit
<1>3. ASSUME NEW r \in Requests, Check(r) PROVE ContentInv'
  <2>1. CASE \E a \in Replies : Finish(r, a)
    BY <1>3, <2>1, ContentFinish DEF Check
  <2>2. CASE /\ pc' = [pc EXCEPT ![r] = "read"]
             /\ UNCHANGED <<call, reply, draft, stamp>>
    <3>1. \A q \in Requests : pc'[q] = IF q = r THEN "read" ELSE pc[q]
      BY <2>2 DEF TypeInv, TypeOK
    <3>2. \A id \in Requests : Copies(id)' \subseteq Copies(id)
      BY <1>3, <2>2, <3>1 DEF Check, Copies, Keeping
    <3>3. \A id, e : EditsAt(id, e)' = EditsAt(id, e)
      BY <1>3, <2>2, EditsSame DEF Check
    <3>4. DraftsBased'
      BY <2>2, <3>1, <3>3 DEF ContentInv, DraftsBased
    <3>5. QED
      BY <1>3, <2>2, <3>2, <3>4, ContentQuiet DEF Check
  <2>3. QED
    BY <1>3, <2>1, <2>2 DEF Check, Replies
<1>4. ASSUME NEW r \in Requests, Read(r) PROVE ContentInv'
  <2>1. CASE \E a \in Replies : Finish(r, a)
    BY <1>4, <2>1, ContentFinish DEF Read
  <2>2. CASE \E item \in ReadsOf(call[r].id) :
                /\ Found(item)
                /\ Matches(call[r], item)
                /\ draft' = [draft EXCEPT ![r] = NextItem(r, call[r], item)]
                /\ pc' = [pc EXCEPT ![r] = "write"]
                /\ UNCHANGED call
    BY <1>4, <2>2, ContentRead DEF Read
  <2>3. QED
    BY <1>4, <2>1, <2>2 DEF Read, Replies
<1>5. ASSUME NEW r \in Requests, Commit(r) PROVE ContentInv'
  BY <1>5, ContentCommit
<1>6. ASSUME NEW r \in Requests, Reject(r) \/ Log(r) \/ Fail(r) PROVE ContentInv'
  BY <1>6, ContentFinish DEF Reject, Log, Fail, Replies
<1>7. ASSUME NEW id \in Requests, Replicate(id) PROVE ContentInv'
  BY <1>1, <1>7 DEF Replicate
<1>8. CASE UNCHANGED vars
  BY <1>1, <1>8 DEF vars
<1>9. QED
  BY <1>2, <1>3, <1>4, <1>5, <1>6, <1>7, <1>8 DEF Next, Step

StoreInv == TypeInv /\ VersionInv /\ ContentInv

LEMMA StoreInvariant == Spec => []StoreInv
<1>1. Init => StoreInv
  BY TypeInit, VersionInit, ContentInit DEF StoreInv
<1>2. StoreInv /\ [Next]_vars => StoreInv'
  BY TypeNext, VersionNext, ContentNext DEF StoreInv
<1>3. QED
  BY <1>1, <1>2, PTL DEF Spec

\* No merge drops an edit: the stored feature holds those of its last POST or PUT and of
\* every PATCH since, however many writers there are and however stale their reads.
THEOREM EditsSurvive == Spec => []EditsKept
<1>1. StoreInv => EditsKept
  <2> SUFFICES ASSUME StoreInv, NEW id \in Features
               PROVE  store[id].body =
                         {q \in VersionsOf(id) :
                             \A p \in VersionsOf(id) : call[p].op # "PATCH" => at[p] <= at[q]}
    BY DEF EditsKept
  <2>1. id \in Requests /\ store[id] \in Copies(id)
    BY DEF Features, Copies
  <2>2. store[id].body = EditsAt(id, store[id].etag)
    BY <2>1 DEF StoreInv, ContentInv, CopiesTrue
  <2>3. \A q \in VersionsOf(id) : at[q] <= at[store[id].etag]
    BY <2>1 DEF StoreInv, VersionInv, Latest, Features
  <2>4. QED
    BY <2>2, <2>3, Zenon DEF EditsAt
<1>2. QED
  BY <1>1, StoreInvariant, PTL

-----------------------------------------------------------------------------
(***************************************************************************)
(* Refinement                                                              *)
(***************************************************************************)

\* A step that commits nothing leaves the register alone.
LEMMA RegisterStutters ==
    ASSUME UNCHANGED <<store, at>>, \A q \in Committed : call'[q] = call[q]
    PROVE  UNCHANGED Register!vars
<1>1. Committed' = Committed
  BY VersionsSame
<1>2. {r \in Committed : call[r].op # "DELETE"}' = {r \in Committed : call[r].op # "DELETE"}
  BY <1>1
<1>3. QED
  BY <1>2 DEF Register!vars

\* A commit is the operation of the register that its invocation serves.
LEMMA RegisterCommit ==
    ASSUME StoreInv, NEW r \in Requests, Commit(r)
    PROVE  Register!Next
<1> DEFINE used == {q \in Committed : call[q].op # "DELETE"}
<1>0. PICK id, base : id = call[r].id /\ base = call[r].ifMatch
  OBVIOUS
<1>1. /\ call[r] \in Calls /\ id \in Requests /\ call[r].op \in Ops
      /\ Committed' = Committed \cup {r} /\ call' = call /\ at[r] = 0
      /\ pc[r] = "write" /\ store \in [Requests -> Items \cup {None}]
      /\ store' = [store EXCEPT ![id] = store'[id]]
  BY <1>0, CommitEffect DEF StoreInv, TypeInv, TypeOK, Commit, Calls
<1>2. /\ call[r].op # "DELETE" => used' = used \cup {r}
      /\ call[r].op = "DELETE" => used' = used
      /\ r \notin used
  BY <1>1 DEF Committed
<1>3. call[r].op # "POST" => base \in Requests
  BY <1>0, <1>1, NoneAssumption DEF StoreInv, VersionInv, BaseKnown, VersionsOf, Committed, Calls
<1> HIDE DEF used
<1>4. CASE call[r].op = "POST"
  <2>1. /\ draft[r] \in Items /\ draft[r].body = {r} /\ draft[r].etag = r
        /\ draft[r].deleted = FALSE /\ id = r /\ store[id] = None /\ store'[id] = draft[r]
    BY <1>0, <1>1, <1>4, CommitPuts, NoneAssumption
       DEF StoreInv, ContentInv, DraftsBased, VersionInv, BaseKnown, Items
  <2>2. PICK level \in Levels :
           draft[r] = [vis |-> level, body |-> {id}, etag |-> id, deleted |-> FALSE]
    BY <2>1 DEF Items
  <2>3. Register!Create(id, level)
    BY <1>1, <1>2, <1>4, <2>1, <2>2 DEF Register!Create, used
  <2>4. QED
    BY <1>1, <2>2, <2>3 DEF Register!Next
<1>5. CASE call[r].op # "POST"
  <2>1. /\ Found(store[id]) /\ store[id].etag = base /\ store[id] \in Copies(id)
        /\ store[id] \in Items
    <3>1. Found(store[id]) /\ store[id].etag = base
      BY <1>0, <1>5, CommitPuts DEF StoreInv
    <3>2. QED
      BY <1>1, <3>1 DEF Found, Copies
  <2>2. store[id].body = EditsAt(id, base)
    BY <1>1, <2>1 DEF StoreInv, ContentInv, CopiesTrue
  <2>3. Register!Live(id)
    BY <2>1 DEF Found, Register!Live
  <2>4. CASE call[r].op = "DELETE"
    <3>1. Register!Delete(id, base)
      BY <1>1, <1>2, <2>1, <2>3, <2>4, <1>0, CommitPuts DEF Register!Delete, StoreInv, used
    <3>2. QED
      BY <1>1, <1>3, <1>5, <3>1 DEF Register!Next
  <2>5. CASE call[r].op \in {"PUT", "PATCH"}
    <3>1. /\ draft[r] \in Items /\ draft[r].etag = r /\ draft[r].deleted = FALSE
          /\ draft[r].body = IF call[r].op = "PUT" THEN {r} ELSE store[id].body \cup {r}
          /\ store'[id] = draft[r]
      BY <1>0, <1>1, <2>2, <2>5, CommitPuts DEF StoreInv, ContentInv, DraftsBased, Items
    <3>2. PICK level \in Levels :
             draft[r] = [vis |-> level, etag |-> r, deleted |-> FALSE,
                         body |-> IF call[r].op = "PUT" THEN {r} ELSE store[id].body \cup {r}]
      BY <3>1 DEF Items
    <3>3. \/ Register!Replace(id, base, r, level)
          \/ Register!Update(id, base, r, level)
      BY <1>1, <1>2, <2>1, <2>3, <2>5, <3>1, <3>2 DEF Register!Replace, Register!Update, used
    <3>4. QED
      BY <1>1, <1>3, <1>5, <3>2, <3>3 DEF Register!Next
  <2>6. QED
    BY <1>1, <1>5, <2>4, <2>5 DEF Ops
<1>6. QED
  BY <1>4, <1>5

\* However its steps interleave, a request that takes effect reads, modifies and writes
\* the feature as if in one step, and the others do nothing to it.
THEOREM RegisterImplemented == Spec => ImplementsRegister
<1>1. Init => Register!Init
  BY DEF Init, Register!Init, Committed
<1>2. StoreInv /\ [Next]_vars => [Register!Next]_(Register!vars)
  <2> SUFFICES ASSUME StoreInv, [Next]_vars PROVE Register!Next \/ UNCHANGED Register!vars
    OBVIOUS
  <2>1. CASE UNCHANGED <<store, at>>
    BY <2>1, CallsStay, RegisterStutters DEF StoreInv
  <2>2. ASSUME NEW r \in Requests, Commit(r) PROVE Register!Next
    BY <2>2, RegisterCommit
  <2>3. QED
    BY <2>1, <2>2, SubmitIsQuiet
       DEF Next, Step, Check, Read, Reject, Log, Fail, Replicate, vars
<1>3. QED
  BY <1>1, <1>2, StoreInvariant, PTL DEF Spec, ImplementsRegister, Register!Spec

=============================================================================
