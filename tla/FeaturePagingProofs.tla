------------------------ MODULE FeaturePagingProofs ------------------------
(***************************************************************************)
(* Theorems about FeaturePaging, for any number of features and writes and *)
(* any limits.                                                             *)
(***************************************************************************)
EXTENDS FeaturePaging, FiniteSetTheorems, TLAPS

-----------------------------------------------------------------------------
(***************************************************************************)
(* The inductive invariants                                                *)
(***************************************************************************)

InRequest == phase \in {"scan", "count"}

\* The request matches whatever the client asked for: it repeats it, or asks for all.
RequestCovers == request.query \in {client.query, "all"}

\* The features received lie up to the cursor of the request, those of its page after
\* it, and a next cursor is the last of them.
CursorInOrder ==
    /\ phase = "idle" => request.cursor = 0
    /\ phase # "done" => \A y \in got : y.key <= request.cursor
    /\ InRequest => request.cursor <= start
    /\ InRequest => \A x \in found : request.cursor < x.key
    /\ phase = "scan" /\ more => \A x \in found : x.key <= start
    /\ phase = "count" /\ next # 0 =>
          /\ \E x \in Page : x.key = next
          /\ \A x \in Page : x.key <= next

Received(k, read) == \E x \in read : x.key = k

SteadyMatches == phase # "idle" => \A k \in steady : Matches(table[k], client.query)

\* What matched all along was received up to the cursor, and collected from there to
\* where the scan is; a page has no gaps, and nothing follows a page without a cursor.
NothingSkipped ==
    /\ phase # "done" => \A k \in steady : k <= request.cursor => Received(k, got)
    /\ phase = "scan" =>
          \A k \in steady : request.cursor < k /\ (k <= start \/ ~more) => Received(k, found)
    /\ phase = "count" =>
          \A k \in steady :
              request.cursor < k /\ (\E x \in Page : k <= x.key) => Received(k, Page)
    /\ phase = "count" /\ next = 0 /\ ~capped =>
          \A k \in steady : request.cursor < k => Received(k, Page)

PagingInv ==
    /\ TypeOK /\ RequestCovers /\ CursorInOrder /\ SteadyMatches /\ NothingSkipped
    /\ NoGaps /\ CompleteUnlessCapped

\* The features that match, after the cursor, as far as the request has looked.
Seen ==
    {k \in Keys :
        /\ request.cursor < k /\ (more => k <= start)
        /\ Matches(table[k], request.query)}

\* While nothing is written the request has counted what it has seen.
CountsSeen ==
    /\ since <= writes
    /\ InRequest /\ writes = since =>
          /\ phase = "scan" =>
                found = {[key |-> k, item |-> table[k]] : k \in Seen}
          /\ phase = "count" /\ request.query # "bbox" => matched = Cardinality(Seen)

\* Clients that follow links ask for everything, since links do not repeat filters.
LinksAskForAll == \A t \in Traversals : t.mode = "links" => t.query = "all"

\* Then every request asks for what the client asked for, and collects nothing else.
CollectsMatching ==
    /\ request.query = client.query
    /\ InRequest => \A x \in found : Matches(x.item, client.query)

-----------------------------------------------------------------------------
(***************************************************************************)
(* Keys and pages                                                          *)
(***************************************************************************)

LEMMA LeastExists ==
    ASSUME NEW S \in SUBSET Nat, S # {}
    PROVE  \E i \in S : \A j \in S : i <= j
<1>1. IsWellFoundedOn(OpToRel(<, Nat), Nat)
  BY NatLessThanWellFounded
<1>2. PICK i \in S : \A j \in S : ~(<<j, i>> \in OpToRel(<, Nat))
  BY <1>1, WFMin
<1>3. \A j \in S : ~(j < i)
  BY <1>2 DEF OpToRel
<1> QED
  BY <1>3

LEMMA GreatestExists ==
    ASSUME NEW S \in SUBSET Keys, S # {}
    PROVE  \E i \in S : \A j \in S : j <= i
<1>1. N \in Nat /\ S \subseteq 1 .. N
  BY NAssumption DEF Keys
<1> DEFINE T == {N - i : i \in S}
<1>2. T \in SUBSET Nat /\ T # {}
  <2>1. ASSUME NEW i \in S PROVE N - i \in Nat
    <3>1. i \in Nat /\ i <= N
      BY <1>1
    <3>2. QED
      BY <1>1, <3>1
  <2>2. T \in SUBSET Nat
    BY <2>1
  <2>3. PICK i \in S : TRUE
    OBVIOUS
  <2>4. N - i \in T
    BY <2>3
  <2>5. QED
    BY <2>2, <2>4
<1>3. PICK t \in T : \A u \in T : t <= u
  BY <1>2, LeastExists
<1>4. PICK i \in S : t = N - i
  BY <1>3
<1>5. \A j \in S : N - i <= N - j
  BY <1>3, <1>4
<1>6. QED
  BY <1>1, <1>5

LEMMA KeySetsFinite ==
    ASSUME NEW S \in SUBSET Keys
    PROVE  IsFiniteSet(S) /\ Cardinality(S) \in Nat
<1>1. IsFiniteSet(Keys)
  BY NAssumption, FS_Interval DEF Keys
<1>2. QED
  BY <1>1, FS_Subset, FS_CardinalityType

LEMMA ReadSetsFinite ==
    ASSUME NEW S \in SUBSET Read
    PROVE  IsFiniteSet(S) /\ Cardinality(S) \in Nat
<1> DEFINE f == [p \in Keys \X Contents |-> [key |-> p[1], item |-> p[2]]]
<1>1. IsFiniteSet(Keys)
  BY NAssumption, FS_Interval DEF Keys
<1>2. IsFiniteSet(Contents)
  <2>1. /\ IsFiniteSet({"absent"}) /\ IsFiniteSet({"hidden"})
        /\ IsFiniteSet({"other"}) /\ IsFiniteSet({"wanted"})
    BY FS_Singleton
  <2>2. IsFiniteSet({"absent"} \cup {"hidden"}) /\ IsFiniteSet({"other"} \cup {"wanted"})
    BY <2>1, FS_Union
  <2>3. IsFiniteSet(({"absent"} \cup {"hidden"}) \cup ({"other"} \cup {"wanted"}))
    BY <2>2, FS_Union
  <2>4. Contents = ({"absent"} \cup {"hidden"}) \cup ({"other"} \cup {"wanted"})
    BY DEF Contents
  <2>5. QED
    BY <2>3, <2>4
<1>3. f \in Surjection(Keys \X Contents, Read)
  <2>1. f \in [Keys \X Contents -> Read]
    BY DEF Read
  <2>2. ASSUME NEW x \in Read PROVE \E p \in Keys \X Contents : f[p] = x
    <3>1. <<x.key, x.item>> \in Keys \X Contents /\ f[<<x.key, x.item>>] = x
      BY DEF Read
    <3>2. QED
      BY <3>1
  <2>3. QED
    BY <2>1, <2>2 DEF Surjection
<1>4. IsFiniteSet(Read)
  BY <1>1, <1>2, <1>3, FS_Product, FS_Surjection
<1>5. QED
  BY <1>4, FS_Subset, FS_CardinalityType

\* The last key of a page is that of one of its features.
LEMMA LastKeyOfPage ==
    ASSUME NEW page \in SUBSET Read, page # {}
    PROVE  /\ LastKey(page) \in Keys
           /\ \E x \in page : x.key = LastKey(page)
           /\ \A x \in page : x.key <= LastKey(page)
<1> DEFINE keys == {x.key : x \in page}
<1>1. keys \in SUBSET Keys /\ keys # {}
  BY DEF Read
<1>2. PICK k \in keys : \A j \in keys : j <= k
  BY <1>1, GreatestExists
<1>3. \E x \in page : x.key = k
  BY <1>2
<1>4. \A x \in page : x.key <= k
  BY <1>2
<1>5. k \in Keys
  BY <1>1, <1>2
<1>6. QED
  BY <1>3, <1>4, <1>5, Zenon DEF LastKey

LEMMA PageOfFound == Page \subseteq found
BY DEF Page

\* A page is a beginning of what was collected.
LEMMA PageIsBeginning ==
    ASSUME found \in SUBSET Read, request \in Requests,
           NEW x \in Page, NEW y \in found, y.key <= x.key
    PROVE  y \in Page
<1> DEFINE before(z) == {w \in found : w.key < z.key}
<1>1. x \in Read /\ y \in Read /\ \A w \in found : w.key \in Nat
  BY PageOfFound, NAssumption DEF Read, Keys
<1>2. x.key \in Nat /\ y.key \in Nat
  BY NAssumption, <1>1 DEF Read, Keys
<1>3. before(y) \subseteq before(x)
  BY <1>1, <1>2
<1>4. before(x) \in SUBSET Read /\ before(y) \in SUBSET Read
  OBVIOUS
<1>5. Cardinality(before(y)) <= Cardinality(before(x))
  BY <1>3, <1>4, ReadSetsFinite, FS_Subset
<1>6. Cardinality(before(y)) \in Nat /\ Cardinality(before(x)) \in Nat
  BY <1>4, ReadSetsFinite
<1>7. Cardinality(before(x)) < request.limit /\ request.limit \in Nat
  BY DEF Page, Requests
<1>8. Cardinality(before(y)) < request.limit
  BY <1>5, <1>6, <1>7
<1>9. QED
  BY <1>8 DEF Page

\* A page is empty only if nothing was collected.
LEMMA PageNotEmpty ==
    ASSUME found \in SUBSET Read, request \in Requests, found # {}
    PROVE  Page # {}
<1> DEFINE keys == {x.key : x \in found}
<1>1. keys \in SUBSET Nat /\ keys # {}
  BY NAssumption DEF Read, Keys
<1>2. PICK k \in keys : \A j \in keys : k <= j
  BY <1>1, LeastExists
<1>3. PICK x \in found : x.key = k
  BY <1>2
<1>4. \A y \in found : y.key \in Nat /\ x.key <= y.key
  BY <1>1, <1>2, <1>3
<1>5. {y \in found : y.key < x.key} = {}
  BY <1>3, <1>4
<1>6. Cardinality({y \in found : y.key < x.key}) < request.limit
  <2>1. Cardinality({y \in found : y.key < x.key}) = 0
    BY <1>5, FS_EmptySet
  <2>2. request.limit \in Nat \ {0}
    BY DEF Requests
  <2>3. QED
    BY <2>1, <2>2
<1>7. QED
  BY <1>3, <1>6 DEF Page

\* A page is all that was collected if that is no more than the limit.
LEMMA PageIsFound ==
    ASSUME found \in SUBSET Read, request \in Requests,
           ~(Cardinality(found) > request.limit)
    PROVE  Page = found
<1> SUFFICES ASSUME NEW x \in found PROVE x \in Page
  BY PageOfFound
<1> DEFINE before == {y \in found : y.key < x.key}
<1>1. x.key \in Nat
  BY NAssumption DEF Read, Keys
<1>2. before \subseteq found /\ before # found
  BY <1>1
<1>3. /\ IsFiniteSet(found) /\ Cardinality(found) \in Nat
      /\ Cardinality(before) \in Nat
  BY ReadSetsFinite
<1>4. Cardinality(before) <= Cardinality(found) /\ Cardinality(before) # Cardinality(found)
  BY <1>2, <1>3, FS_Subset
<1>5. Cardinality(before) < request.limit
  BY <1>3, <1>4 DEF Requests
<1>6. QED
  BY <1>5 DEF Page

-----------------------------------------------------------------------------
(***************************************************************************)
(* Type correctness                                                        *)
(***************************************************************************)

LEMMA NumbersOfKeys ==
    /\ N \in Nat /\ 0 \in 0 .. N /\ Keys \subseteq 0 .. N
    /\ 0 \in 0 .. MaxQueryPages /\ 0 \in 0 .. MaxWrites
BY NAssumption, LimitAssumption DEF Keys

LEMMA InitTypes == Init => TypeOK
<1> SUFFICES ASSUME Init PROVE TypeOK
  OBVIOUS
<1>1. client \in [mode : Modes, query : Queries, limit : Nat \ {0}]
  BY TraversalsAssumption DEF Init
<1>2. request \in Requests
  BY <1>1, NumbersOfKeys DEF Init, InitialRequest, Requests
<1>3. QED
  BY <1>1, <1>2, NumbersOfKeys DEF Init, TypeOK

LEMMA FollowUpIsRequest ==
    ASSUME TypeOK, NEW cursor \in 0 .. N
    PROVE  FollowUp(client, cursor) \in Requests
BY LimitAssumption DEF FollowUp, TypeOK, Requests, Queries

\* What a Query call returns are features of the table, and it ends at one or at none.
LEMMA QueryReturnsReads ==
    ASSUME TypeOK, NEW S \in SUBSET Keys
    PROVE  {[key |-> k, item |-> table[k]] : k \in S} \subseteq Read
BY DEF TypeOK, Read

LEMMA NextCursorIsKey == TypeOK => NextCursor \in 0 .. N
<1> SUFFICES ASSUME TypeOK PROVE NextCursor \in 0 .. N
  OBVIOUS
<1>1. Page \in SUBSET Read
  BY PageOfFound DEF TypeOK
<1>2. Page # {} => LastKey(Page) \in Keys
  BY <1>1, LastKeyOfPage
<1>3. QED
  BY <1>2, NumbersOfKeys DEF NextCursor

LEMMA TypesKept == TypeOK /\ [Next]_vars => TypeOK'
<1> SUFFICES ASSUME TypeOK, [Next]_vars PROVE TypeOK'
  OBVIOUS
<1>1. CASE Ask
  BY <1>1, NumbersOfKeys DEF Ask, Begin, TypeOK, Requests
<1>2. CASE Scan
  <2>1. PICK e \in 0 .. N, last \in BOOLEAN :
            /\ found' = found \cup
                  {[key |-> k, item |-> table[k]] :
                      k \in {j \in Between(start, e) : Matches(table[j], request.query)}}
            /\ more' = ~last
            /\ start' = IF last THEN start ELSE e
    BY <1>2 DEF Scan
  <2>2. {j \in Between(start, e) : Matches(table[j], request.query)} \in SUBSET Keys
    BY DEF Between, Items
  <2>3. found' \subseteq Read
    BY <2>1, <2>2, QueryReturnsReads DEF TypeOK
  <2>4. start' \in 0 .. N /\ more' \in BOOLEAN
    BY <2>1 DEF TypeOK
  <2>5. pages' \in 0 .. MaxQueryPages
    BY <1>2, LimitAssumption DEF Scan, Scanning, TypeOK
  <2>6. QED
    BY <1>2, <2>3, <2>4, <2>5 DEF Scan, TypeOK
<1>3. CASE EndScan
  <2>1. next' \in 0 .. N
    BY <1>3, NextCursorIsKey DEF EndScan
  <2>2. matched' \in Nat
    BY <1>3, ReadSetsFinite DEF EndScan, CollectedCount, TypeOK
  <2>3. QED
    BY <1>3, <2>1, <2>2, NumbersOfKeys DEF EndScan, TypeOK
<1>4. CASE Count
  <2>1. PICK e \in 0 .. N, last \in BOOLEAN :
            /\ matched' = matched +
                  Cardinality({j \in Between(start, e) :
                                  ServerMatches(table[j], request.query)})
            /\ more' = ~last
            /\ start' = IF last THEN start ELSE e
    BY <1>4 DEF Count
  <2>2. {j \in Between(start, e) : ServerMatches(table[j], request.query)} \in SUBSET Keys
    BY DEF Between, Items
  <2>3. matched' \in Nat
    BY <2>1, <2>2, KeySetsFinite DEF TypeOK
  <2>4. start' \in 0 .. N /\ more' \in BOOLEAN
    BY <2>1 DEF TypeOK
  <2>5. pages' \in 0 .. MaxQueryPages
    BY <1>4, LimitAssumption DEF Count, Counting, TypeOK
  <2>6. QED
    BY <1>4, <2>3, <2>4, <2>5 DEF Count, TypeOK
<1>5. CASE Answer
  <2>1. got' \subseteq Read
    BY <1>5, PageOfFound DEF Answer, TypeOK
  <2>2. CASE phase' = "done" /\ UNCHANGED <<request, start, more, pages, found, since>>
    BY <1>5, <2>1, <2>2 DEF Answer, TypeOK
  <2>3. CASE Begin(FollowUp(client, next))
    <3>1. FollowUp(client, next) \in Requests
      BY FollowUpIsRequest DEF TypeOK
    <3>2. request' \in Requests /\ start' \in 0 .. N
      BY <2>3, <3>1 DEF Begin, Requests
    <3>3. QED
      BY <1>5, <2>1, <2>3, <3>2, NumbersOfKeys DEF Answer, Begin, TypeOK
  <2>4. QED
    BY <1>5, <2>2, <2>3 DEF Answer
<1>6. ASSUME NEW k \in Keys, Write(k) PROVE TypeOK'
  <2>1. PICK item \in Contents : table' = [table EXCEPT ![k] = item]
    BY <1>6 DEF Write
  <2>2. table' \in [Keys -> Contents] /\ steady' \subseteq Keys
    BY <1>6, <2>1 DEF Write, TypeOK
  <2>3. writes' \in 0 .. MaxWrites
    BY <1>6, LimitAssumption DEF Write, TypeOK
  <2>4. QED
    BY <1>6, <2>2, <2>3 DEF Write, reader, TypeOK
<1>7. CASE UNCHANGED vars
  BY <1>7 DEF vars, reader, TypeOK
<1>8. QED
  BY <1>1, <1>2, <1>3, <1>4, <1>5, <1>6, <1>7 DEF Next

\* Every value is of its type, whatever is written and however often a client asks.
THEOREM PagingTypeCorrect == Spec => []TypeOK
BY InitTypes, TypesKept, PTL DEF Spec

-----------------------------------------------------------------------------
(***************************************************************************)
(* What a client receives                                                  *)
(***************************************************************************)

LEMMA PageStays == UNCHANGED <<found, request>> => Page' = Page
BY DEF Page

LEMMA ReadKeys == TypeOK =>
    /\ \A x \in got : x.key \in Keys
    /\ \A x \in found : x.key \in Keys
    /\ \A x \in Page : x.key \in Keys
BY PageOfFound DEF TypeOK, Read

\* Whatever matches a query matches the query for everything.
LEMMA AllMatchesMore ==
    ASSUME RequestCovers, NEW item, Matches(item, client.query)
    PROVE  Matches(item, request.query)
BY DEF RequestCovers, Matches, ServerMatches, Visible

LEMMA CoverKept == TypeOK /\ RequestCovers /\ [Next]_vars => RequestCovers'
<1> SUFFICES ASSUME TypeOK, RequestCovers, [Next]_vars PROVE RequestCovers'
  OBVIOUS
<1>1. CASE Answer
  <2>1. client' = client
    BY <1>1 DEF Answer
  <2>2. CASE request' = request
    BY <2>1, <2>2 DEF RequestCovers
  <2>3. CASE request' = FollowUp(client, next)
    BY <2>1, <2>3 DEF FollowUp, RequestCovers
  <2>4. QED
    BY <1>1, <2>2, <2>3 DEF Answer, Begin
<1>2. CASE Ask \/ Scan \/ EndScan \/ Count \/ (\E k \in Keys : Write(k)) \/ UNCHANGED vars
  BY <1>2 DEF Ask, Begin, Scan, EndScan, Count, Write, vars, reader, RequestCovers
<1>3. QED
  BY <1>1, <1>2 DEF Next

LEMMA CursorKept == TypeOK /\ CursorInOrder /\ [Next]_vars => CursorInOrder'
<1> SUFFICES ASSUME TypeOK, CursorInOrder, [Next]_vars PROVE CursorInOrder'
  OBVIOUS
<1> USE ReadKeys, NumbersOfKeys
<1>1. CASE Ask
  BY <1>1 DEF Ask, Begin, CursorInOrder, InRequest, TypeOK, Requests
<1>2. CASE Scan
  <2>1. PICK e \in 0 .. N, last \in BOOLEAN :
            /\ Evaluates(start, e, last)
            /\ found' = found \cup
                  {[key |-> k, item |-> table[k]] :
                      k \in {j \in Between(start, e) : Matches(table[j], request.query)}}
            /\ more' = ~last
            /\ start' = IF last THEN start ELSE e
    BY <1>2 DEF Scan
  <2>2. /\ phase = "scan" /\ phase' = "scan" /\ more
        /\ UNCHANGED <<got, request, next>>
    BY <1>2 DEF Scan, Scanning
  <2>3. start \in Nat /\ e \in Nat /\ request.cursor \in Nat
    BY DEF TypeOK, Requests
  <2>4. ~last => start < e
    BY <2>1 DEF Evaluates
  <2>5. request.cursor <= start /\ \A x \in found : request.cursor < x.key /\ x.key <= start
    BY <2>2 DEF CursorInOrder, InRequest
  <2>6. \A x \in found' : x \in found \/ (x.key \in Keys /\ start < x.key /\ x.key <= e)
    BY <2>1 DEF Between, Items
  <2>7. \A x \in found' : request.cursor < x.key /\ (more' => x.key <= start')
    <3>1. more' = ~last /\ start' = IF last THEN start ELSE e
      BY <2>1
    <3>2. ASSUME NEW x \in found' PROVE request.cursor < x.key /\ (~last => x.key <= e)
      <4>1. CASE x \in found
        <5>1. x.key \in Nat /\ request.cursor < x.key /\ x.key <= start
          BY <2>5, <4>1 DEF Keys
        <5>2. QED
          BY <2>3, <2>4, <5>1
      <4>2. CASE x.key \in Keys /\ start < x.key /\ x.key <= e
        BY <2>3, <2>5, <4>2 DEF Keys
      <4>3. QED
        BY <2>6, <4>1, <4>2
    <3>3. QED
      BY <3>1, <3>2
  <2>8. request.cursor <= start'
    BY <2>1, <2>3, <2>4, <2>5
  <2>9. QED
    BY <2>2, <2>7, <2>8 DEF CursorInOrder, InRequest
<1>3. CASE EndScan
  <2>1. Page' = Page
    BY <1>3, PageStays DEF EndScan
  <2>2. NextCursor # 0 =>
            (\E x \in Page : x.key = NextCursor) /\ (\A x \in Page : x.key <= NextCursor)
    <3>1. Page \in SUBSET Read
      BY PageOfFound DEF TypeOK
    <3>2. QED
      BY <3>1, LastKeyOfPage DEF NextCursor
  <2>3. QED
    BY <1>3, <2>1, <2>2 DEF EndScan, CursorInOrder, InRequest
<1>4. CASE Count
  <2>1. Page' = Page
    BY <1>4, PageStays DEF Count
  <2>2. request.cursor <= start /\ start \in Nat /\ request.cursor \in Nat
    BY <1>4 DEF Count, CursorInOrder, InRequest, TypeOK, Requests
  <2>3. PICK e \in 0 .. N, last \in BOOLEAN :
            Evaluates(start, e, last) /\ start' = IF last THEN start ELSE e
    BY <1>4 DEF Count
  <2>4. request.cursor <= start'
    BY <2>2, <2>3 DEF Evaluates
  <2>5. QED
    BY <1>4, <2>1, <2>4 DEF Count, CursorInOrder, InRequest
<1>5. CASE Answer
  <2>1. phase = "count" /\ got' = got \cup Page
    BY <1>5 DEF Answer, Answering
  <2>2. CASE phase' = "done"
    BY <2>2 DEF CursorInOrder, InRequest
  <2>3. CASE next # 0 /\ Begin(FollowUp(client, next))
    <3>1. request'.cursor = next
      BY <2>3 DEF Begin, FollowUp
    <3>2. /\ phase' = "scan" /\ start' = next /\ found' = {} 
      BY <2>3 DEF Begin, FollowUp
    <3>3. PICK z \in Page : z.key = next
      BY <2>1, <2>3 DEF CursorInOrder
    <3>4. request.cursor < next
      BY <2>1, <3>3, PageOfFound DEF CursorInOrder, InRequest
    <3>5. request.cursor \in Nat /\ next \in Nat /\ \A y \in got : y.key \in Nat
      BY DEF TypeOK, Requests, Keys
    <3>6. \A y \in got : y.key <= next
      BY <2>1, <3>4, <3>5 DEF CursorInOrder
    <3>7. \A y \in got' : y.key <= next
      BY <2>1, <2>3, <3>6 DEF CursorInOrder
    <3>8. next <= next
      BY <3>5
    <3>9. QED
      BY <3>1, <3>2, <3>7, <3>8 DEF CursorInOrder, InRequest
  <2>4. QED
    BY <1>5, <2>2, <2>3 DEF Answer
<1>6. CASE (\E k \in Keys : Write(k)) \/ UNCHANGED vars
  <2>1. UNCHANGED reader
    BY <1>6 DEF Write, vars
  <2>2. Page' = Page
    BY <2>1, PageStays DEF reader
  <2>3. QED
    BY <2>1, <2>2 DEF reader, CursorInOrder, InRequest
<1>7. QED
  BY <1>1, <1>2, <1>3, <1>4, <1>5, <1>6 DEF Next

LEMMA SteadyKept == TypeOK /\ SteadyMatches /\ [Next]_vars => SteadyMatches'
<1> SUFFICES ASSUME TypeOK, SteadyMatches, [Next]_vars PROVE SteadyMatches'
  OBVIOUS
<1>1. CASE Ask
  BY <1>1 DEF Ask, SteadyMatches
<1>2. ASSUME NEW k \in Keys, Write(k) PROVE SteadyMatches'
  <2>1. PICK item \in Contents :
            /\ table' = [table EXCEPT ![k] = item]
            /\ steady' = IF Matches(item, client.query) THEN steady ELSE steady \ {k}
    BY <1>2 DEF Write
  <2>2. client' = client /\ phase' = phase
    BY <1>2 DEF Write, reader
  <2>3. ASSUME phase # "idle", NEW j \in steady' PROVE Matches(table'[j], client.query)
    <3>1. j \in steady /\ j \in Keys
      BY <2>1, <2>3 DEF TypeOK
    <3>2. CASE j = k
      <4>1. table'[j] = item
        BY <2>1, <3>1, <3>2 DEF TypeOK
      <4>2. QED
        BY <2>1, <2>3, <3>2, <4>1
    <3>3. CASE j # k
      <4>1. table'[j] = table[j]
        BY <2>1, <3>1, <3>3 DEF TypeOK
      <4>2. QED
        BY <2>3, <3>1, <4>1 DEF SteadyMatches
    <3>4. QED
      BY <3>2, <3>3
  <2>4. QED
    BY <2>2, <2>3 DEF SteadyMatches
<1>3. CASE Scan \/ EndScan \/ Count \/ Answer \/ UNCHANGED vars
  <2>1. UNCHANGED <<table, steady, client>>
    BY <1>3 DEF Scan, EndScan, Count, Answer, vars, reader
  <2>2. phase = "idle" => phase' = "idle"
    BY <1>3 DEF Scan, EndScan, Count, Answer, Answering, vars, reader
  <2>3. QED
    BY <2>1, <2>2 DEF SteadyMatches
<1>4. QED
  BY <1>1, <1>2, <1>3 DEF Next

\* A Query call leaves no gap: all that matches up to where it ends is collected.
LEMMA ScanSkipsNothing ==
    TypeOK /\ RequestCovers /\ CursorInOrder /\ SteadyMatches /\ NothingSkipped /\ Scan
        => NothingSkipped'
<1> SUFFICES ASSUME TypeOK, RequestCovers, CursorInOrder, SteadyMatches, NothingSkipped, Scan
             PROVE  NothingSkipped'
  OBVIOUS
<1>1. PICK e \in 0 .. N, last \in BOOLEAN :
          /\ Evaluates(start, e, last)
          /\ found' = found \cup
                {[key |-> k, item |-> table[k]] :
                    k \in {j \in Between(start, e) : Matches(table[j], request.query)}}
          /\ more' = ~last
          /\ start' = IF last THEN start ELSE e
  BY DEF Scan
<1>2. /\ phase = "scan" /\ phase' = "scan" /\ more
      /\ UNCHANGED <<got, request, steady>>
  BY DEF Scan, Scanning
<1>3. ASSUME NEW k \in steady, request.cursor < k, k <= start' \/ ~more'
      PROVE  Received(k, found')
  <2>1. k \in Keys /\ k \in Nat /\ k <= N /\ start \in Nat
    BY NAssumption DEF TypeOK, Keys
  <2>2. CASE k <= start
    <3>1. Received(k, found)
      BY <1>2, <1>3, <2>2 DEF NothingSkipped
    <3>2. QED
      BY <1>1, <3>1 DEF Received
  <2>3. CASE ~(k <= start)
    <3>1. start < k
      BY <2>1, <2>3
    <3>2. k <= e
      <4>1. CASE last
        BY <1>1, <2>1, <4>1 DEF Evaluates
      <4>2. CASE ~last
        BY <1>1, <1>3, <4>2
      <4>3. QED
        BY <4>1, <4>2
    <3>3. Matches(table[k], client.query)
      BY <1>2 DEF SteadyMatches
    <3>4. Matches(table[k], request.query)
      BY <3>3, AllMatchesMore
    <3>5. table[k] # "absent"
      BY <3>4 DEF Matches, ServerMatches, Visible
    <3>6. k \in Between(start, e)
      BY <2>1, <3>1, <3>2, <3>5 DEF Between, Items
    <3>7. [key |-> k, item |-> table[k]] \in found'
      BY <1>1, <3>4, <3>6
    <3>8. QED
      BY <3>7 DEF Received
  <2>4. QED
    BY <2>2, <2>3
<1>4. QED
  BY <1>2, <1>3 DEF NothingSkipped, Received

\* A page is trimmed from its end, and one without a cursor ends the collection.
LEMMA PageSkipsNothing ==
    TypeOK /\ CursorInOrder /\ NothingSkipped /\ EndScan => NothingSkipped'
<1> SUFFICES ASSUME TypeOK, CursorInOrder, NothingSkipped, EndScan
             PROVE  NothingSkipped'
  OBVIOUS
<1>1. /\ phase = "scan" /\ phase' = "count" /\ next' = NextCursor
      /\ capped' = (capped \/ (more /\ found = {}))
      /\ UNCHANGED <<got, request, steady, found>>
  BY DEF EndScan
<1>2. Page' = Page
  BY <1>1, PageStays
<1>3. found \in SUBSET Read /\ request \in Requests
  BY DEF TypeOK
<1>4. ASSUME NEW k \in steady, request.cursor < k, NEW x \in Page, k <= x.key
      PROVE  Received(k, Page)
  <2>1. k \in Nat /\ x.key \in Nat /\ start \in Nat
    BY ReadKeys DEF TypeOK, Keys
  <2>2. more => x.key <= start
    BY <1>1, PageOfFound DEF CursorInOrder
  <2>3. k <= start \/ ~more
    BY <1>4, <2>1, <2>2
  <2>4. PICK y \in found : y.key = k
    BY <1>1, <1>4, <2>3 DEF NothingSkipped, Received
  <2>5. y \in Page
    BY <1>3, <1>4, <2>4, PageIsBeginning
  <2>6. QED
    BY <2>4, <2>5 DEF Received
<1>5. ASSUME next' = 0, ~capped', NEW k \in steady, request.cursor < k
      PROVE  Received(k, Page)
  <2>1. Page # {} => LastKey(Page) # 0
    <3>1. Page \in SUBSET Read /\ 0 \notin Keys
      BY <1>3, PageOfFound DEF Keys
    <3>2. QED
      BY <3>1, LastKeyOfPage
  <2>2. Page = {} => found = {}
    BY <1>3, PageNotEmpty
  <2>3. ~more
    BY <1>1, <1>5, <2>1, <2>2 DEF NextCursor
  <2>4. Received(k, found)
    BY <1>1, <1>5, <2>3 DEF NothingSkipped
  <2>5. Page # {}
    BY <2>2, <2>4 DEF Received
  <2>6. ~(Cardinality(found) > request.limit)
    BY <1>1, <1>5, <2>1, <2>5 DEF NextCursor
  <2>7. Page = found
    BY <1>3, <2>6, PageIsFound
  <2>8. QED
    BY <2>4, <2>7
<1>6. \A k \in steady : k <= request.cursor => Received(k, got)
  BY <1>1 DEF NothingSkipped
<1>7. QED
  BY <1>1, <1>2, <1>4, <1>5, <1>6 DEF NothingSkipped

\* With the page, the client has all up to the next cursor.
LEMMA AnswerSkipsNothing ==
    TypeOK /\ CursorInOrder /\ NothingSkipped /\ Answer => NothingSkipped'
<1> SUFFICES ASSUME TypeOK, CursorInOrder, NothingSkipped, Answer
             PROVE  NothingSkipped'
  OBVIOUS
<1>1. phase = "count" /\ got' = got \cup Page /\ steady' = steady
  BY DEF Answer, Answering
<1>2. CASE phase' = "done"
  BY <1>2 DEF NothingSkipped
<1>3. CASE next # 0 /\ Begin(FollowUp(client, next))
  <2>1. /\ request'.cursor = next /\ phase' = "scan" /\ start' = next /\ more' = TRUE
    BY <1>3 DEF Begin, FollowUp
  <2>2. PICK z \in Page : z.key = next
    BY <1>1, <1>3 DEF CursorInOrder
  <2>3. ASSUME NEW k \in steady, k <= next PROVE Received(k, got')
    <3>1. k \in Nat /\ request.cursor \in Nat
      BY DEF TypeOK, Requests, Keys
    <3>2. CASE k <= request.cursor
      BY <1>1, <3>2 DEF NothingSkipped, Received
    <3>3. CASE request.cursor < k
      <4>1. Received(k, Page)
        BY <1>1, <2>2, <2>3, <3>3 DEF NothingSkipped
      <4>2. QED
        BY <1>1, <4>1 DEF Received
    <3>4. QED
      BY <3>1, <3>2, <3>3
  <2>4. \A k \in steady : ~(next < k /\ k <= next)
    BY DEF TypeOK, Keys
  <2>5. QED
    BY <1>1, <2>1, <2>3, <2>4 DEF NothingSkipped
<1>4. QED
  BY <1>2, <1>3 DEF Answer

LEMMA SkippedKept ==
    TypeOK /\ RequestCovers /\ CursorInOrder /\ SteadyMatches /\ NothingSkipped /\ [Next]_vars
        => NothingSkipped'
<1> SUFFICES ASSUME TypeOK, RequestCovers, CursorInOrder, SteadyMatches, NothingSkipped,
                    [Next]_vars
             PROVE  NothingSkipped'
  OBVIOUS
<1>1. CASE Ask
  <2>1. /\ phase' = "scan" /\ request'.cursor = 0 /\ start' = 0 /\ more' = TRUE
    BY <1>1 DEF Ask, Begin, CursorInOrder
  <2>2. \A k \in steady' : ~(k <= 0)
    BY <1>1 DEF Ask, Keys
  <2>3. QED
    BY <2>1, <2>2 DEF NothingSkipped
<1>2. CASE Count
  <2>1. Page' = Page
    BY <1>2, PageStays DEF Count
  <2>2. QED
    BY <1>2, <2>1 DEF Count, NothingSkipped
<1>3. CASE (\E k \in Keys : Write(k)) \/ UNCHANGED vars
  <2>1. steady' \subseteq steady /\ UNCHANGED reader
    BY <1>3 DEF Write, vars
  <2>2. Page' = Page
    BY <2>1, PageStays DEF reader
  <2>3. QED
    BY <2>1, <2>2 DEF reader, NothingSkipped
<1>4. QED
  BY <1>1, <1>2, <1>3, ScanSkipsNothing, PageSkipsNothing, AnswerSkipsNothing DEF Next

LEMMA GapsKept ==
    TypeOK /\ CursorInOrder /\ NothingSkipped /\ NoGaps /\ [Next]_vars => NoGaps'
<1> SUFFICES ASSUME TypeOK, CursorInOrder, NothingSkipped, NoGaps, [Next]_vars
             PROVE  NoGaps'
  OBVIOUS
<1>1. CASE Ask
  <2>1. \A y \in got : y.key <= 0
    BY <1>1 DEF Ask, CursorInOrder
  <2>2. got' = {}
    BY <1>1, <2>1, ReadKeys DEF Ask, Keys
  <2>3. QED
    BY <2>2 DEF NoGaps
<1>2. CASE Answer
  <2>1. phase = "count" /\ got' = got \cup Page /\ steady' = steady
    BY <1>2 DEF Answer, Answering
  <2>2. ASSUME NEW k \in steady, NEW x \in got', k <= x.key
        PROVE  \E y \in got' : y.key = k
    <3>1. k \in Nat /\ request.cursor \in Nat
      BY DEF TypeOK, Requests, Keys
    <3>2. CASE x \in got
      BY <2>1, <2>2, <3>2 DEF NoGaps
    <3>3. CASE x \in Page /\ request.cursor < k
      BY <2>1, <2>2, <3>3 DEF NothingSkipped, Received
    <3>4. CASE k <= request.cursor
      BY <2>1, <3>4 DEF NothingSkipped, Received
    <3>5. QED
      BY <2>1, <3>1, <3>2, <3>3, <3>4
  <2>3. QED
    BY <2>1, <2>2 DEF NoGaps
<1>3. CASE Scan \/ EndScan \/ Count \/ (\E k \in Keys : Write(k)) \/ UNCHANGED vars
  <2>1. got' = got /\ steady' \subseteq steady
    BY <1>3 DEF Scan, EndScan, Count, Write, vars, reader
  <2>2. QED
    BY <2>1 DEF NoGaps
<1>4. QED
  BY <1>1, <1>2, <1>3 DEF Next

LEMMA CompleteKept ==
    TypeOK /\ NothingSkipped /\ CompleteUnlessCapped /\ [Next]_vars => CompleteUnlessCapped'
<1> SUFFICES ASSUME TypeOK, NothingSkipped, CompleteUnlessCapped, [Next]_vars,
                    phase' = "done", ~capped', NEW k \in steady'
             PROVE  \E x \in got' : x.key = k
  BY DEF CompleteUnlessCapped
<1>1. CASE Answer
  <2>1. /\ phase = "count" /\ next = 0 /\ ~capped
        /\ got' = got \cup Page /\ steady' = steady
    BY <1>1 DEF Answer, Answering, Begin
  <2>2. k \in Nat /\ request.cursor \in Nat
    BY <2>1 DEF TypeOK, Requests, Keys
  <2>3. CASE k <= request.cursor
    BY <2>1, <2>3 DEF NothingSkipped, Received
  <2>4. CASE request.cursor < k
    BY <2>1, <2>4 DEF NothingSkipped, Received
  <2>5. QED
    BY <2>2, <2>3, <2>4
<1>2. CASE (\E j \in Keys : Write(j)) \/ UNCHANGED vars
  <2>1. steady' \subseteq steady /\ UNCHANGED reader
    BY <1>2 DEF Write, vars
  <2>2. QED
    BY <2>1 DEF reader, CompleteUnlessCapped
<1>3. CASE Ask \/ Scan \/ EndScan \/ Count
  BY <1>3 DEF Ask, Begin, Scan, EndScan, Count
<1>4. QED
  BY <1>1, <1>2, <1>3 DEF Next

LEMMA PagingInvariant == Spec => []PagingInv
<1>1. Init => PagingInv
  <2> SUFFICES ASSUME Init PROVE PagingInv
    OBVIOUS
  <2>1. TypeOK
    BY InitTypes
  <2>2. /\ got = {} /\ phase = "idle" /\ request.query = client.query /\ request.cursor = 0
        /\ steady = {}
    BY DEF Init, InitialRequest
  <2>3. QED
    BY <2>1, <2>2 DEF PagingInv, RequestCovers, CursorInOrder, InRequest, SteadyMatches,
                      NothingSkipped, NoGaps, CompleteUnlessCapped
<1>2. PagingInv /\ [Next]_vars => PagingInv'
  BY TypesKept, CoverKept, CursorKept, SteadyKept, SkippedKept, GapsKept, CompleteKept
     DEF PagingInv
<1>3. QED
  BY <1>1, <1>2, PTL DEF Spec

\* A client that follows the cursors never receives a feature twice, nor one that lies
\* before another it has: the next cursor is the last key of the page it received.
THEOREM PagesInOrder == Spec => []NoRepetitions
<1>1. PagingInv => NoRepetitions
  <2> SUFFICES ASSUME PagingInv, phase = "count", NEW x \in Page, NEW y \in got
               PROVE  y.key < x.key
    BY DEF NoRepetitions
  <2>1. request.cursor < x.key /\ y.key <= request.cursor
    BY PageOfFound DEF PagingInv, CursorInOrder, InRequest
  <2>2. x.key \in Nat /\ y.key \in Nat /\ request.cursor \in Nat
    BY ReadKeys DEF PagingInv, TypeOK, Requests, Keys
  <2>3. QED
    BY <2>1, <2>2
<1>2. QED
  BY <1>1, PagingInvariant, PTL

\* A feature that matched all along is not missing between two the client has received,
\* however query_features filled its pages and whatever was written meanwhile.
THEOREM PagesHaveNoGaps == Spec => []NoGaps
<1>1. PagingInv => NoGaps
  BY DEF PagingInv
<1>2. QED
  BY <1>1, PagingInvariant, PTL

\* A client that is given no further cursor has all that matched all along, unless
\* _MAX_QUERY_PAGES ended a request that had found nothing.
THEOREM PagesAreComplete == Spec => []CompleteUnlessCapped
<1>1. PagingInv => CompleteUnlessCapped
  BY DEF PagingInv
<1>2. QED
  BY <1>1, PagingInvariant, PTL

-----------------------------------------------------------------------------
(***************************************************************************)
(* numberMatched                                                           *)
(***************************************************************************)

LEMMA SeenKeys == Seen \subseteq Keys
BY DEF Seen

LEMMA SeenStays == UNCHANGED <<table, request, start, more>> => Seen' = Seen
BY DEF Seen

LEMMA NothingSeenAtFirst ==
    ASSUME TypeOK', more', start' = request'.cursor
    PROVE  Seen' = {}
<1>1. request'.cursor \in Nat
  BY DEF TypeOK, Requests
<1>2. ASSUME NEW k \in Keys, request'.cursor < k, k <= start' PROVE FALSE
  BY <1>1, <1>2 DEF Keys
<1>3. QED
  BY <1>2 DEF Seen

\* A Query call adds to what was seen the matching features it evaluates, none of them
\* seen before.
LEMMA SeenGrows ==
    ASSUME TypeOK, InRequest, CursorInOrder, more, UNCHANGED <<table, request>>,
           NEW e \in 0 .. N, NEW last \in BOOLEAN, Evaluates(start, e, last),
           more' = ~last, start' = (IF last THEN start ELSE e)
    PROVE  LET B == {j \in Between(start, e) : Matches(table[j], request.query)} IN
           Seen' = Seen \cup B /\ Seen \cap B = {}
<1> DEFINE B == {j \in Between(start, e) : Matches(table[j], request.query)}
<1>1. /\ start \in Nat /\ e \in Nat /\ request.cursor \in Nat /\ N \in Nat
      /\ request.cursor <= start
  BY NAssumption DEF TypeOK, Requests, CursorInOrder
<1>2. (last => e = N) /\ (~last => start < e)
  BY DEF Evaluates
<1>3. ASSUME NEW k \in Keys, Matches(table[k], request.query)
      PROVE  /\ k \in Seen' <=> k \in Seen \/ k \in B
             /\ ~(k \in Seen /\ k \in B)
  <2>1. k \in Nat /\ k <= N
    BY <1>1 DEF Keys
  <2>2. table[k] # "absent"
    BY <1>3 DEF Matches, ServerMatches, Visible
  <2>3. k \in B <=> start < k /\ k <= e
    BY <1>3, <2>2 DEF Between, Items
  <2>4. k \in Seen <=> request.cursor < k /\ k <= start
    BY <1>3 DEF Seen
  <2>5. k \in Seen' <=> request.cursor < k /\ (~last => k <= e)
    BY <1>3 DEF Seen
  <2>6. QED
    BY <1>1, <1>2, <2>1, <2>3, <2>4, <2>5
<1>4. B \subseteq {k \in Keys : Matches(table[k], request.query)}
  BY DEF Between, Items
<1>5. Seen \subseteq {k \in Keys : Matches(table[k], request.query)}
  BY DEF Seen
<1>6. Seen' \subseteq {k \in Keys : Matches(table[k], request.query)}
  BY DEF Seen
<1> HIDE DEF B
<1>7. Seen' = Seen \cup B /\ Seen \cap B = {}
  BY <1>3, <1>4, <1>5, <1>6
<1>8. QED
  BY <1>7 DEF B

LEMMA OneReadPerKey ==
    ASSUME TypeOK, NEW S \in SUBSET Keys
    PROVE  Cardinality({[key |-> k, item |-> table[k]] : k \in S}) = Cardinality(S)
<1> DEFINE reads == {[key |-> k, item |-> table[k]] : k \in S}
           f == [k \in S |-> [key |-> k, item |-> table[k]]]
<1>1. f \in Bijection(S, reads)
  <2>1. f \in [S -> reads]
    OBVIOUS
  <2>2. ASSUME NEW a \in S, NEW b \in S, f[a] = f[b] PROVE a = b
    <3>1. f[a].key = a /\ f[b].key = b
      OBVIOUS
    <3>2. QED
      BY <2>2, <3>1
  <2>3. \A x \in reads : \E k \in S : f[k] = x
    OBVIOUS
  <2> HIDE DEF f, reads
  <2>4. QED
    BY <2>1, <2>2, <2>3 DEF Bijection, Injection, IsInjective, Surjection
<1>2. ExistsBijection(S, reads)
  BY <1>1 DEF ExistsBijection
<1>3. IsFiniteSet(S)
  BY KeySetsFinite
<1>4. QED
  BY <1>2, <1>3, FS_Bijection

LEMMA CountKept ==
    TypeOK /\ CursorInOrder /\ CountsSeen /\ [Next]_vars => CountsSeen'
<1> SUFFICES ASSUME TypeOK, CursorInOrder, CountsSeen, [Next]_vars PROVE CountsSeen'
  OBVIOUS
<1>0. TypeOK'
  BY TypesKept
<1>1. CASE Ask \/ (Answer /\ Begin(FollowUp(client, next)))
  <2>1. /\ phase' = "scan" /\ found' = {} /\ since' = writes /\ writes' = writes
        /\ more' /\ start' = request'.cursor
    BY <1>1 DEF Ask, Answer, Begin
  <2>2. Seen' = {}
    BY <1>0, <2>1, NothingSeenAtFirst
  <2>3. writes \in Nat
    BY DEF TypeOK
  <2>4. found' = {[key |-> k, item |-> table'[k]] : k \in Seen'}
    BY <2>1, <2>2
  <2>5. since' <= writes'
    BY <2>1, <2>3
  <2>6. QED
    BY <2>1, <2>4, <2>5 DEF CountsSeen
<1>2. CASE Scan
  <2>1. PICK e \in 0 .. N, last \in BOOLEAN :
            /\ Evaluates(start, e, last)
            /\ found' = found \cup
                  {[key |-> k, item |-> table[k]] :
                      k \in {j \in Between(start, e) : Matches(table[j], request.query)}}
            /\ more' = ~last
            /\ start' = IF last THEN start ELSE e
    BY <1>2 DEF Scan
  <2>2. /\ phase = "scan" /\ phase' = "scan" /\ more
        /\ UNCHANGED <<table, request, writes, since>>
    BY <1>2 DEF Scan, Scanning
  <2> DEFINE B == {j \in Between(start, e) : Matches(table[j], request.query)}
  <2>3. Seen' = Seen \cup B
    BY <2>1, <2>2, SeenGrows DEF InRequest
  <2>4. found' = found \cup {[key |-> k, item |-> table[k]] : k \in B}
    BY <2>1
  <2> HIDE DEF B
  <2>5. ASSUME writes = since
        PROVE  found' = {[key |-> k, item |-> table'[k]] : k \in Seen'}
    <3>1. found = {[key |-> k, item |-> table[k]] : k \in Seen}
      BY <2>2, <2>5 DEF CountsSeen, InRequest
    <3>2. QED
      BY <2>2, <2>3, <2>4, <3>1
  <2>6. QED
    BY <2>2, <2>5 DEF CountsSeen
<1>3. CASE EndScan
  <2>1. /\ phase = "scan" /\ phase' = "count" /\ matched' = Cardinality(found)
        /\ UNCHANGED <<table, request, start, more, writes, since>>
    BY <1>3 DEF EndScan, CollectedCount
  <2>2. Seen' = Seen
    BY <2>1, SeenStays
  <2>3. ASSUME writes = since PROVE matched' = Cardinality(Seen')
    <3>1. found = {[key |-> k, item |-> table[k]] : k \in Seen}
      BY <2>1, <2>3 DEF CountsSeen, InRequest
    <3>2. QED
      BY <2>1, <2>2, <3>1, SeenKeys, OneReadPerKey
  <2>4. QED
    BY <2>1, <2>3 DEF CountsSeen
<1>4. CASE Count
  <2>1. PICK e \in 0 .. N, last \in BOOLEAN :
            /\ Evaluates(start, e, last)
            /\ matched' = matched +
                  Cardinality({j \in Between(start, e) :
                                  ServerMatches(table[j], request.query)})
            /\ more' = ~last
            /\ start' = IF last THEN start ELSE e
    BY <1>4 DEF Count
  <2>2. /\ phase = "count" /\ phase' = "count" /\ more
        /\ UNCHANGED <<table, request, writes, since>>
    BY <1>4 DEF Count, Counting
  <2> DEFINE B == {j \in Between(start, e) : Matches(table[j], request.query)}
  <2>3. Seen' = Seen \cup B /\ Seen \cap B = {}
    BY <2>1, <2>2, SeenGrows DEF InRequest
  <2>4. B \subseteq Keys
    BY DEF Between, Items
  <2>5. request.query # "bbox" => matched' = matched + Cardinality(B)
    BY <2>1 DEF Matches
  <2> HIDE DEF B
  <2>6. ASSUME writes = since, request.query # "bbox" PROVE matched' = Cardinality(Seen')
    <3>1. matched = Cardinality(Seen)
      BY <2>2, <2>6 DEF CountsSeen, InRequest
    <3>2. /\ IsFiniteSet(Seen) /\ IsFiniteSet(B)
          /\ Cardinality(Seen) \in Nat /\ Cardinality(B) \in Nat
      BY <2>4, SeenKeys, KeySetsFinite
    <3>3. Cardinality(Seen \cup B) = Cardinality(Seen) + Cardinality(B) - Cardinality({})
      BY <2>3, <3>2, FS_Union
    <3>4. Cardinality(Seen \cup B) = Cardinality(Seen) + Cardinality(B)
      BY <3>2, <3>3, FS_EmptySet
    <3>5. QED
      BY <2>3, <2>5, <2>6, <3>1, <3>4
  <2>7. QED
    BY <2>2, <2>6 DEF CountsSeen
<1>5. CASE Answer /\ phase' = "done"
             /\ UNCHANGED <<request, start, more, pages, found, since>>
  BY <1>5 DEF Answer, CountsSeen, InRequest
<1>6. CASE \E k \in Keys : Write(k)
  <2>1. writes' = writes + 1 /\ since' = since
    BY <1>6 DEF Write, reader
  <2>2. writes \in Nat /\ since \in Nat /\ since <= writes
    BY DEF TypeOK, CountsSeen
  <2>3. since' <= writes' /\ writes' # since'
    BY <2>1, <2>2
  <2>4. QED
    BY <2>3 DEF CountsSeen
<1>7. CASE UNCHANGED vars
  <2>1. Seen' = Seen
    BY <1>7, SeenStays DEF vars, reader
  <2>2. QED
    BY <1>7, <2>1 DEF vars, reader, CountsSeen, InRequest
<1>8. QED
  BY <1>1, <1>2, <1>3, <1>4, <1>5, <1>6, <1>7 DEF Next, Answer

\* If nothing is written during a request, numberMatched counts what matches from its
\* cursor on, each feature once, or less if _MAX_QUERY_PAGES ends the count: what
\* query_features collects and what it counts after that are disjoint.
THEOREM CountsRemaining == Spec => []MatchedIsRemaining
<1>1. Init => CountsSeen
  BY DEF Init, CountsSeen, InRequest
<1>2. PagingInv /\ CountsSeen /\ [Next]_vars => CountsSeen'
  BY CountKept DEF PagingInv
<1>3. PagingInv /\ CountsSeen => MatchedIsRemaining
  <2> SUFFICES ASSUME TypeOK, CountsSeen, phase = "count", writes = since,
                      request.query # "bbox",
                      NEW rest, rest = {k \in Keys : request.cursor < k
                                            /\ Matches(table[k], request.query)}
               PROVE  matched <= Cardinality(rest) /\ (~more => matched = Cardinality(rest))
    BY DEF MatchedIsRemaining, Answering, PagingInv
  <2>1. matched = Cardinality(Seen)
    BY DEF CountsSeen, InRequest
  <2>2. Seen \subseteq rest /\ (~more => Seen = rest) /\ rest \in SUBSET Keys
    BY DEF Seen
  <2>3. IsFiniteSet(rest)
    BY <2>2, KeySetsFinite
  <2>4. Cardinality(Seen) <= Cardinality(rest)
    BY <2>2, <2>3, FS_Subset
  <2>5. QED
    BY <2>1, <2>2, <2>4
<1>4. QED
  BY <1>1, <1>2, <1>3, PagingInvariant, PTL DEF Spec

-----------------------------------------------------------------------------
(***************************************************************************)
(* What links lose                                                         *)
(***************************************************************************)

LEMMA TableReads ==
    ASSUME NEW S, NEW query
    PROVE  \A x \in {[key |-> k, item |-> table[k]] :
                        k \in {j \in S : Matches(table[j], query)}} : Matches(x.item, query)
OBVIOUS

\* A client receives only what matched its query, provided that it repeats its filters
\* with every cursor, or follows the links of an answer to a query without filters:
\* the next link leaves the bbox and the property filters out.
THEOREM OnlyMatchesReceived ==
    ASSUME LinksAskForAll
    PROVE  Spec => []OnlyMatching
<1> DEFINE Inv == client \in Traversals /\ CollectsMatching /\ OnlyMatching
<1>1. Init => Inv
  BY DEF Init, InitialRequest, CollectsMatching, InRequest, OnlyMatching
<1>2. Inv /\ [Next]_vars => Inv'
  <2> SUFFICES ASSUME Inv, [Next]_vars PROVE Inv'
    OBVIOUS
  <2>1. CASE Scan
    <3>1. /\ phase = "scan" /\ phase' = "scan"
          /\ UNCHANGED <<client, request, got>>
      BY <2>1 DEF Scan
    <3>2. PICK S : found' = found \cup
                      {[key |-> k, item |-> table[k]] :
                          k \in {j \in S : Matches(table[j], request.query)}}
      BY <2>1 DEF Scan
    <3>3. \A x \in found' : Matches(x.item, client.query)
      BY <3>1, <3>2, TableReads DEF CollectsMatching, InRequest
    <3>4. QED
      BY <3>1, <3>3 DEF CollectsMatching, OnlyMatching
  <2>2. CASE Answer
    <3>1. phase = "count" /\ client' = client /\ got' = got \cup Page
      BY <2>2 DEF Answer, Answering
    <3>2. OnlyMatching'
      BY <3>1, PageOfFound DEF OnlyMatching, CollectsMatching, InRequest
    <3>3. CASE phase' = "done" /\ request' = request
      BY <3>1, <3>2, <3>3 DEF CollectsMatching, InRequest
    <3>4. CASE Begin(FollowUp(client, next))
      <4>1. request' = FollowUp(client, next) /\ found' = {}
        BY <3>4 DEF Begin
      <4>2. request'.query = client.query
        BY <4>1 DEF FollowUp, LinksAskForAll
      <4>3. QED
        BY <3>1, <3>2, <4>1, <4>2 DEF CollectsMatching
    <3>5. QED
      BY <2>2, <3>3, <3>4 DEF Answer
  <2>3. CASE Ask
    BY <2>3 DEF Ask, Begin, CollectsMatching, OnlyMatching
  <2>4. CASE EndScan \/ Count \/ (\E k \in Keys : Write(k)) \/ UNCHANGED vars
    <3>1. UNCHANGED <<client, request, found, got>>
      BY <2>4 DEF EndScan, Count, Write, vars, reader
    <3>2. InRequest' => InRequest
      BY <2>4 DEF EndScan, Count, Write, vars, reader, InRequest
    <3>3. QED
      BY <3>1, <3>2 DEF CollectsMatching, OnlyMatching
  <2>5. QED
    BY <2>1, <2>2, <2>3, <2>4 DEF Next
<1>3. QED
  BY <1>1, <1>2, PTL DEF Spec

=============================================================================
