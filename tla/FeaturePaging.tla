---------------------------- MODULE FeaturePaging ----------------------------
(***************************************************************************)
(* Paging through the features of a collection: a client that asks for one *)
(* page after the other, and query_features, which fills a page by several *)
(* DynamoDB Query calls and counts what is left by several more, while     *)
(* other requests write features.                                          *)
(*                                                                         *)
(* Features are known by their place in the order of their sort keys,      *)
(* 1 .. N.  Of a feature the model keeps what decides who sees it:         *)
(*   absent   it was not created yet                                       *)
(*   hidden   it is deleted, or not visible to the caller                  *)
(*   other    visible, but outside the bbox or not equal to the filters    *)
(*   wanted   visible, and inside or equal                                 *)
(*                                                                         *)
(* The Query calls are eventually consistent: what they read need not be   *)
(* what was written last, and the next call may be answered by a copy that *)
(* is behind the one that answered before.  The table of the model is what *)
(* a Query call reads of the features table at the moment; it changes when *)
(* a write arrives there, and when another copy answers, in any order and  *)
(* for each feature alone, be it back to what it was.                      *)
(***************************************************************************)
EXTENDS Naturals, FiniteSets

CONSTANTS
    N,              \* how many features there may be
    PageSize,       \* how many items a DynamoDB Query call evaluates at most
    MaxQueryPages,  \* _MAX_QUERY_PAGES
    DefaultLimit,   \* the page size without a limit parameter
    Traversals,     \* what clients ask for
    MaxWrites       \* bound: how often what is read of a feature changes

ASSUME NAssumption == N \in Nat
ASSUME LimitAssumption ==
    /\ PageSize \in Nat \ {0} /\ MaxQueryPages \in Nat \ {0} /\ DefaultLimit \in Nat \ {0}
    /\ MaxWrites \in Nat

Queries == {"all", "filter", "bbox"}

\* A client repeats its parameters with every cursor (get_items), or it follows
\* the next links (get_all_features).
Modes == {"parameters", "links"}

ASSUME TraversalsAssumption ==
    Traversals \subseteq [mode : Modes, query : Queries, limit : Nat \ {0}]

Keys == 1 .. N
Contents == {"absent", "hidden", "other", "wanted"}

VARIABLES
    table,      \* the partition of the collection, as a Query call reads it
    client,     \* what the client asked for
    got,        \* the features it has received, as they were read
    request,    \* the request under way: its query, limit and cursor
    phase,      \* where it is
    start,      \* exclusive_start_key: the key the next Query starts after
    more,       \* has_more_in_dynamo
    pages,      \* how many Query calls the current loop has made
    found,      \* collected
    next,       \* next_cursor: 0 for none
    matched,    \* number_matched
    writes,     \* how many changes there were
    steady,     \* auxiliary: the features that matched in every state since the client began
    since,      \* auxiliary: the changes there were when the request began
    capped      \* auxiliary: a loop gave up at the limit before it found any

reader == <<client, got, request, phase, start, more, pages, found, next, matched,
            since, capped>>
vars == <<table, writes, steady, reader>>

Read == [key : Keys, item : Contents]
Requests == [query : Queries, limit : Nat \ {0}, cursor : 0 .. N]

TypeOK ==
    /\ table \in [Keys -> Contents]
    /\ client \in [mode : Modes, query : Queries, limit : Nat \ {0}]
    /\ got \subseteq Read
    /\ request \in Requests
    /\ phase \in {"idle", "scan", "count", "done"}
    /\ start \in 0 .. N
    /\ more \in BOOLEAN
    /\ pages \in 0 .. MaxQueryPages
    /\ found \subseteq Read
    /\ next \in 0 .. N
    /\ matched \in Nat
    /\ writes \in 0 .. MaxWrites
    /\ steady \subseteq Keys
    /\ since \in 0 .. MaxWrites
    /\ capped \in BOOLEAN

-----------------------------------------------------------------------------
(***************************************************************************)
(* What a query matches                                                    *)
(***************************************************************************)

Visible(item) == item \in {"other", "wanted"}

\* The filter expression DynamoDB applies: deleted, visibility and properties.
ServerMatches(item, query) ==
    IF query = "filter" THEN item = "wanted" ELSE Visible(item)

\* The bounding box is compared in Python, after DynamoDB.
Matches(item, query) ==
    ServerMatches(item, query) /\ (query = "bbox" => item = "wanted")

Items == {k \in Keys : table[k] # "absent"}
Between(a, b) == {k \in Items : a < k /\ k <= b}

\* One Query call evaluates the items after key s, as many as fit into one page of
\* 1 MB: up to item e, which it reports, or all the rest.
Evaluates(s, e, last) ==
    /\ Cardinality(Between(s, e)) <= PageSize
    /\ IF last THEN e = N ELSE e \in Items /\ s < e

InitialRequest(c) == [query |-> c.query, limit |-> c.limit, cursor |-> 0]

\* The next link names the cursor and the organization only: the limit, the bbox
\* and the property filters of the request are not in it.
FollowUpBare(c, cursor) ==
    [query |-> "all", limit |-> DefaultLimit, cursor |-> cursor]

FollowUpStuck(c, cursor) ==
    [query |-> c.query, limit |-> c.limit, cursor |-> request.cursor]

FollowUp(c, cursor) ==
    IF c.mode = "links"
    THEN [query |-> "all", limit |-> DefaultLimit, cursor |-> cursor]
    ELSE [query |-> c.query, limit |-> c.limit, cursor |-> cursor]

-----------------------------------------------------------------------------
Init ==
    /\ table \in [Keys -> Contents]
    /\ client \in Traversals
    /\ got = {}
    /\ request = InitialRequest(client)
    /\ phase = "idle"
    /\ start = 0 /\ more = TRUE /\ pages = 0 /\ found = {}
    /\ next = 0 /\ matched = 0
    /\ writes = 0 /\ since = 0
    /\ steady = {} /\ capped = FALSE

\* query_features begins to look for the features of a page.
Begin(r) ==
    /\ request' = r
    /\ phase' = "scan"
    /\ start' = r.cursor /\ more' = TRUE /\ pages' = 0 /\ found' = {}
    /\ since' = writes

\* The client sends its first request.
Ask ==
    /\ phase = "idle"
    /\ Begin(request)
    /\ steady' = {k \in Keys : Matches(table[k], client.query)}
    /\ UNCHANGED <<table, client, got, next, matched, writes, capped>>

ScanningOn == Cardinality(found) < request.limit /\ more
Scanning == Cardinality(found) < request.limit /\ more /\ pages < MaxQueryPages

\* One turn of the loop that collects features.
Scan ==
    /\ phase = "scan" /\ Scanning
    /\ \E e \in 0 .. N, last \in BOOLEAN :
        /\ Evaluates(start, e, last)
        /\ found' = found \cup
              {[key |-> k, item |-> table[k]] :
                  k \in {j \in Between(start, e) : Matches(table[j], request.query)}}
        /\ more' = ~last
        /\ start' = IF last THEN start ELSE e
    /\ pages' = pages + 1
    /\ UNCHANGED <<table, client, got, request, phase, next, matched, writes, steady,
                   since, capped>>

\* The page that is answered: the first limit features that were collected.
Page == {x \in found : Cardinality({y \in found : y.key < x.key}) < request.limit}

FirstKey(page) == CHOOSE k \in Keys :
    /\ \E x \in page : x.key = k
    /\ \A x \in page : k <= x.key

LastKey(page) == CHOOSE k \in Keys :
    /\ \E x \in page : x.key = k
    /\ \A x \in page : x.key <= k

\* The cursor is the key of the last feature of the page, and there is one only
\* if there is such a feature.
NextCursorScanned == IF more THEN start ELSE 0
NextCursorTrimmed ==
    IF Cardinality(found) > request.limit THEN LastKey(Page) ELSE 0
NextCursor ==
    IF (more \/ Cardinality(found) > request.limit) /\ Page # {} THEN LastKey(Page) ELSE 0

\* What was collected counts as matched, also the part that is trimmed.
TrimmedCount == Cardinality(Page)
CollectedCount == Cardinality(found)

EndScan ==
    /\ phase = "scan" /\ ~Scanning
    /\ next' = NextCursor
    /\ matched' = CollectedCount
    /\ phase' = "count" /\ pages' = 0
    /\ capped' = (capped \/ (more /\ found = {}))
    /\ UNCHANGED <<table, client, got, request, start, more, found, writes, steady, since>>

Counting == more /\ pages < MaxQueryPages

\* One turn of the loop that counts the rest.
Count ==
    /\ phase = "count" /\ Counting
    /\ \E e \in 0 .. N, last \in BOOLEAN :
        /\ Evaluates(start, e, last)
        /\ matched' = matched +
              Cardinality({j \in Between(start, e) : ServerMatches(table[j], request.query)})
        /\ more' = ~last
        /\ start' = IF last THEN start ELSE e
    /\ pages' = pages + 1
    /\ UNCHANGED <<table, client, got, request, phase, found, next, writes, steady,
                   since, capped>>

Answering == phase = "count" /\ ~Counting

\* The client receives the page, and asks for the next one if there is a cursor.
Answer ==
    /\ Answering
    /\ got' = got \cup Page
    /\ \/ /\ next = 0
          /\ phase' = "done"
          /\ UNCHANGED <<request, start, more, pages, found, since>>
       \/ /\ next # 0
          /\ Begin(FollowUp(client, next))
    /\ UNCHANGED <<table, client, next, matched, writes, steady, capped>>

\* Another request created, changed or deleted a feature and the next Query call will see
\* it, or that call is answered by a copy that has not seen it yet.
Write(k) ==
    /\ writes < MaxWrites
    /\ \E item \in Contents \ {table[k]} :
        /\ table' = [table EXCEPT ![k] = item]
        /\ steady' = IF Matches(item, client.query) THEN steady ELSE steady \ {k}
    /\ writes' = writes + 1
    /\ UNCHANGED reader

Next == Ask \/ Scan \/ EndScan \/ Count \/ Answer \/ \E k \in Keys : Write(k)

\* A request that was sent is served: its loops run on.
Spec == Init /\ [][Next]_vars /\ WF_vars(Scan \/ EndScan \/ Count \/ Answer)

-----------------------------------------------------------------------------
(***************************************************************************)
(* Properties                                                              *)
(***************************************************************************)

\* No gaps: a feature that matched all along, whatever copy was read, and lies before one
\* the client has received, was received as well.
NoGaps ==
    \A k \in steady :
        (\E x \in got : k <= x.key) => \E x \in got : x.key = k

\* No repetitions: a page holds only features after all those received before,
\* whatever was written between the requests, and however copies lag behind.
NoRepetitions ==
    phase = "count" => \A x \in Page, y \in got : y.key < x.key

\* The client receives only features that matched what it asked for when they
\* were read.
OnlyMatching == \A x \in got : Matches(x.item, client.query)

\* If the Query calls of a request all read the same, numberMatched is the number of
\* features that match from its cursor on, unless counting gave up at the limit.
MatchedIsRemaining ==
    Answering /\ writes = since /\ request.query # "bbox" =>
        LET rest == {k \in Keys : request.cursor < k /\ Matches(table[k], request.query)} IN
        /\ matched <= Cardinality(rest)
        /\ ~more => matched = Cardinality(rest)

\* A client without a cursor has received every feature that matched all along,
\* unless a request gave up at the limit of Query calls with nothing found.
CompleteUnlessCapped ==
    phase = "done" /\ ~capped => \A k \in steady : \E x \in got : x.key = k

\* A traversal ends: no cursor leads back.
Ends == phase = "scan" ~> phase = "done"

=============================================================================
