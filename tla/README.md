# OAPIFServerless in TLA+

OAPIFServerless is an OGC API - Features service on AWS Lambda and DynamoDB,
with a QGIS plugin as its client. This directory holds TLA+ specifications of
the parts of it whose correctness depends on what happens *between* steps: TLC
checks them on small instances, TLAPS proves the central properties for every
instance. Paths below are relative to the repository.

## 1. Inventory

| Component | State | Operations | Hard behaviour | What makes it correct |
|---|---|---|---|---|
| **Write path**: `src/oapif/handlers/routes.py`, `src/oapif/dal/features.py` | features table, changes table | POST, PUT, PATCH, DELETE | concurrent invocations, stale reads, resent writes, failure between two tables, timestamps taken early | no lost update, deletion is final, every mutation is applied once and logged, the log is in commit order |
| **Queries and paging**: `query_features`, `handle_items`, `plugin/client.py` | none on the server: the cursor is the state | GET items | eventually consistent Query calls, writes between pages, pages that are trimmed, loops with a limit | no gaps, no repetitions, filters kept, the end is the end |
| **Token manager**: `plugin/auth.py` | tokens in memory, tokens in the keyring or a file, `_CallbackHandler.result` | login, load, ensure_valid_token, logout | expiry, slow and failing refreshes, a listener thread, several QGIS processes on one profile | no expired token is given out, a session survives its refreshes, a login gets what the browser brought |
| **Authorization**: `src/oapif/auth` | none | claims to organization, roles, visibility levels; field checks | groups of several organizations and levels in one token | organizations are never mixed, a set of levels works like a rank, nobody gets more than the groups in the token say |
| **Documents**: helpers of `features.py`, `schema.py`, `models/feature.py` | none | merge patch, envelopes and boxes, schemas, `to_geojson` | nested documents, values of the wrong shape that a PATCH stored, fields the server adds and takes out | it is known where patches merge otherwise than RFC 7396 says, boxes find what is in them, what is sent conforms to the published schema, an echo changes nothing |
| **Collection configuration**: `dal/collections.py`, `models/collection.py` | config table | get, list, put, delete | configurations that change between requests | the default organization is that of now |
| **Plugin configuration**: `plugin/config.py` | one JSON file, a `PluginConfig` per process | add, remove, activate, select, load, save | a crash while the file is written, several processes that each save the whole | no operation leaves a reference behind, load finds what was saved last, a save does not lose what others saved without cause |
| Landing page, conformance, OpenAPI | none | documents | none | - |
| Routing, responses | none | route table, exceptions to status codes | which exception is caught where | - |
| Infrastructure (`deploy/`), scripts, QGIS shell | - | - | - | - |

How they interact. The client (`plugin/client.py`) sends HTTP requests with an ID
token of the token manager. API Gateway starts a Lambda invocation for each;
invocations share nothing but DynamoDB, and every DynamoDB call is a point where
others may come in between. A handler resolves the authorization context, reads
the collection configuration (which no handler writes), and calls the data access
layer. The ETag of an answer comes back to the server in the If-Match header of a
later write, the cursor of a page in the next request: these two are the protocol.

## 2. Modules

| Module | What it is |
|---|---|
| `FeatureStore` | the write path, step by step |
| `FeatureRegister` | what the write path promises: an atomic read-modify-write register |
| `MCFeatureStore` | symmetry for TLC |
| `FeatureStoreProofs` | types, versions and deletions of `FeatureStore` |
| `FeatureContentProofs` | what versions hold, and the refinement of `FeatureRegister` |
| `FeatureRequestProofs` | who changes visibility, and what a refusal means |
| `FeatureLogProofs` | the change log |
| `FeaturePaging` | queries, cursors, next links, a client that pages, and what changes meanwhile |
| `MCFeaturePaging` | the traversals TLC tries |
| `FeaturePagingProofs` | theorems about `FeaturePaging` |
| `TokenManager` | the plugin's `AuthManager` and its store |
| `TokenManagerProofs` | theorems about `TokenManager` |
| `Authorization` | operators: from the groups of a caller to what it may see |
| `Documents` | operators: merge patch, schemas, geometries and boxes |
| `FeatureService` | the endpoints of one collection, request by request; composes `Authorization` and `Documents` |
| `MCFeatureService` | ten callers, four bodies, three patches and four boxes for TLC |
| `FeatureServiceProofs` | theorems about `FeatureService` |
| `PluginConfig` | the plugin's configuration in memory and on disk |
| `MCPluginConfig` | URLs and symmetry for TLC |
| `PluginConfigProofs` | theorems about `PluginConfig` |

### FeatureStore

One element of `Requests` is one Lambda invocation on one collection of one
organization, that is, one DynamoDB partition; other partitions are independent.
UUIDs never collide, so a request stands for the ETag and the feature id it draws.
Geometry and properties are abstracted to the set of requests whose edits they
hold, which is what tells a lost edit from a kept one.

| State | Code |
|---|---|
| `store`, `replica` | features table; the copy an eventually consistent `get_item` may see |
| `changes` | changes table |
| `pc`, `call`, `draft`, `stamp` | where an invocation is; its request; the `Feature` it built (for DELETE: read); its `utcnow_iso()` |
| `reply` | the status: success, refused (403, 422), not_found (404), mismatch (412), error (500 or no answer) |
| `clock`, `at` | time; auxiliary: when a mutation committed |

| Action | Code |
|---|---|
| `Create`, `Replace`, `Update`, `Delete` (via `Accept`) | the four handlers up to their first call on the features table |
| `Check` | the read and the visibility check of `handle_replace_feature` |
| `Read` | `_get_feature_or_raise` and the construction of the new item |
| `Commit`, `Reject` | the conditional write succeeds or fails; a lost answer makes the SDK send it again |
| `Log` | the put into the changes table, and the answer |
| `Fail` | a DynamoDB call raises, or Lambda ends the invocation |
| `Replicate` | DynamoDB brings a copy up to date |

`Faults` says what the environment may do: `"stale_read"`, `"lost_answer"`,
`"failure"`. A request that a handler refuses before it touches the features table
is a stuttering step.

### FeaturePaging

Features are numbers in the order of their sort keys; of each the model keeps what
decides who sees it (`absent`, `hidden`, `other`, `wanted`). `Scan` is one turn of
the loop that collects, `EndScan` trims the page and makes the cursor, `Count` is
one turn of the counting loop, `Answer` returns the page and starts the next
request: with the same parameters and the cursor (`get_features`) or with the next
link (`get_all_features`). A DynamoDB Query call evaluates at most `PageSize` items and
may stop earlier (`Evaluates`).

Neither of the two loops asks for consistent reads (`features.py:265`, 308): a call may be
answered by a copy of the partition that is behind, also behind the one that answered
before. So `table` is not the features table but what a Query call reads of it at the
moment, and `Write` is any change of that: another request's write arrives, or an older
copy answers, for each feature alone and also back to what was read before. A feature
that matched "all along" (`steady`) is one that matched in every such state.

### TokenManager

One element of `Managers` is a QGIS process with an `AuthManager`; all share one
stored token set. A token set is known by when it was issued, when the plugin
believes it was obtained, and whether it has a refresh token. `EnsureValidToken`
runs to the first request; `Issue`, `Refreshed`, `RefreshFails` are the request to
the token endpoint; `StoreTokens` follows. `StartLogin`, `Redirect`, `EndLogin` are
the login with its listener thread. `Restart` ends the process at any point. The
store starts with nothing or with tokens of an earlier session, as the tests of the
repository put them there.

### Authorization and Documents

Both hold operators only. In `Authorization` a group is a pair of prefix and name,
the claims of a request are a sequence of groups, `ResolveStatus` is the error that
`resolve_auth_context` raises (200 if none) and `ResolveAuthContext` what it returns.
`Rank` and `Clearance` say what the documentation says of it and stand apart, and
`RestrictedOnly` says for whom the code is otherwise.

The groups are those that the token names. A write has its claims from API Gateway, which
verified the token. A GET route has no authorizer: `_extract_jwt_claims` decodes the
`Authorization` header without looking at the signature (`auth/__init__.py:86-110`,
138-143). What the runs and theorems say of readers is therefore said of the groups in the
token they send; that these are the groups of the user is no part of the model, and
nothing in the code sees to it. A token that cannot be decoded counts as none.

In `Documents` a JSON node carries its type, an object is a function from keys
to nodes, and a geometry has its type, its positions in one sequence and whether they
can be read as numbers. `JsonMergePatch` and `RFC7396` are two definitions of the
merge, the code's and the standard's, each three levels of `MergeMembers` or
`RFCMembers`: properties, objects in them, objects in those.

### FeatureService

`FeatureStore` shows that every write takes effect at once; so here a request is one
step, and what counts is who asks, what the body says and what is read afterwards.

| State | Code |
|---|---|
| `features` | features table, by organization and feature id; `patched` and `foreign` in an item are auxiliary |
| `config` | config table: the organizations of the one collection, or no configuration |

| Action or operator | Code |
|---|---|
| `Post`, `Put`, `Patch`, `Delete` | the four write handlers with their authorization, validation and data access, where they succeed; a refused request changes nothing |
| `Created`, `Replaced`, `Updated`, `Deleted` | the items that `create_feature`, `replace_feature`, `update_feature` and `delete_feature` store |
| `MayWrite`, `MayReplace` | `_require_auth`, the checks before a PUT |
| `MayRead`, `ReadContext`, `CanGet` | whether a GET gets past authorization, its context with the default organization, whether it finds the feature |
| `GetFeature`, `QueryFeatures`, `QueryBox` | GET of one feature, of the list, of a bounding box: state functions, evaluated in every state for every caller |
| `PutCollection`, `DeleteCollection` | `CollectionDAL`, called by operators between requests |

### PluginConfig

| State | Code |
|---|---|
| `memory`, `pc` | the `PluginConfig` object of each QGIS process; whether it runs or is in `save_config` |
| `file` | a configuration, no file, an empty file, or text that is no JSON |
| `edits` | bound: how many edits there were |
| `saved`, `disturbed` | auxiliary: what was saved last; a save ended early or met another since the last that did not |
| `based`, `edited` | auxiliary, per process: its memory goes back to `saved`; the parts of it (a name, the active connection) it edited since |
| `unchecked` | auxiliary: the names that callers activated or selected from when there was no such connection |

`BeginSave` is the opening of the file, which empties it, `EndSave` the writing;
`Crash` may come in between and leave nothing or a part. `Load` is `load_config`;
`Add`, `Remove`, `Activate`, `Select` change the object in memory (`Edit`). Neither
`active_connection`, an attribute that callers assign, nor `set_selected_collections`
asks whether the connection exists, and tests name some that do not
(`plugin/tests/test_config.py:182-198`, 263-269); so the actions take any name, and
`unchecked` remembers it. The files are those that `save_config` writes.

## 3. Runs

| Run | Instance | Question |
|---|---|---|
| `store_faults` | 4 requests, stale reads, resent writes | `TypeOK`; `NoLostUpdate`; `EditsKept`; `LogTellsState`; `LogInCommitOrder`; `LogAppendOnly`; `DeletedIsFrozen`; `CommitsOnce`; `ImplementsRegister` |
| `store_local` | 3 requests, 2 levels, 3 roles, failures | `EditorsKeepVisibility`; `RefusalsJustified`; `CommittedIsLogged`; `VersionAdvances` |
| `store_audit` | 2 requests, failures | `AllMutationsLogged` fails |
| `store_visibility` | 3 requests, stale reads | `EditorsKeepVisibility` fails |
| `paging` | 3 features, pages of 2, 2 Query calls, 2 changes | `TypeOK`; `NoGaps`; `NoRepetitions`; `OnlyMatching`; `MatchedIsRemaining`; `CompleteUnlessCapped`; `Ends` |
| `paging_links` | 3 features, a filter, next links | `OnlyMatching` fails |
| `tokens` | 2 processes, lifetime 2, buffer 1, delay 1 | `TypeOK`; `RefreshedIsValid`; `SessionSurvives`; `CallsEnd` |
| `tokens_expiry` | 1 process | `IdTokenIsValid` fails |
| `tokens_redirect` | 1 process | `RedirectIsCaptured` fails |
| `documents` | 2 organizations, 10 callers, 2 ids | `TypeOK`; `TenantBoundary`; `ReadsByClearance`; `BoxesFind`; `EchoChangesNothing`; `ConformsUnlessPatched`; `MergeAgrees` |
| `documents_anonymous` | the same | `AnonymousNamesOrganization` fails |
| `plugin_config` | 2 processes, 2 names, 2 URLs, 1 collection, 3 edits | `TypeOK`; `DanglingWasMade`; `SavedIsReloaded`; `LossHasCause` |

**What they show.** The write path keeps its central promise under every fault
modelled: as far as the features table goes it is an atomic register
(`ImplementsRegister`), although it reads twice, possibly stale copies, and writes
with one condition. The change log orders the mutations as they took effect, but is
not complete: an invocation that fails between the two writes leaves a mutation
nobody recorded. An editor's PUT can undo an admin's change of
visibility, because the visibility is checked against one read and replaced on the
base of another. Paging has no gaps and no repetitions for a client that repeats
its parameters, but the next links lose them, and the end of a page sequence is not
the end of the collection when the loop gives up with nothing found. In the plugin,
stored tokens look new whenever they are loaded, and a login never sees the code.

Across organizations the service keeps its promise: no sequence of requests, with
whatever organization in bodies and parameters, writes or shows a feature beyond the
organization the groups in the token name, and the set of levels of a caller works like a
rank, with one exception (`RestrictedOnly`, below). Documents are sound as far as POST and PUT go; PATCH is where they break. A patch
is not checked against the schema, so that it may remove a required property, store a
level nobody can see, or coordinates that are no numbers, after which every box query
of those who see the feature fails; and a null in an object that the patch adds is
stored. `MergeAgrees` says that this last case, a POST without `tags` and then a PATCH with
`tags: {k: null, m: "y"}`, is the only difference to RFC 7396, which the docstring of
`_json_merge_patch` says it applies (`features.py:602`, against 616). The other way to break
the schema is a collection whose `visibility_values` leave out `public`: POST gives that
level to a feature without one after the body was validated (`features.py:99`).
`ConformsUnlessPatched` says that nothing else does, and the instance has such a collection.

The plugin's configuration can be lost, and the properties say when. A reference to a
connection that is not there was made by a caller who named it when it was not there,
never by removing, replacing, saving or loading (`DanglingWasMade`). `load_config` finds
what was saved last, but while a save is under way, and after one that ended early or met
another until there is one that did not (`SavedIsReloaded`): then it finds an empty
configuration without a word. And since `save_config` puts the whole configuration, a
process takes back what others saved since it loaded; one that loaded in the middle of a
save, or after one that failed, puts the empty configuration over all of it.
`LossHasCause` says that these are the only cases: otherwise a save replaces no more than
its process edited.

Some disagreements with the documentation were met on the way and have no run of their
own. Reads are eventually consistent, so a client may be answered 404 for a feature that
it just created or 412 for an ETag that is current (`store_local` checks
`RefusalsJustified` for current reads only). When the loop of `query_features` gives up
after 50 Query calls with nothing collected there is no cursor, and a client takes this
for the end ("Return all rows", `src/README.md:26`; `CompleteUnlessCapped` names the
exception). `src/README.md:176` says that who may see `restricted` features sees all
levels, but groups are looked up one by one (`auth/__init__.py:240-245`): a caller in the
`restricted` group alone, as unit tests have them (`tests/unit/test_auth.py:237-240`), does
not see `members` features. `ReadsByClearance` says that this is the only difference to the
rank, and one of the callers in the instance is such a one. Levels beyond the three, which
`visibility_values` may list, are invisible to everybody, admins included. The
parameter `datetime` is accepted and ignored, though `src/README.md:11` lists it among
the filters.

Whether a reader with no token has to name an organization is in dispute within the
repository. `src/README.md:95`, 154 and an acceptance test
(`tests/acceptance/test_access_control.py:19-22`) say that the request without one is
refused; the code answers it if the configuration lists one organization only, and another
acceptance test (`tests/acceptance/test_read_endpoints.py:346-357`) expects that, of the
same collection. Run `documents_anonymous` shows what the code does. `ReadsByClearance`
takes no side: of such a reader it says that it sees nothing, or what it would see by
naming that organization.

**Bounds.** Lost updates, merges over stale items and reordered log records need
two writers and a version they share, a chain of versions and deletion a third and a
fourth: four requests, one of which may be a POST (`Creators`), since features are
independent of each other but for the clock. `store_local` has three requests and
every role and two levels instead. No fourth request adds an interaction of levels:
a PUT is compared with one feature. In `store_faults` `"failure"` is left out since
an invocation that dies is one that takes no more steps, which every safety property
already allows for. Three features with pages of two and two Query calls per loop let
a page end in the middle of a Query, at its end, and at the limit of the loop, with
limits below and above the page. Two changes of what is read can fall between any two
calls (`MaxWrites`): enough for a feature to change and for a copy that has not seen it
to answer afterwards. The token clock stops at `MaxTime`, after two refreshes
in a row. `PageSize`, `MaxQueryPages` and `DefaultLimit` stand for 1 MB, 50 and 10.
In `documents` two organizations are enough for a boundary, two features for one to be
seen and one not; PUT and PATCH are tried on one of them (`Edited`), since no request
relates two features. The callers are no token, a token without an organization, a
viewer, one with the group of members, one with the restricted group besides and one
with that alone, an editor of a collection, an admin of each
organization and one with the groups of both. The levels of the collection are `members`
and `restricted`, so that the default level is none of them. The bodies differ in geometry, level,
organization and the presence of a required property, the patches merge, remove, and
store what no schema allows. The schema is a constant. In `plugin_config` two processes
are what an overlapping save takes, two connections what a dangling reference takes, and
one of the URLs ends in a slash; names and processes are symmetric. Three edits
(`MaxEdits`) let each process have one of its own and undo or follow one of the other;
loads, saves and crashes are not bounded.

**Fairness.** An invocation that was accepted takes its steps
(`WF_vars(Step(r))`): every DynamoDB call returns or raises, and Lambda ends the
invocation after 30 seconds (`deploy/config.py`), which is `Fail`. A request that was
sent is served (`FeaturePaging`). Every wait of the token manager has a timeout.
Clients need not send anything, replication need not be in time, processes need not
end. Deadlock is not checked where a system may rest: when every request has been
answered, nothing has to happen.

**Assumptions.** UUIDs do not collide. Clocks: between the timestamp of a write and
the timestamp of a request that names the version it wrote lie that write and a round
trip of a client; the clocks of two hosts are assumed to be closer than that. The log
properties rest on it; the others do not. A stale read returns a copy that was
current once, per item. An answer of the token endpoint arrives within `Delay`,
which is at most `Buffer`; the code has 10 seconds per socket operation and 60.

## 4. Proofs

Proved by TLAPS for any sets of requests, levels and roles and, where no other is named,
for every choice of `Faults`, from the assumptions named in `FeatureStore`:

* `TypeCorrect`: `Spec => []TypeOK`. `TypeOK` alone is not inductive; `InMemory` adds
  that an invocation under way has its call, and one about to write its item.
* `LosesNoUpdate`: `Spec => []NoLostUpdate`. The inductive invariant `VersionInv`
  says that commit times are distinct and past (`Timed`), that an invocation before its
  write has not committed (`NotYet`), that If-Match names a version there was
  (`BaseKnown`), that the stored item is the latest version and a live one has seen no
  DELETE (`Latest`), and that an item about to be written carries the invocation's ETag
  (`OwnETag`). `FirstCommit` is the step that needs `NoLostUpdate` itself: a condition
  that holds belongs to a request that has not committed, since its base would
  otherwise be older than its own version. Nothing in the argument depends on what
  reads returned.
* `DeletionIsFinal`: `Spec => DeletedIsFrozen`, and `AppliedOnce`:
  `Spec => CommitsOnce`, from the same invariant.
* `EditsSurvive`: `Spec => []EditsKept`. `ContentInv` says of every copy of a feature,
  in the table, in the replica and in the memory of an invocation, that its ETag is a
  version there was and that its body is what the chain of versions up to it gives
  (`CopiesTrue`, `EditsAt`), that copies of one version show one visibility
  (`CopiesAgree`), and that an item about to be written was built on the version
  If-Match names (`DraftsBased`). Reads may return any such copy: the argument never asks
  which.
* `RegisterImplemented`: `Spec => ImplementsRegister`. The register is the table; each
  action of `FeatureStore` is a stutter or, for `Commit`, the one operation of the
  request.
* `LogShowsState`, `LogSortsByCommit`, `LogOnlyGrows`. `LogInv` says that a timestamp
  lies between the commit of the version a mutation was applied to and its own commit
  (`StampsInOrder`, `RecordsTrue`), that nothing happens to a feature before its POST,
  and that the last invocation still to record is about to record what the table holds
  (`LoggersTrue`). Two mutations of a feature are then ordered by stamp as by commit: the
  base of the later one is not before the earlier one (`StampsOrdered`).
* `OnlyAdminsSetVisibility`: `Spec => EditorsKeepVisibility`, if `"stale_read"` is not in
  `Faults`. Run `store_visibility` shows that the hypothesis is needed. `LevelsKept`
  says that, while the version is current that an editor names, the level it was
  checked for is that of the feature.
* `RefusalsAreJustified`: `Spec => RefusalsJustified`, if neither `"stale_read"` nor
  `"lost_answer"` is in `Faults`: with a stale read a 404 or a 412 may be premature, and a
  write that is sent again is refused because of itself.
* `LogCompleteWithoutFaults`: `Spec => []AllMutationsLogged`, if neither `"failure"` nor
  `"lost_answer"` is in `Faults`. Run `store_audit` shows the property violated with
  failures, so that these faults are all that is missing from it.

For `FeaturePaging`, any number of features, any page size and any limits, any
traversals and any writers:

* `PagingTypeCorrect`, `PagesInOrder` (`NoRepetitions`), `PagesHaveNoGaps`,
  `PagesAreComplete` (`CompleteUnlessCapped`). They are inductive together
  (`PagingInv`): what was received lies up to the cursor and what was collected after it
  (`CursorInOrder`); a request asks for what the client asked for or for everything
  (`RequestCovers`); and what matched all along was received up to the cursor and
  collected from there to where the scan is (`NothingSkipped`). What Query evaluates in a
  call is arbitrary; of a page it is used only that it is a beginning of what was found
  (`PageIsBeginning`).
* `CountsRemaining`: `Spec => []MatchedIsRemaining`. While what is read does not change,
  `CountsSeen` says, `found` and then `matched` are what matches among the keys seen so
  far: the two loops count disjoint keys.
* `OnlyMatchesReceived`: `Spec => []OnlyMatching`, if clients that follow next links ask
  for everything (`LinksAskForAll`). Run `paging_links` shows that links lose the filters
  otherwise.

For `TokenManager`, any number of processes and any times with
`Delay <= Buffer < Lifetime`:

* `TokenTypes`, `RefreshedTokensAreValid` and `RefreshKeepsSession`. The invariant adds
  that a refresh under way has tokens with a refresh token, that its answer is at most
  `Delay` old, and that refreshed tokens seem obtained at most `Delay` after their issue.

For `FeatureService`, any organizations, callers, groups, bodies, patches and schema:

* `ServiceTypeCorrect` and `TenantsAreSeparate`: `TypeOK` and `TenantBoundary` are
  inductive together (`ServiceInv`). The heart is `OrganizationOfGroup`, that the
  organization derived from the groups is one of them, which needs that a set of
  positions has a least element (`LeastExists`).
* `OnlyPatchesBreakSchema`: `Spec => []ConformsUnlessPatched`, for any
  `visibility_values`, also none. `AnswerConforms` says what the server does to a body it
  accepted: it takes two fields out and puts two in; `LevelOfBody` that the level is that
  of the body, or the one the feature had, at first `public`.
* `EchoesChangeNothing`: `Spec => []EchoChangesNothing`. The invariant adds that items
  and their properties are functions (`ItemsAreFunctions`), so that equal fields make
  equal items.
* `ReadersSeeTheirClearance`: `Spec => []ReadsByClearance`, whatever groups callers are
  in. The steps are that the filter of a context admits the levels up to the rank of the
  caller, but for `RestrictedOnly` (`FilterIsClearance`),
  and that a reader who gets an answer reads one of its organizations
  (`ReadOfReaderOrg`).
* `MergesAgree`: `Spec => []MergeAgrees`. `JsonMergePatch` and `RFC7396` are compared
  level by level from the innermost: the results differ exactly if a null lands in an
  object that the properties did not have. Objects may be nested two deep in a patch
  (`PatchesAssumption`, the bound of `Documents`); the properties are arbitrary. The code
  recurses to any depth, which would be an induction over data.
* `BoxQueriesFind`: `Spec => []BoxesFind`. Envelopes are those of finite sequences of
  positions in `Nat \X Nat`, which have a least and a greatest coordinate (`MinAndMax`);
  the test the code makes is that two intervals meet in both directions
  (`IntervalsMeet`). The invariant `ReadableUnlessPatched` says that only a PATCH stores
  coordinates that cannot be read. Coordinates are natural numbers: of numbers the
  argument uses the order only.

For `PluginConfig`, any number of processes, names, URLs, collections and edits:

* `PluginTypeCorrect` and `DanglingReferencesWereMade` (`DanglingWasMade`), inductive
  together (`PluginInv`). A lemma for each operation says what it makes of a configuration
  (`Becomes`): names stay unique, no reference dangles that did not and was not named, and
  only the parts given are others (`AddFits`, `RemoveFits`, ...); `StepCases` then has one
  case for all edits.
* `SavedConfigIsReloaded` (`SavedIsReloaded`). `FileInv` adds that two saves at once are a
  disturbance, and so is a file with something in it while a save is under way; it takes
  `FromDictFits`, that reading back what was written changes slashes only.
* `LossesHaveCauses`: `Spec => LossHasCause`. `BasedInv` says that a memory that goes back
  to what was saved last differs from it in what its process edited at most; a load that is
  not disturbed makes it true by `SavedIsReloaded`.

Only model-checked is what needs fairness, which is out of the prover's reach:
`CommittedIsLogged`, `VersionAdvances`, `Ends` and `CallsEnd`. Every invariant, every
action property and the refinement that the passing runs check are theorems. Of the six
properties that runs refute, three are theorems under the hypotheses that these runs
break: `AllMutationsLogged`, `EditorsKeepVisibility` and `OnlyMatching`.

## 5. Not modelled

Landing page, OpenAPI and other metadata, URL and response layout, logging, CDK stacks,
scripts and the QGIS stub have no behaviour in time. The reads of the collection
configuration are left out of the write path, where it cannot change; `FeatureService`
has them in its guards. A new schema for a collection with features in it is not
modelled: the code neither migrates nor checks them. `delete_collection` checks and
deletes in two calls, which only two operators at once could tell from one. The exchange
of a code for tokens is not modelled because login never reaches it, nor a torn token
file, which `load_tokens` answers with an exception. Enumerations, formats and ranges of
single properties, property filters (they compare text), the datetime parameter and boxes across the antimeridian are left out.

## 6. Plan

1. `FeatureStore`, `FeatureRegister`, `FeaturePaging`, `TokenManager`, their runs and
   proofs (done).
2. `Authorization`, `Documents`, `FeatureService`, `PluginConfig`, their runs and proofs
   (done).
3. Proofs of the other invariants and action properties, of the refinement of
   `FeatureRegister` and of paging (done).
4. What is left: a configuration whose schema changes under stored features, and the
   hazards that `PROJECT.json` lists with a note instead of a property. Liveness stays
   with TLC.
