--------------------------- MODULE FeatureService ---------------------------
(***************************************************************************)
(* What the features endpoints of one collection do, request by request,   *)
(* for callers of several organizations: who may write what, what ends up  *)
(* in the features table, and who gets to see it.                          *)
(*                                                                         *)
(* A request is one step: FeatureStore models the interleaving of the      *)
(* DynamoDB calls of concurrent requests, and shows that each request      *)
(* takes effect at once.  ETags are that module's subject too: a request   *)
(* with an If-Match that is not current is refused, and a refused request  *)
(* changes nothing, so only those that succeed are steps here.             *)
(***************************************************************************)
EXTENDS Authorization, Documents

CONSTANTS
    Clients,        \* the callers
    Claims,         \* the groups of each, a sequence, or None for no token
    Bodies,         \* the bodies of POST and PUT
    Patches,        \* the bodies of PATCH; a geometry is None if it has none
    Ids,            \* feature ids (UUIDs)
    Edited,         \* bound: the features that PUT and PATCH are tried on
    Boxes,          \* bounding boxes of queries: west, south, east, north
    Configurations  \* the sets of organizations that configurations list

ASSUME EditedAssumption == Edited \subseteq Ids
ASSUME BodiesAssumption == \A body \in Bodies : body.geometry # None
ASSUME PatchesAssumption == \A patch \in Patches : IsMembers(patch.properties, IsTwoDeep)
ASSUME BoxesAssumption ==
    \A box \in Boxes :
        box \in Nat \X Nat \X Nat \X Nat /\ box[1] <= box[3] /\ box[2] <= box[4]
\* Of coordinates only the order matters: they are natural numbers.
ASSUME PositionsAssumption ==
    \A b \in Bodies \cup Patches :
        b.geometry \notin {None, Null} /\ b.geometry.readable =>
            b.geometry.positions \in Seq(Nat \X Nat)
ASSUME ConfigurationsAssumption == Configurations \subseteq SUBSET Organizations
ASSUME NoneAssumption == \A S \in (SUBSET Organizations) \cup (SUBSET Ids) : None # S

VARIABLES
    features,   \* features table: by organization and id, an item or None
    config      \* config table: the organizations of the collection, or None

vars == <<features, config>>

ServerManaged == {"organization", "visibility"}

\* The geometry is that of a body or a patch.  Two members are auxiliary:
\* patched says that a PATCH ever wrote the item, foreign that anybody did who
\* is not in the group of the organization whose partition the item is in.
IsItem(item) ==
    /\ DOMAIN item = {"organization", "visibility", "geometry", "properties",
                      "deleted", "patched", "foreign"}
    /\ item.organization \in Organizations
    /\ item.geometry \in {b.geometry : b \in Bodies \cup Patches} \ {None}
    /\ DOMAIN item.properties \cap ServerManaged = {}
    /\ {item.deleted, item.patched, item.foreign} \subseteq BOOLEAN

\* The table holds items under the organization they name.  The fields the
\* server manages are never among the properties, which they would shadow in
\* answers (the pops in create_feature, replace_feature and update_feature).
TypeOK ==
    /\ DOMAIN features = Organizations
    /\ \A org \in Organizations :
        /\ DOMAIN features[org] = Ids
        /\ \A id \in Ids :
            features[org][id] # None =>
                IsItem(features[org][id]) /\ features[org][id].organization = org
    /\ config \in Configurations \cup {None}

Init ==
    /\ features = [org \in Organizations |-> [id \in Ids |-> None]]
    /\ config = None

-----------------------------------------------------------------------------
(***************************************************************************)
(* Who is asking                                                           *)
(***************************************************************************)

\* _require_auth and require_write_role.
MayWrite(client, queryOrg) ==
    /\ Claims[client] # None
    /\ ResolveStatus(Claims[client], queryOrg) = 200
    /\ ResolveAuthContext(Claims[client], queryOrg).roles \cap {"editor", "admin"} # {}

IsAdmin(client) == "admin" \in ExtractRoles(ExtractGroups(Claims[client]))

WriterOrg(client) == ExtractOrganization(ExtractGroups(Claims[client]))

\* Readers without a token and without the parameter get the organization of the
\* collection, if its configuration lists exactly one; others, an error.
DefaultOrg == IF config # None /\ \E org \in Organizations : config = {org}
              THEN CHOOSE org \in Organizations : config = {org} ELSE None

MayRead(client, queryOrg) ==
    LET status == ResolveStatus(Claims[client], queryOrg) IN
    status = 200 \/ (status = 400 /\ DefaultOrg # None)

\* The context of a reader who gets no error.
ReadContext(client, queryOrg) ==
    ResolveAuthContext(Claims[client],
        IF ResolveStatus(Claims[client], queryOrg) = 400 THEN DefaultOrg ELSE queryOrg)

-----------------------------------------------------------------------------
(***************************************************************************)
(* Items                                                                   *)
(***************************************************************************)

Found(item) == item # None /\ ~item.deleted

PropertyOr(properties, name, default) ==
    IF name \in DOMAIN properties THEN properties[name] ELSE default

\* properties.pop("visibility"), properties.pop("organization")
FreePropertiesAll(properties) == properties

FreeProperties(properties) ==
    [name \in DOMAIN properties \ ServerManaged |-> properties[name]]

\* What raises OrganizationImmutableError.
NamesForeignOrgStrictly(properties, org) == "organization" \in DOMAIN properties

NamesForeignOrg(properties, org) ==
    PropertyOr(properties, "organization", Null) \notin {Null, Text(org)}

IsForeign(client, org) == <<"org", org>> \notin ExtractGroups(Claims[client])

\* create_feature: the organization is that of the caller, whatever the body says.
CreatedTrusting(client, body) ==
    LET named == {org \in Organizations :
                     PropertyOr(body.properties, "organization", Null) = Text(org)}
        org == IF named = {} THEN WriterOrg(client) ELSE CHOOSE o \in named : TRUE
    IN  [organization |-> org,
         visibility |-> PropertyOr(body.properties, "visibility", Text("public")),
         geometry |-> body.geometry,
         properties |-> FreeProperties(body.properties),
         deleted |-> FALSE, patched |-> FALSE, foreign |-> IsForeign(client, org)]

Created(client, body) ==
    [organization |-> WriterOrg(client),
     visibility |-> PropertyOr(body.properties, "visibility", Text("public")),
     geometry |-> body.geometry,
     properties |-> FreeProperties(body.properties),
     deleted |-> FALSE, patched |-> FALSE,
     foreign |-> IsForeign(client, WriterOrg(client))]

\* replace_feature: without a visibility in the body the feature keeps its own.
Replaced(client, item, body) ==
    [item EXCEPT !.visibility = PropertyOr(body.properties, "visibility", @),
                 !.geometry = body.geometry,
                 !.properties = FreeProperties(body.properties),
                 !.foreign = @ \/ IsForeign(client, item.organization)]

\* update_feature: visibility and organization are looked for after the merge.
Updated(client, item, patch) ==
    LET merged == JsonMergePatch(item.properties, patch.properties) IN
    [item EXCEPT !.visibility = PropertyOr(merged, "visibility", @),
                 !.geometry = IF patch.geometry = None THEN @ ELSE patch.geometry,
                 !.properties = FreeProperties(merged),
                 !.patched = TRUE,
                 !.foreign = @ \/ IsForeign(client, item.organization)]

\* delete_feature
Deleted(client, item) ==
    [item EXCEPT !.deleted = TRUE, !.foreign = @ \/ IsForeign(client, item.organization)]

\* to_geojson
ToGeojson(item) ==
    [geometry |-> item.geometry,
     properties |-> [name \in DOMAIN item.properties \cup ServerManaged |->
                        CASE name = "organization" -> Text(item.organization)
                          [] name = "visibility" -> item.visibility
                          [] OTHER -> item.properties[name]]]

-----------------------------------------------------------------------------
(***************************************************************************)
(* Reads                                                                   *)
(***************************************************************************)

\* The visibility filter, of get_feature and of the Query that query_features makes.
Visible(item, context) ==
    /\ Found(item)
    /\ \E level \in context.visibilityFilter : item.visibility = Text(level)

\* GET of one feature: whether it succeeds, and what it returns, None for any error.
\* Only to find a default organization does it look at the configuration.
CanGet(client, queryOrg, id) ==
    /\ MayRead(client, queryOrg)
    /\ LET context == ReadContext(client, queryOrg) IN
       Visible(features[context.organization][id], context)

GetFeature(client, queryOrg, id) ==
    IF CanGet(client, queryOrg, id)
    THEN ToGeojson(features[ReadContext(client, queryOrg).organization][id])
    ELSE None

\* GET of the features, on one page: their ids, or None for any error.  Paging is
\* the subject of FeaturePaging.
QueryFeatures(client, queryOrg) ==
    LET context == ReadContext(client, queryOrg) IN
    IF config = None \/ ~MayRead(client, queryOrg) THEN None
    ELSE {id \in Ids : Visible(features[context.organization][id], context)}

\* The same with a bounding box.  It fails for coordinates that are no numbers.
QueryBox(client, queryOrg, box) ==
    LET found == QueryFeatures(client, queryOrg)
        geometryOf(id) == features[ReadContext(client, queryOrg).organization][id].geometry
    IN  IF found = None \/ \E id \in found : Unreadable(geometryOf(id)) THEN None
        ELSE {id \in found : MatchesBox(geometryOf(id), box)}

-----------------------------------------------------------------------------
(***************************************************************************)
(* Writes                                                                  *)
(***************************************************************************)

\* The id is a fresh UUID.
Post(client, queryOrg, id, body) ==
    /\ MayWrite(client, queryOrg)
    /\ config # None
    /\ IsAdmin(client) \/ "visibility" \notin DOMAIN body.properties
    /\ Receivable(body)
    /\ \A org \in Organizations : features[org][id] = None
    /\ features' = [features EXCEPT
                       ![Created(client, body).organization][id] = Created(client, body)]
    /\ UNCHANGED config

MayReplace(client, queryOrg, id, body) ==
    LET item == features[WriterOrg(client)][id] IN
    /\ MayWrite(client, queryOrg)
    /\ config # None
    /\ Receivable(body)
    /\ Found(item)
    /\ \/ IsAdmin(client)
       \/ PropertyOr(body.properties, "visibility", item.visibility) = item.visibility
    /\ ~NamesForeignOrg(body.properties, item.organization)

Put(client, queryOrg, id, body) ==
    /\ MayReplace(client, queryOrg, id, body)
    /\ features' = [features EXCEPT ![WriterOrg(client)][id] = Replaced(client, @, body)]
    /\ UNCHANGED config

\* The patch is not checked against any schema.
Patch(client, queryOrg, id, patch) ==
    LET org == WriterOrg(client) IN
    /\ MayWrite(client, queryOrg)
    /\ config # None
    /\ IsAdmin(client) \/ "visibility" \notin DOMAIN patch.properties
    /\ Found(features[org][id])
    /\ ~NamesForeignOrg(JsonMergePatch(features[org][id].properties, patch.properties), org)
    /\ features' = [features EXCEPT ![org][id] = Updated(client, @, patch)]
    /\ UNCHANGED config

\* DELETE does not ask for the collection.
Delete(client, queryOrg, id) ==
    /\ MayWrite(client, queryOrg)
    /\ Found(features[WriterOrg(client)][id])
    /\ features' = [features EXCEPT ![WriterOrg(client)][id] = Deleted(client, @)]
    /\ UNCHANGED config

\* put_collection and delete_collection, which operators call and no handler does.
\* Whatever else a new configuration changes, the schema stays.
PutCollection(organizations) ==
    /\ config' = organizations
    /\ UNCHANGED features

DeleteCollection ==
    /\ config # None
    /\ config' = None
    /\ UNCHANGED features

QueryOrgs == Organizations \cup {None}

Next ==
    \/ \E client \in Clients, queryOrg \in QueryOrgs, id \in Ids :
        \/ \E body \in Bodies : Post(client, queryOrg, id, body)
        \/ id \in Edited /\ \E body \in Bodies : Put(client, queryOrg, id, body)
        \/ id \in Edited /\ \E patch \in Patches : Patch(client, queryOrg, id, patch)
        \/ Delete(client, queryOrg, id)
    \/ \E organizations \in Configurations : PutCollection(organizations)
    \/ DeleteCollection

Spec == Init /\ [][Next]_vars

-----------------------------------------------------------------------------
(***************************************************************************)
(* Properties                                                              *)
(***************************************************************************)

\* The organization is a tenant boundary: through any sequence of requests, whatever
\* organization bodies and parameters name, an item is only ever written by callers in
\* the group of the organization it is stored under, and no feature is stored under two
\* (the organization that resolve_auth_context derives, create_feature, make_pk).
TenantBoundary ==
    \A org \in Organizations, id \in Ids :
        features[org][id] # None =>
            /\ ~features[org][id].foreign
            /\ \A other \in Organizations \ {org} : features[other][id] = None

\* Readers see exactly what their clearance says: in the organization of their group, or in
\* the one they name if they have no token, every feature that is not deleted and whose
\* level ranks no higher than their own, in lists and one by one.  The filter that
\* _build_visibility_filter makes, a set of levels, is as good as the rank the documentation
\* speaks of, with one exception: those in the group for restricted features alone do not
\* see the features of members.  Of readers who name no organization and have none, it says
\* that they see nothing, or what they would see by naming the only one of the collection.
ReadableIn(org, client) ==
    {id \in Ids :
        /\ Found(features[org][id])
        /\ \E level \in VisibilityLevels :
            /\ features[org][id].visibility = Text(level)
            /\ Rank(level) <= Clearance(Claims[client], org)
            /\ ~(level = "members" /\ RestrictedOnly(Claims[client], org))}

ReaderOrgs(client, queryOrg) ==
    IF Claims[client] # None
    THEN {org \in Organizations : <<"org", org>> \in ExtractGroups(Claims[client])}
    ELSE IF queryOrg # None THEN {queryOrg}
    ELSE {org \in Organizations : config = {org}}

ReadsByClearance ==
    \A client \in Clients, queryOrg \in QueryOrgs :
        LET orgs == ReaderOrgs(client, queryOrg)
            shown == {id \in Ids : CanGet(client, queryOrg, id)}
            listed == QueryFeatures(client, queryOrg)
            identified == Claims[client] # None \/ queryOrg # None
        IN  /\ shown # {} => \E org \in orgs : shown = ReadableIn(org, client)
            /\ listed # None => listed = shown
            /\ \A org \in Organizations :
                identified /\ orgs = {org} /\ queryOrg \in {None, org} =>
                    /\ shown = ReadableIn(org, client)
                    /\ config # None => listed = shown

\* "GET /items without organization param returns 400", says the acceptance test of anonymous
\* access, and README.md requires the parameter of readers without a token; another
\* acceptance test expects the same request to succeed.
AnonymousNamesOrganization ==
    \A client \in Clients :
        Claims[client] = None =>
            /\ QueryFeatures(client, None) = None
            /\ \A id \in Ids : ~CanGet(client, None, id)

\* A box query returns the features the caller may see of which some point of the envelope
\* is in the box, and those with a position in the box among them; it fails only if one of
\* the features the caller may see was patched (_filter_by_bbox, _compute_geometry_bbox).
\* Boxes do not cross the antimeridian.
EnvelopeMeets(geometry, box) ==
    /\ ExtractAllPositions(geometry) # {}
    /\ LET bbox == ComputeGeometryBbox(geometry) IN
       \E lon \in box[1]..box[3], lat \in box[2]..box[4] :
           lon \in bbox[1]..bbox[3] /\ lat \in bbox[2]..bbox[4]

PositionInside(geometry, box) ==
    \E p \in ExtractAllPositions(geometry) :
        p[1] \in box[1]..box[3] /\ p[2] \in box[2]..box[4]

BoxesFind ==
    \A client \in Clients, queryOrg \in QueryOrgs, box \in Boxes :
        LET seen == QueryFeatures(client, queryOrg)
            found == QueryBox(client, queryOrg, box)
            item(id) == features[ReadContext(client, queryOrg).organization][id]
        IN  seen # None =>
                \/ /\ found # None
                   /\ found = {id \in seen : EnvelopeMeets(item(id).geometry, box)}
                   /\ {id \in seen : PositionInside(item(id).geometry, box)} \subseteq found
                \/ found = None /\ \E id \in seen : item(id).patched

\* A writer may put back what a GET returned, as the plugin does with a feature it edits:
\* if the body is receivable at all the service accepts it, and nothing of the feature
\* changes (to_geojson adds what replace_feature takes out again).
EchoChangesNothing ==
    \A client \in Clients, id \in Ids :
        LET echo == GetFeature(client, None, id)
            item == features[WriterOrg(client)][id]
        IN  /\ config # None
            /\ MayWrite(client, None)
            /\ echo # None
            /\ Receivable(echo)
            => /\ MayReplace(client, None, id, echo)
               /\ Replaced(client, item, echo) = item

\* Every feature that readers can be sent conforms to the schema the service publishes for
\* them, unless a PATCH ever wrote it or its level is none of the collection: what POST and
\* PUT validate against the receivable schema, with the fields the server adds, satisfies
\* the returnable one.  The only such level is "public", which create_feature gives to a
\* feature without one whether the collection has it or not.
ConformsUnlessPatched ==
    \A org \in Organizations, id \in Ids :
        LET item == features[org][id] IN
        Found(item) /\ ~item.patched =>
            /\ Returnable(ToGeojson(item)) <=> IsLevel(item.visibility)
            /\ IsLevel(item.visibility) \/ item.visibility = Text("public")

\* The merge of a patch is that of RFC 7396 exactly if no null of the patch ends up in an
\* object that was not there before: _json_merge_patch keeps such nulls, which is where it
\* is not the merge of RFC 7396 that its docstring says it is.
MergeAgrees ==
    \A org \in Organizations, id \in Ids, patch \in Patches :
        features[org][id] # None =>
            LET properties == features[org][id].properties IN
            (JsonMergePatch(properties, patch.properties)
                = RFC7396(properties, patch.properties))
            <=> ~NullLandsInNewObject(properties, patch.properties)

=============================================================================
