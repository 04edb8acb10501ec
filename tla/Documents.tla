----------------------------- MODULE Documents -----------------------------
(***************************************************************************)
(* The documents of the service and what it computes from them: the merge  *)
(* of a JSON patch into the properties of a feature, the schemas that      *)
(* bodies and returned features conform to, and the envelope of a geometry.*)
(*                                                                         *)
(* A JSON node is tagged with its type.  The members of an object are a    *)
(* function from its keys to nodes; so are the properties of a feature.    *)
(* A geometry has its GeoJSON type, the sequence of the positions in it    *)
(* (pairs of longitude and latitude, rings and parts one after the other)  *)
(* and whether they can be read: a PATCH stores coordinates that are no    *)
(* arrays of numbers as readily as any others.                             *)
(***************************************************************************)
EXTENDS Naturals, Sequences, FiniteSetsExt

CONSTANTS
    Declared,       \* properties_schema of the collection: from names to types
    Required,       \* its required_properties
    GeometryTypes,  \* its geometry_type, or all six of them if it has none
    EnumLevels      \* its visibility_values, of which there may be none

ASSUME DeclaredAssumption ==
    /\ Required \subseteq DOMAIN Declared
    /\ DOMAIN Declared \cap {"organization", "visibility"} = {}

Null == [type |-> "null"]
Text(s) == [type |-> "string", value |-> s]
Object(members) == [type |-> "object", members |-> members]

IsObject(node) == node.type = "object"
IsObjectAt(members, key) == key \in DOMAIN members /\ IsObject(members[key])

-----------------------------------------------------------------------------
(***************************************************************************)
(* JSON Merge Patch                                                        *)
(***************************************************************************)

\* One level of _json_merge_patch.  Merge is its recursive call.
MergeMembers(Merge(_, _), target, patch) ==
    [key \in (DOMAIN target \cup DOMAIN patch) \ {k \in DOMAIN patch : patch[k] = Null} |->
        IF key \notin DOMAIN patch THEN target[key]
        ELSE IF IsObject(patch[key]) /\ IsObjectAt(target, key)
             THEN Object(Merge(target[key].members, patch[key].members))
             ELSE patch[key]]

\* Bound: in the properties that a patch sends, objects are nested at most two deep.
IsMembers(members, IsMember(_)) ==
    /\ members = [key \in DOMAIN members |-> members[key]]
    /\ \A key \in DOMAIN members : IsMember(members[key])

IsScalar(node) == ~IsObject(node)

IsFlat(node) ==
    IsObject(node) => node = Object(node.members) /\ IsMembers(node.members, IsScalar)

IsTwoDeep(node) ==
    IsObject(node) => node = Object(node.members) /\ IsMembers(node.members, IsFlat)

\* _json_merge_patch.
JsonMergePatchShallow(target, patch) == MergeMembers(LAMBDA u, q : q, target, patch)

JsonMergePatch(target, patch) ==
    LET Third(t, p) == MergeMembers(LAMBDA u, q : q, t, p)
        Second(t, p) == MergeMembers(Third, t, p)
    IN  MergeMembers(Second, target, patch)

\* What RFC 7396 defines: an object of the patch is merged into whatever the
\* target has there, into an empty object if that is no object.
RFCMembers(Merge(_, _), target, patch) ==
    [key \in (DOMAIN target \cup DOMAIN patch) \ {k \in DOMAIN patch : patch[k] = Null} |->
        IF key \notin DOMAIN patch THEN target[key]
        ELSE IF IsObject(patch[key])
             THEN Object(Merge(IF IsObjectAt(target, key) THEN target[key].members ELSE <<>>,
                               patch[key].members))
             ELSE patch[key]]

RFC7396(target, patch) ==
    LET Third(t, p) == RFCMembers(LAMBDA u, q : q, t, p)
        Second(t, p) == RFCMembers(Third, t, p)
    IN  RFCMembers(Second, target, patch)

\* A null somewhere below an object of the patch that finds no object to merge with.
HasNull(members) ==
    \E key \in DOMAIN members :
        \/ members[key] = Null
        \/ /\ IsObject(members[key])
           /\ \E k \in DOMAIN members[key].members : members[key].members[k] = Null

Misses(target, patch) ==
    \E key \in DOMAIN patch :
        /\ IsObject(patch[key])
        /\ ~IsObjectAt(target, key)
        /\ HasNull(patch[key].members)

NullLandsInNewObject(target, patch) ==
    \/ Misses(target, patch)
    \/ \E key \in DOMAIN patch :
        /\ IsObject(patch[key])
        /\ IsObjectAt(target, key)
        /\ Misses(target[key].members, patch[key].members)

-----------------------------------------------------------------------------
(***************************************************************************)
(* Geometries                                                              *)
(***************************************************************************)

\* _extract_all_positions knows these types; of any other it finds none.
KnownTypes == {"Point", "MultiPoint", "LineString", "MultiLineString", "Polygon",
               "MultiPolygon", "GeometryCollection"}

ExtractAllPositions(geometry) ==
    IF geometry = Null \/ geometry.type \notin KnownTypes THEN {}
    ELSE {geometry.positions[i] : i \in DOMAIN geometry.positions}

\* Taking the longitudes and latitudes of these positions raises an exception.
Unreadable(geometry) ==
    geometry # Null /\ geometry.type \in KnownTypes /\ ~geometry.readable

\* _compute_geometry_bbox: west, south, east, north.
ComputeGeometryBbox(geometry) ==
    LET lons == {p[1] : p \in ExtractAllPositions(geometry)}
        lats == {p[2] : p \in ExtractAllPositions(geometry)}
    IN  <<Min(lons), Min(lats), Max(lons), Max(lats)>>

\* The test of _filter_by_bbox.
MatchesBoxInside(geometry, box) ==
    /\ ExtractAllPositions(geometry) # {}
    /\ LET bbox == ComputeGeometryBbox(geometry) IN
       bbox[1] >= box[1] /\ bbox[3] <= box[3] /\ bbox[2] >= box[2] /\ bbox[4] <= box[4]

MatchesBox(geometry, box) ==
    /\ ExtractAllPositions(geometry) # {}
    /\ LET bbox == ComputeGeometryBbox(geometry) IN
       bbox[1] <= box[3] /\ bbox[3] >= box[1] /\ bbox[2] <= box[4] /\ bbox[4] >= box[2]

-----------------------------------------------------------------------------
(***************************************************************************)
(* Schemas                                                                 *)
(***************************************************************************)

\* The minItems and maxItems of the coordinates, over parts and rings together.
EnoughPositions(geometry) ==
    LET n == Len(geometry.positions) IN
    CASE geometry.type = "Point" -> n = 1
      [] geometry.type = "LineString" -> n >= 2
      [] geometry.type = "MultiLineString" -> n = 0 \/ n >= 2
      [] geometry.type \in {"Polygon", "MultiPolygon"} -> n = 0 \/ n >= 4
      [] OTHER -> TRUE

GeometryConforms(geometry) ==
    /\ geometry # Null
    /\ geometry.type \in GeometryTypes
    /\ geometry.readable
    /\ EnoughPositions(geometry)

\* A collection that lists no levels admits any string.
IsLevel(visibility) ==
    IF EnumLevels = {} THEN visibility.type = "string"
    ELSE \E level \in EnumLevels : visibility = Text(level)

\* The declared types and the enumeration of levels; other properties are free.
PropertiesConform(properties) ==
    /\ \A name \in DOMAIN properties \cap DOMAIN Declared :
        properties[name].type = Declared[name]
    /\ "visibility" \in DOMAIN properties => IsLevel(properties["visibility"])

\* Bodies that the schema with receivable set accepts.
ReceivableLax(body) == GeometryConforms(body.geometry) /\ PropertiesConform(body.properties)

Receivable(body) ==
    /\ GeometryConforms(body.geometry)
    /\ PropertiesConform(body.properties)
    /\ Required \subseteq DOMAIN body.properties

\* Features that the published schema, that of the answers, describes.
Returnable(feature) ==
    /\ GeometryConforms(feature.geometry)
    /\ PropertiesConform(feature.properties)
    /\ Required \cup {"organization", "visibility"} \subseteq DOMAIN feature.properties
    /\ feature.properties["organization"].type = "string"

=============================================================================
