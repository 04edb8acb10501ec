------------------------ MODULE FeatureServiceProofs ------------------------
(***************************************************************************)
(* Theorems about FeatureService, for any callers, organizations, bodies,  *)
(* patches and schema.                                                     *)
(***************************************************************************)
EXTENDS FeatureService, SequenceTheorems, FiniteSetTheorems, WellFoundedInduction, TLAPS

-----------------------------------------------------------------------------
(***************************************************************************)
(* The organization of a caller                                            *)
(***************************************************************************)

LEMMA LeastExists ==
    ASSUME NEW S \in SUBSET Nat, S # {}
    PROVE  \E i \in S : \A j \in S : i <= j
<1>1. IsWellFoundedOn(OpToRel(<, Nat), Nat)
  BY NatLessThanWellFounded
<1>2. PICK i \in S : \A j \in S : ~(<<j, i>> \in OpToRel(<, Nat))
  BY <1>1, WFMin
<1>3. \A j \in S : ~(j < i)
  BY <1>2 DEF OpToRel
<1> QED
  BY <1>3

\* The derived organization is one whose group the caller is in.
LEMMA OrganizationOfGroup ==
    ASSUME NEW groups, ExtractOrganization(groups) # None
    PROVE  /\ ExtractOrganization(groups) \in Organizations
           /\ <<"org", ExtractOrganization(groups)>> \in groups
<1> DEFINE positions == {i \in DOMAIN Alphabet : <<"org", Alphabet[i]>> \in groups}
           least == CHOOSE i \in positions : \A j \in positions : i <= j
<1>1. positions # {} /\ ExtractOrganization(groups) = Alphabet[least]
  BY DEF ExtractOrganization
<1>2. positions \subseteq Nat
  <2>1. DOMAIN Alphabet = 1 .. Len(Alphabet) /\ Len(Alphabet) \in Nat
    BY AlphabetAssumption, LenProperties
  <2>2. DOMAIN Alphabet \subseteq Nat
    BY <2>1
  <2> QED
    BY <2>2, Zenon
<1>3. \E i \in positions : \A j \in positions : i <= j
  BY <1>1, <1>2, LeastExists
<1>4. least \in positions
  BY <1>3
<1> QED
  BY <1>1, <1>4 DEF Organizations

LEMMA WriterHasOrganization ==
    ASSUME NEW client, NEW queryOrg, MayWrite(client, queryOrg)
    PROVE  /\ WriterOrg(client) \in Organizations
           /\ ~IsForeign(client, WriterOrg(client))
<1>1. ExtractOrganization(ExtractGroups(Claims[client])) # None
  BY DEF MayWrite, ResolveStatus
<1> QED
  BY <1>1, OrganizationOfGroup DEF WriterOrg, IsForeign

-----------------------------------------------------------------------------
(***************************************************************************)
(* Items                                                                   *)
(***************************************************************************)

LEMMA FreePropertiesAreFree ==
    \A properties : DOMAIN FreeProperties(properties) \cap ServerManaged = {}
BY DEF FreeProperties

LEMMA CreatedIsItem ==
    ASSUME NEW client, NEW body \in Bodies, WriterOrg(client) \in Organizations,
           ~IsForeign(client, WriterOrg(client))
    PROVE  /\ IsItem(Created(client, body))
           /\ Created(client, body).organization = WriterOrg(client)
           /\ Created(client, body).foreign = FALSE
<1> DEFINE new == Created(client, body)
<1>1. body.geometry \in {b.geometry : b \in Bodies \cup Patches} \ {None}
  BY BodiesAssumption
<1>2. /\ DOMAIN new = {"organization", "visibility", "geometry", "properties",
                       "deleted", "patched", "foreign"}
      /\ new.organization = WriterOrg(client)
      /\ new.geometry = body.geometry
      /\ new.properties = FreeProperties(body.properties)
      /\ new.deleted = FALSE
      /\ new.patched = FALSE
      /\ new.foreign = FALSE
  BY DEF Created, IsForeign
<1> HIDE DEF new
<1>3. IsItem(new)
  BY <1>1, <1>2, FreePropertiesAreFree DEF IsItem
<1> QED
  BY <1>2, <1>3 DEF new

LEMMA ReplacedIsItem ==
    ASSUME NEW client, NEW item, NEW body \in Bodies, IsItem(item), ~item.foreign,
           ~IsForeign(client, item.organization)
    PROVE  /\ IsItem(Replaced(client, item, body))
           /\ Replaced(client, item, body).organization = item.organization
           /\ Replaced(client, item, body).foreign = FALSE
<1> DEFINE new == Replaced(client, item, body)
<1>1. body.geometry \in {b.geometry : b \in Bodies \cup Patches} \ {None}
  BY BodiesAssumption
<1>2. /\ DOMAIN new = DOMAIN item
      /\ new.organization = item.organization
      /\ new.geometry = body.geometry
      /\ new.properties = FreeProperties(body.properties)
      /\ new.deleted = item.deleted
      /\ new.patched = item.patched
      /\ new.foreign = FALSE
  BY DEF Replaced, IsItem
<1> HIDE DEF new
<1>3. IsItem(new)
  BY <1>1, <1>2, FreePropertiesAreFree DEF IsItem
<1> QED
  BY <1>2, <1>3 DEF new

LEMMA UpdatedIsItem ==
    ASSUME NEW client, NEW item, NEW patch \in Patches, IsItem(item), ~item.foreign,
           ~IsForeign(client, item.organization)
    PROVE  /\ IsItem(Updated(client, item, patch))
           /\ Updated(client, item, patch).organization = item.organization
           /\ Updated(client, item, patch).foreign = FALSE
           /\ Updated(client, item, patch).patched
<1> DEFINE new == Updated(client, item, patch)
           merged == JsonMergePatch(item.properties, patch.properties)
<1>1. /\ DOMAIN new = DOMAIN item
      /\ new.organization = item.organization
      /\ new.geometry = IF patch.geometry = None THEN item.geometry ELSE patch.geometry
      /\ new.properties = FreeProperties(merged)
      /\ new.deleted = item.deleted
      /\ new.patched = TRUE
      /\ new.foreign = FALSE
  <2> HIDE DEF merged
  <2> QED
    BY DEF Updated, IsItem, merged
<1> HIDE DEF new, merged
<1>2. IsItem(new)
  BY <1>1, FreePropertiesAreFree DEF IsItem
<1> QED
  BY <1>1, <1>2 DEF new

LEMMA DeletedIsItem ==
    ASSUME NEW client, NEW item, IsItem(item), ~item.foreign,
           ~IsForeign(client, item.organization)
    PROVE  /\ IsItem(Deleted(client, item))
           /\ Deleted(client, item).organization = item.organization
           /\ Deleted(client, item).foreign = FALSE
           /\ Deleted(client, item).deleted
<1> DEFINE new == Deleted(client, item)
<1>1. /\ DOMAIN new = DOMAIN item
      /\ new.organization = item.organization
      /\ new.geometry = item.geometry
      /\ new.properties = item.properties
      /\ new.deleted = TRUE
      /\ new.patched = item.patched
      /\ new.foreign = FALSE
  BY DEF Deleted, IsItem
<1> HIDE DEF new
<1>2. IsItem(new)
  BY <1>1 DEF IsItem
<1> QED
  BY <1>1, <1>2 DEF new

-----------------------------------------------------------------------------
(***************************************************************************)
(* Types and tenants                                                       *)
(***************************************************************************)

ServiceInv == TypeOK /\ TenantBoundary

\* Writing an item in its partition keeps both, if no other partition has the id.
LEMMA StoringKeeps ==
    ASSUME ServiceInv, UNCHANGED config,
           NEW org \in Organizations, NEW id \in Ids, NEW item,
           IsItem(item), item.organization = org, ~item.foreign,
           \A other \in Organizations \ {org} : features[other][id] = None,
           features' = [features EXCEPT ![org][id] = item]
    PROVE  ServiceInv'
<1>1. DOMAIN features = Organizations /\ \A o \in Organizations : DOMAIN features[o] = Ids
  BY DEF ServiceInv, TypeOK
<1>2. \A o \in Organizations, i \in Ids :
        features'[o][i] = IF o = org /\ i = id THEN item ELSE features[o][i]
  BY <1>1
<1>3. DOMAIN features' = Organizations /\ \A o \in Organizations : DOMAIN features'[o] = Ids
  BY <1>1
<1>4. \A o \in Organizations, i \in Ids :
        features'[o][i] # None => IsItem(features'[o][i]) /\ features'[o][i].organization = o
  BY <1>2 DEF ServiceInv, TypeOK
<1>5. TypeOK'
  BY <1>3, <1>4 DEF ServiceInv, TypeOK, IsItem
<1>6. TenantBoundary'
  BY <1>2 DEF ServiceInv, TenantBoundary
<1> QED
  BY <1>5, <1>6 DEF ServiceInv

LEMMA ServiceInvInit == Init => ServiceInv
BY DEF Init, ServiceInv, TypeOK, TenantBoundary

LEMMA ServiceInvNext == ServiceInv /\ [Next]_vars => ServiceInv'
<1> SUFFICES ASSUME ServiceInv, [Next]_vars
             PROVE  ServiceInv'
  OBVIOUS
<1>1. ASSUME NEW client, NEW queryOrg, NEW id \in Ids, MayWrite(client, queryOrg),
             Found(features[WriterOrg(client)][id])
      PROVE  LET org == WriterOrg(client)
                 item == features[org][id]
             IN  /\ org \in Organizations
                 /\ IsItem(item) /\ item.organization = org /\ ~item.foreign
                 /\ ~IsForeign(client, org)
                 /\ \A other \in Organizations \ {org} : features[other][id] = None
  <2>1. WriterOrg(client) \in Organizations /\ ~IsForeign(client, WriterOrg(client))
    BY <1>1, WriterHasOrganization
  <2>2. features[WriterOrg(client)][id] # None
    BY <1>1 DEF Found
  <2> QED
    BY <2>1, <2>2 DEF ServiceInv, TypeOK, TenantBoundary
<1>2. ASSUME NEW client, NEW queryOrg, NEW id \in Ids, NEW body \in Bodies,
             Post(client, queryOrg, id, body)
      PROVE  ServiceInv'
  <2> DEFINE org == WriterOrg(client)
             new == Created(client, body)
  <2>1. org \in Organizations /\ ~IsForeign(client, org)
    BY <1>2, WriterHasOrganization DEF Post
  <2>2. IsItem(new) /\ new.organization = org /\ ~new.foreign
    BY <2>1, CreatedIsItem
  <2>3. /\ features' = [features EXCEPT ![new.organization][id] = new]
        /\ UNCHANGED config
        /\ \A other \in Organizations : features[other][id] = None
    BY <1>2 DEF Post
  <2> HIDE DEF org, new
  <2> QED
    BY <2>1, <2>2, <2>3, StoringKeeps
<1>3. ASSUME NEW client, NEW queryOrg, NEW id \in Ids, NEW body \in Bodies,
             Put(client, queryOrg, id, body)
      PROVE  ServiceInv'
  <2> DEFINE org == WriterOrg(client)
             item == features[org][id]
             new == Replaced(client, item, body)
  <2>1. MayWrite(client, queryOrg) /\ Found(item)
    BY <1>3 DEF Put, MayReplace
  <2>2. features' = [features EXCEPT ![org][id] = new] /\ UNCHANGED config
    BY <1>3 DEF Put
  <2>3. /\ org \in Organizations
        /\ IsItem(item) /\ item.organization = org /\ ~item.foreign /\ ~IsForeign(client, org)
        /\ \A other \in Organizations \ {org} : features[other][id] = None
    BY <1>1, <2>1
  <2> HIDE DEF org, item
  <2>4. IsItem(new) /\ new.organization = org /\ ~new.foreign
    BY <2>3, ReplacedIsItem
  <2> HIDE DEF new
  <2> QED
    BY <2>2, <2>3, <2>4, StoringKeeps
<1>4. ASSUME NEW client, NEW queryOrg, NEW id \in Ids, NEW patch \in Patches,
             Patch(client, queryOrg, id, patch)
      PROVE  ServiceInv'
  <2> DEFINE org == WriterOrg(client)
             item == features[org][id]
             new == Updated(client, item, patch)
  <2>1. MayWrite(client, queryOrg) /\ Found(item)
    BY <1>4 DEF Patch
  <2>2. features' = [features EXCEPT ![org][id] = new] /\ UNCHANGED config
    BY <1>4 DEF Patch
  <2>3. /\ org \in Organizations
        /\ IsItem(item) /\ item.organization = org /\ ~item.foreign /\ ~IsForeign(client, org)
        /\ \A other \in Organizations \ {org} : features[other][id] = None
    BY <1>1, <2>1
  <2> HIDE DEF org, item
  <2>4. IsItem(new) /\ new.organization = org /\ ~new.foreign
    BY <2>3, UpdatedIsItem
  <2> HIDE DEF new
  <2> QED
    BY <2>2, <2>3, <2>4, StoringKeeps
<1>5. ASSUME NEW client, NEW queryOrg, NEW id \in Ids, Delete(client, queryOrg, id)
      PROVE  ServiceInv'
  <2> DEFINE org == WriterOrg(client)
             item == features[org][id]
             new == Deleted(client, item)
  <2>1. MayWrite(client, queryOrg) /\ Found(item)
    BY <1>5 DEF Delete
  <2>2. features' = [features EXCEPT ![org][id] = new] /\ UNCHANGED config
    BY <1>5 DEF Delete
  <2>3. /\ org \in Organizations
        /\ IsItem(item) /\ item.organization = org /\ ~item.foreign /\ ~IsForeign(client, org)
        /\ \A other \in Organizations \ {org} : features[other][id] = None
    BY <1>1, <2>1
  <2> HIDE DEF org, item
  <2>4. IsItem(new) /\ new.organization = org /\ ~new.foreign
    BY <2>3, DeletedIsItem
  <2> HIDE DEF new
  <2> QED
    BY <2>2, <2>3, <2>4, StoringKeeps
<1>6. ASSUME features' = features, config' \in Configurations \cup {None}
      PROVE  ServiceInv'
  BY <1>6 DEF ServiceInv, TypeOK, IsItem, TenantBoundary
<1>7. config \in Configurations \cup {None}
  BY DEF ServiceInv, TypeOK
<1> QED
  BY <1>2, <1>3, <1>4, <1>5, <1>6, <1>7, EditedAssumption
     DEF Next, PutCollection, DeleteCollection, vars

LEMMA ServiceInvAlways == Spec => []ServiceInv
BY ServiceInvInit, ServiceInvNext, PTL DEF Spec

\* Items are stored under the organization they name, and the fields that the server
\* manages never among their properties.
THEOREM ServiceTypeCorrect == Spec => []TypeOK
<1>1. ServiceInv => TypeOK
  BY DEF ServiceInv
<1> QED
  BY <1>1, ServiceInvAlways, PTL

\* No sequence of requests writes an item of an organization on behalf of a caller who is
\* not in its group, or stores one feature under two organizations.
THEOREM TenantsAreSeparate == Spec => []TenantBoundary
<1>1. ServiceInv => TenantBoundary
  BY DEF ServiceInv
<1> QED
  BY <1>1, ServiceInvAlways, PTL

-----------------------------------------------------------------------------
(***************************************************************************)
(* Schemas                                                                 *)
(***************************************************************************)

\* An item whose geometry and properties came with a receivable body, and whose level is
\* one of the schema, is sent to readers as the returnable schema says.
LEMMA AnswerConforms ==
    ASSUME NEW item, NEW body, Receivable(body),
           item.geometry = body.geometry,
           item.properties = FreeProperties(body.properties),
           IsLevel(item.visibility)
    PROVE  Returnable(ToGeojson(item))
<1> DEFINE sent == ToGeojson(item).properties
<1>1. ToGeojson(item).geometry = body.geometry
  BY DEF ToGeojson
<1>2. /\ DOMAIN sent = DOMAIN body.properties \cup ServerManaged
      /\ sent["organization"] = Text(item.organization)
      /\ sent["visibility"] = item.visibility
      /\ \A name \in DOMAIN body.properties \ ServerManaged : sent[name] = body.properties[name]
  BY DEF ToGeojson, FreeProperties, ServerManaged
<1> HIDE DEF sent
<1>3. \A name \in DOMAIN sent \cap DOMAIN Declared : sent[name].type = Declared[name]
  BY <1>2, DeclaredAssumption DEF Receivable, PropertiesConform, ServerManaged
<1>4. PropertiesConform(sent)
  BY <1>2, <1>3 DEF PropertiesConform
<1>5. Required \cup {"organization", "visibility"} \subseteq DOMAIN sent
  BY <1>2 DEF Receivable, ServerManaged
<1>6. sent["organization"].type = "string"
  BY <1>2 DEF Text
<1> QED
  BY <1>1, <1>4, <1>5, <1>6 DEF Returnable, Receivable, sent

\* The level of a feature that conforms, and that of a body that does.
LEMMA LevelOfFeature ==
    ASSUME NEW item, Returnable(ToGeojson(item))
    PROVE  IsLevel(item.visibility)
BY DEF Returnable, PropertiesConform, ToGeojson, ServerManaged

LEMMA LevelOfBody ==
    ASSUME NEW body, Receivable(body), NEW default
    PROVE  \/ IsLevel(PropertyOr(body.properties, "visibility", default))
           \/ PropertyOr(body.properties, "visibility", default) = default
BY DEF Receivable, PropertiesConform, PropertyOr

Conforms(item) ==
    /\ Returnable(ToGeojson(item)) <=> IsLevel(item.visibility)
    /\ IsLevel(item.visibility) \/ item.visibility = Text("public")

LEMMA BodyConforms ==
    ASSUME NEW item, NEW body, Receivable(body),
           item.geometry = body.geometry,
           item.properties = FreeProperties(body.properties),
           IsLevel(item.visibility) \/ item.visibility = Text("public")
    PROVE  Conforms(item)
BY AnswerConforms, LevelOfFeature DEF Conforms

LEMMA StoringConforms ==
    ASSUME ServiceInv, ConformsUnlessPatched,
           NEW org \in Organizations, NEW id \in Ids, NEW item,
           Found(item) /\ ~item.patched => Conforms(item),
           features' = [features EXCEPT ![org][id] = item]
    PROVE  ConformsUnlessPatched'
<1>1. \A o \in Organizations, i \in Ids :
        features'[o][i] = IF o = org /\ i = id THEN item ELSE features[o][i]
  BY DEF ServiceInv, TypeOK
<1> QED
  BY <1>1 DEF ConformsUnlessPatched, Conforms

LEMMA ConformsNext ==
    ASSUME ServiceInv, ConformsUnlessPatched, [Next]_vars
    PROVE  ConformsUnlessPatched'
<1>1. ASSUME NEW client, NEW queryOrg, NEW id \in Ids, NEW body \in Bodies,
             Post(client, queryOrg, id, body)
      PROVE  ConformsUnlessPatched'
  <2> DEFINE new == Created(client, body)
  <2>1. WriterOrg(client) \in Organizations
    BY <1>1, WriterHasOrganization DEF Post
  <2>2. Receivable(body) /\ features' = [features EXCEPT ![new.organization][id] = new]
    BY <1>1 DEF Post
  <2>3. /\ new.organization = WriterOrg(client)
        /\ new.geometry = body.geometry
        /\ new.properties = FreeProperties(body.properties)
        /\ new.visibility = PropertyOr(body.properties, "visibility", Text("public"))
    BY DEF Created
  <2>4. IsLevel(new.visibility) \/ new.visibility = Text("public")
    BY <2>2, <2>3, LevelOfBody
  <2> HIDE DEF new
  <2>5. Conforms(new)
    BY <2>2, <2>3, <2>4, BodyConforms
  <2> QED
    BY <2>1, <2>2, <2>3, <2>5, StoringConforms
<1>2. ASSUME NEW client, NEW queryOrg, NEW id \in Ids, NEW body \in Bodies,
             Put(client, queryOrg, id, body)
      PROVE  ConformsUnlessPatched'
  <2> DEFINE item == features[WriterOrg(client)][id]
             new == Replaced(client, item, body)
  <2>1. WriterOrg(client) \in Organizations
    BY <1>2, WriterHasOrganization DEF Put, MayReplace
  <2>2. /\ Receivable(body) /\ Found(item)
        /\ features' = [features EXCEPT ![WriterOrg(client)][id] = new]
    BY <1>2 DEF Put, MayReplace
  <2>3. IsItem(item)
    BY <2>1, <2>2 DEF Found, ServiceInv, TypeOK
  <2>4. /\ new.geometry = body.geometry
        /\ new.properties = FreeProperties(body.properties)
        /\ new.visibility = PropertyOr(body.properties, "visibility", item.visibility)
        /\ new.patched = item.patched
    <3> HIDE DEF item
    <3> QED
      BY <2>3 DEF Replaced, IsItem
  <2>5. item.patched \/ Conforms(item)
    BY <2>1, <2>2 DEF ConformsUnlessPatched, Conforms
  <2> HIDE DEF item, new
  <2>6. ASSUME ~new.patched
        PROVE  Conforms(new)
    <3>1. IsLevel(new.visibility) \/ new.visibility = Text("public")
      BY <2>2, <2>4, <2>5, <2>6, LevelOfBody DEF Conforms
    <3> QED
      BY <2>2, <2>4, <3>1, BodyConforms
  <2> QED
    BY <2>1, <2>2, <2>6, StoringConforms
<1>3. ASSUME NEW client, NEW queryOrg, NEW id \in Ids, NEW patch \in Patches,
             Patch(client, queryOrg, id, patch)
      PROVE  ConformsUnlessPatched'
  <2> DEFINE item == features[WriterOrg(client)][id]
             new == Updated(client, item, patch)
  <2>1. WriterOrg(client) \in Organizations
    BY <1>3, WriterHasOrganization DEF Patch
  <2>2. Found(item) /\ features' = [features EXCEPT ![WriterOrg(client)][id] = new]
    BY <1>3 DEF Patch
  <2>3. IsItem(item)
    BY <2>1, <2>2 DEF Found, ServiceInv, TypeOK
  <2>4. new.patched
    <3> HIDE DEF item
    <3> QED
      BY <2>3 DEF Updated, IsItem
  <2> HIDE DEF new
  <2> QED
    BY <2>1, <2>2, <2>4, StoringConforms
<1>4. ASSUME NEW client, NEW queryOrg, NEW id \in Ids, Delete(client, queryOrg, id)
      PROVE  ConformsUnlessPatched'
  <2> DEFINE item == features[WriterOrg(client)][id]
             new == Deleted(client, item)
  <2>1. WriterOrg(client) \in Organizations
    BY <1>4, WriterHasOrganization DEF Delete
  <2>2. Found(item) /\ features' = [features EXCEPT ![WriterOrg(client)][id] = new]
    BY <1>4 DEF Delete
  <2>3. IsItem(item)
    BY <2>1, <2>2 DEF Found, ServiceInv, TypeOK
  <2>4. ~Found(new)
    <3> HIDE DEF item
    <3> QED
      BY <2>3 DEF Deleted, IsItem, Found
  <2> HIDE DEF new
  <2> QED
    BY <2>1, <2>2, <2>4, StoringConforms
<1>5. ASSUME features' = features
      PROVE  ConformsUnlessPatched'
  BY <1>5 DEF ConformsUnlessPatched
<1> QED
  BY <1>1, <1>2, <1>3, <1>4, <1>5, EditedAssumption
     DEF Next, PutCollection, DeleteCollection, vars

\* Whatever levels the collection has, a feature that readers are sent and no PATCH wrote
\* conforms to the schema for readers, but for the level "public" if that is none of them.
THEOREM OnlyPatchesBreakSchema == Spec => []ConformsUnlessPatched
<1>1. Init => ConformsUnlessPatched
  BY DEF Init, ConformsUnlessPatched, Found
<1>2. ServiceInv /\ ConformsUnlessPatched /\ [Next]_vars => ConformsUnlessPatched'
  BY ConformsNext
<1> QED
  BY <1>1, <1>2, ServiceInvAlways, PTL DEF Spec

-----------------------------------------------------------------------------
(***************************************************************************)
(* Echoes                                                                  *)
(***************************************************************************)

IsFunction(f) == f = [x \in DOMAIN f |-> f[x]]

\* Two records or functions are one if they have the same domain and values.
LEMMA SameFunction ==
    ASSUME NEW f, NEW g, IsFunction(f), IsFunction(g), DOMAIN f = DOMAIN g,
           \A x \in DOMAIN f : f[x] = g[x]
    PROVE  f = g
BY DEF IsFunction

ItemsAreFunctions ==
    \A org \in Organizations, id \in Ids :
        features[org][id] # None =>
            IsFunction(features[org][id]) /\ IsFunction(features[org][id].properties)

LEMMA FreePropertiesFunction ==
    \A properties : IsFunction(FreeProperties(properties))
BY DEF FreeProperties, IsFunction

LEMMA StoringFunctions ==
    ASSUME ServiceInv, ItemsAreFunctions,
           NEW org \in Organizations, NEW id \in Ids, NEW item,
           IsFunction(item) /\ IsFunction(item.properties),
           features' = [features EXCEPT ![org][id] = item]
    PROVE  ItemsAreFunctions'
<1>1. \A o \in Organizations, i \in Ids :
        features'[o][i] = IF o = org /\ i = id THEN item ELSE features[o][i]
  BY DEF ServiceInv, TypeOK
<1> QED
  BY <1>1 DEF ItemsAreFunctions

LEMMA FunctionsNext ==
    ASSUME ServiceInv, ItemsAreFunctions, [Next]_vars
    PROVE  ItemsAreFunctions'
<1>1. ASSUME NEW client, NEW queryOrg, NEW id \in Ids, NEW body \in Bodies,
             Post(client, queryOrg, id, body)
      PROVE  ItemsAreFunctions'
  <2> DEFINE new == Created(client, body)
  <2>1. WriterOrg(client) \in Organizations
    BY <1>1, WriterHasOrganization DEF Post
  <2>2. new.organization = WriterOrg(client) /\ IsFunction(new) /\ IsFunction(new.properties)
    BY FreePropertiesFunction DEF Created, IsFunction
  <2>3. features' = [features EXCEPT ![new.organization][id] = new]
    BY <1>1 DEF Post
  <2> HIDE DEF new
  <2> QED
    BY <2>1, <2>2, <2>3, StoringFunctions
<1>2. ASSUME NEW client, NEW queryOrg, NEW id \in Ids, NEW new,
             MayWrite(client, queryOrg), Found(features[WriterOrg(client)][id]),
             features' = [features EXCEPT ![WriterOrg(client)][id] = new],
             IsItem(features[WriterOrg(client)][id])
                 /\ IsFunction(features[WriterOrg(client)][id])
                 /\ IsFunction(features[WriterOrg(client)][id].properties)
             => IsFunction(new) /\ IsFunction(new.properties)
      PROVE  ItemsAreFunctions'
  <2>1. WriterOrg(client) \in Organizations
    BY <1>2, WriterHasOrganization
  <2>2. /\ IsItem(features[WriterOrg(client)][id])
        /\ IsFunction(features[WriterOrg(client)][id])
        /\ IsFunction(features[WriterOrg(client)][id].properties)
    BY <1>2, <2>1 DEF Found, ServiceInv, TypeOK, ItemsAreFunctions
  <2> QED
    BY <1>2, <2>1, <2>2, StoringFunctions
<1>3. ASSUME NEW client, NEW item, NEW body, IsItem(item), IsFunction(item)
      PROVE  IsFunction(Replaced(client, item, body))
                 /\ IsFunction(Replaced(client, item, body).properties)
  <2>1. Replaced(client, item, body).properties = FreeProperties(body.properties)
    BY <1>3 DEF Replaced, IsItem
  <2>2. IsFunction(Replaced(client, item, body))
    BY DEF Replaced, IsFunction
  <2> QED
    BY <2>1, <2>2, FreePropertiesFunction
<1>4. ASSUME NEW client, NEW item, NEW patch, IsItem(item), IsFunction(item)
      PROVE  IsFunction(Updated(client, item, patch))
                 /\ IsFunction(Updated(client, item, patch).properties)
  <2> DEFINE merged == JsonMergePatch(item.properties, patch.properties)
  <2> HIDE DEF merged
  <2>1. Updated(client, item, patch).properties = FreeProperties(merged)
    BY <1>4 DEF Updated, IsItem, merged
  <2>2. IsFunction(Updated(client, item, patch))
    BY DEF Updated, IsFunction, merged
  <2> QED
    BY <2>1, <2>2, FreePropertiesFunction
<1>5. ASSUME NEW client, NEW item, IsItem(item), IsFunction(item), IsFunction(item.properties)
      PROVE  IsFunction(Deleted(client, item)) /\ IsFunction(Deleted(client, item).properties)
  BY <1>5 DEF Deleted, IsFunction, IsItem
<1>6. ASSUME NEW client, NEW queryOrg, NEW id \in Ids, NEW body \in Bodies,
             Put(client, queryOrg, id, body)
      PROVE  ItemsAreFunctions'
  BY <1>2, <1>3, <1>6 DEF Put, MayReplace
<1>7. ASSUME NEW client, NEW queryOrg, NEW id \in Ids, NEW patch \in Patches,
             Patch(client, queryOrg, id, patch)
      PROVE  ItemsAreFunctions'
  BY <1>2, <1>4, <1>7 DEF Patch
<1>8. ASSUME NEW client, NEW queryOrg, NEW id \in Ids, Delete(client, queryOrg, id)
      PROVE  ItemsAreFunctions'
  BY <1>2, <1>5, <1>8 DEF Delete
<1>9. ASSUME features' = features
      PROVE  ItemsAreFunctions'
  BY <1>9 DEF ItemsAreFunctions
<1> QED
  BY <1>1, <1>6, <1>7, <1>8, <1>9, EditedAssumption
     DEF Next, PutCollection, DeleteCollection, vars

LEMMA EchoIsNoChange ==
    ASSUME ServiceInv, ItemsAreFunctions
    PROVE  EchoChangesNothing
<1> SUFFICES ASSUME NEW client \in Clients, NEW id \in Ids,
                    config # None, MayWrite(client, None),
                    GetFeature(client, None, id) # None,
                    Receivable(GetFeature(client, None, id))
             PROVE  /\ MayReplace(client, None, id, GetFeature(client, None, id))
                    /\ Replaced(client, features[WriterOrg(client)][id],
                                GetFeature(client, None, id))
                        = features[WriterOrg(client)][id]
  BY DEF EchoChangesNothing
<1> DEFINE org == WriterOrg(client)
           item == features[org][id]
           echo == GetFeature(client, None, id)
<1>1. org \in Organizations /\ ~IsForeign(client, org)
  BY WriterHasOrganization
<1>2. ReadContext(client, None) = ResolveAuthContext(Claims[client], None)
  BY DEF MayWrite, ReadContext, ResolveStatus
<1>3. ReadContext(client, None).organization = org
  BY <1>2 DEF MayWrite, ResolveAuthContext, WriterOrg
<1>4. Found(item) /\ echo = ToGeojson(item)
  BY <1>3 DEF GetFeature, CanGet, Visible
<1>5. /\ IsItem(item) /\ item.organization = org /\ ~item.foreign
      /\ IsFunction(item) /\ IsFunction(item.properties)
  BY <1>1, <1>4 DEF Found, ServiceInv, TypeOK, TenantBoundary, ItemsAreFunctions
<1>6. Receivable(echo)
  OBVIOUS
<1> HIDE DEF org, item, echo
<1>7. /\ echo.geometry = item.geometry
      /\ DOMAIN echo.properties = DOMAIN item.properties \cup ServerManaged
      /\ echo.properties["organization"] = Text(org)
      /\ echo.properties["visibility"] = item.visibility
      /\ \A name \in DOMAIN item.properties : echo.properties[name] = item.properties[name]
  BY <1>4, <1>5 DEF ToGeojson, IsItem, ServerManaged
<1>8. FreeProperties(echo.properties) = item.properties
  <2>1. DOMAIN FreeProperties(echo.properties) = DOMAIN item.properties
    BY <1>5, <1>7 DEF FreeProperties, IsItem
  <2>2. \A name \in DOMAIN item.properties :
          FreeProperties(echo.properties)[name] = item.properties[name]
    BY <1>5, <1>7 DEF FreeProperties, IsItem
  <2> QED
    BY <1>5, <2>1, <2>2, FreePropertiesFunction, SameFunction
<1>9. /\ PropertyOr(echo.properties, "visibility", item.visibility) = item.visibility
      /\ ~NamesForeignOrg(echo.properties, item.organization)
  BY <1>5, <1>7 DEF PropertyOr, NamesForeignOrg, ServerManaged
<1>10. Replaced(client, item, echo) = item
  <2> DEFINE new == Replaced(client, item, echo)
  <2>1. IsFunction(new) /\ DOMAIN new = DOMAIN item
    BY DEF Replaced, IsFunction
  <2>2. item.foreign = FALSE
    BY <1>5 DEF IsItem
  <2>3. new.foreign = FALSE
    BY <1>1, <1>5, <2>2 DEF Replaced, IsItem, IsForeign
  <2>4. /\ new.organization = item.organization
        /\ new.visibility = item.visibility
        /\ new.geometry = item.geometry
        /\ new.properties = item.properties
        /\ new.deleted = item.deleted
        /\ new.patched = item.patched
    BY <1>5, <1>7, <1>8, <1>9 DEF Replaced, IsItem
  <2> HIDE DEF new
  <2>5. \A x \in DOMAIN item : new[x] = item[x]
    BY <1>5, <2>2, <2>3, <2>4 DEF IsItem
  <2>6. new = item
    BY <1>5, <2>1, <2>5, SameFunction
  <2> QED
    BY <2>6 DEF new
<1>11. MayReplace(client, None, id, echo)
  BY <1>4, <1>6, <1>9 DEF MayReplace, item, org
<1> QED
  BY <1>10, <1>11 DEF item, org, echo

\* A writer who puts back what a GET returned is not refused and changes nothing.
THEOREM EchoesChangeNothing == Spec => []EchoChangesNothing
<1>1. Init => ItemsAreFunctions
  BY DEF Init, ItemsAreFunctions
<1>2. ServiceInv /\ ItemsAreFunctions /\ [Next]_vars => ItemsAreFunctions'
  BY FunctionsNext
<1>3. ServiceInv /\ ItemsAreFunctions => EchoChangesNothing
  BY EchoIsNoChange
<1> QED
  BY <1>1, <1>2, <1>3, ServiceInvAlways, PTL DEF Spec

-----------------------------------------------------------------------------
(***************************************************************************)
(* Readers                                                                 *)
(***************************************************************************)

\* The clearance of a caller, but for those who see restricted features and not those of
\* members.
Admits(claims, org, level) ==
    /\ Rank(level) <= Clearance(claims, org)
    /\ ~(level = "members" /\ RestrictedOnly(claims, org))

LEMMA LevelsAndRanks ==
    /\ VisibilityLevels = {"public", "members", "restricted"}
    /\ Rank("public") = 1 /\ Rank("members") = 2 /\ Rank("restricted") = 3
<1>1. DOMAIN Levels = {1, 2, 3}
  BY DEF Levels
<1>2. Levels[1] = "public" /\ Levels[2] = "members" /\ Levels[3] = "restricted"
  BY DEF Levels
<1>3. \A level : Rank(level) = CHOOSE i \in {1, 2, 3} : Levels[i] = level
  BY <1>1 DEF Rank
<1> QED
  BY <1>1, <1>2, <1>3 DEF VisibilityLevels

\* The levels that the filter holds are those that the clearance admits.
LEMMA FilterIsClearance ==
    ASSUME NEW claims, claims # None, NEW org, NEW level \in VisibilityLevels
    PROVE  level \in BuildVisibilityFilter(ExtractGroups(claims), org)
               <=> Admits(claims, org, level)
<1> DEFINE groups == ExtractGroups(claims)
           roles == ExtractRoles(groups)
           admin == "admin" \in roles
           editor == "editor" \in roles
           members == <<org, "members">> \in groups
           restricted == <<org, "restricted">> \in groups
<1>1. Clearance(claims, org) =
        IF admin \/ restricted THEN 3 ELSE IF editor \/ members THEN 2 ELSE 1
  BY DEF Clearance
<1>2. level \in BuildVisibilityFilter(groups, org) <=>
        \/ level = "public"
        \/ <<org, level>> \in groups
        \/ admin
        \/ editor /\ level = "members"
  BY DEF BuildVisibilityFilter
<1>3. RestrictedOnly(claims, org) <=> restricted /\ ~members /\ ~editor /\ ~admin
  BY DEF RestrictedOnly
<1> HIDE DEF groups, roles, admin, editor, members, restricted
<1>4. /\ 1 <= Clearance(claims, org)
      /\ 2 <= Clearance(claims, org) <=> admin \/ restricted \/ editor \/ members
      /\ 3 <= Clearance(claims, org) <=> admin \/ restricted
  BY <1>1
<1>5. CASE level = "public"
  <2>1. Admits(claims, org, level)
    BY <1>4, <1>5, LevelsAndRanks DEF Admits
  <2> QED
    BY <1>2, <1>5, <2>1 DEF groups
<1>6. CASE level = "members"
  <2>1. Admits(claims, org, level) <=>
            /\ admin \/ restricted \/ editor \/ members
            /\ ~(restricted /\ ~members /\ ~editor /\ ~admin)
    BY <1>3, <1>4, <1>6, LevelsAndRanks DEF Admits
  <2>2. <<org, level>> \in groups <=> members
    BY <1>6 DEF members
  <2> QED
    BY <1>2, <1>6, <2>1, <2>2, Zenon DEF groups
<1>7. CASE level = "restricted"
  <2>1. Admits(claims, org, level) <=> admin \/ restricted
    BY <1>4, <1>7, LevelsAndRanks DEF Admits
  <2>2. <<org, level>> \in groups <=> restricted
    BY <1>7 DEF restricted
  <2> QED
    BY <1>2, <1>7, <2>1, <2>2, Zenon DEF groups
<1> QED
  BY <1>5, <1>6, <1>7, LevelsAndRanks

LEMMA PublicIsClearance ==
    ASSUME NEW org, NEW level \in VisibilityLevels
    PROVE  level \in {"public"} <=> Admits(None, org, level)
BY LevelsAndRanks DEF Clearance, Admits, RestrictedOnly

LEMMA FilterIsLevels ==
    ASSUME NEW groups, NEW org
    PROVE  BuildVisibilityFilter(groups, org) \subseteq VisibilityLevels
BY LevelsAndRanks DEF BuildVisibilityFilter

\* What a context shows of the organization it is for is what the clearance admits.
LEMMA ContextShowsReadable ==
    ASSUME NEW client \in Clients, NEW queryOrg,
           MayRead(client, queryOrg),
           ReadContext(client, queryOrg).organization \in Organizations
    PROVE  LET context == ReadContext(client, queryOrg) IN
           {id \in Ids : Visible(features[context.organization][id], context)}
               = ReadableIn(context.organization, client)
<1> DEFINE context == ReadContext(client, queryOrg)
           org == context.organization
           claims == Claims[client]
<1>1. /\ context.visibilityFilter \subseteq VisibilityLevels
      /\ \A level \in VisibilityLevels :
            level \in context.visibilityFilter <=> Admits(claims, org, level)
  <2>1. CASE claims = None
    <3>1. context.visibilityFilter = {"public"}
      BY <2>1 DEF ReadContext, ResolveAuthContext
    <3>2. {"public"} \subseteq VisibilityLevels
      BY LevelsAndRanks
    <3> HIDE DEF context, org
    <3> QED
      BY <2>1, <3>1, <3>2, PublicIsClearance
  <2>2. CASE claims # None
    <3>1. /\ context.visibilityFilter = BuildVisibilityFilter(ExtractGroups(claims), org)
      BY <2>2 DEF ReadContext, ResolveAuthContext
    <3> HIDE DEF context, org, claims
    <3> QED
      BY <2>2, <3>1, FilterIsLevels, FilterIsClearance
  <2> QED
    BY <2>1, <2>2
<1> HIDE DEF context, org, claims
<1>2. ASSUME NEW id \in Ids
      PROVE  Visible(features[org][id], context) <=> id \in ReadableIn(org, client)
  BY <1>1 DEF Visible, ReadableIn, Admits, claims
<1>3. {id \in Ids : Visible(features[org][id], context)} = ReadableIn(org, client)
  BY <1>2 DEF ReadableIn
<1> QED
  BY <1>3 DEF org, context

LEMMA OrganizationIfGroup ==
    ASSUME NEW groups, NEW org \in Organizations, <<"org", org>> \in groups
    PROVE  ExtractOrganization(groups) # None
<1> DEFINE positions == {i \in DOMAIN Alphabet : <<"org", Alphabet[i]>> \in groups}
           least == CHOOSE i \in positions : \A j \in positions : i <= j
<1>1. positions # {}
  BY DEF Organizations
<1>2. positions \subseteq Nat
  <2>1. DOMAIN Alphabet = 1 .. Len(Alphabet) /\ Len(Alphabet) \in Nat
    BY AlphabetAssumption, LenProperties
  <2>2. DOMAIN Alphabet \subseteq Nat
    BY <2>1
  <2> QED
    BY <2>2, Zenon
<1>3. \E i \in positions : \A j \in positions : i <= j
  BY <1>1, <1>2, LeastExists
<1>4. least \in positions
  BY <1>3
<1>5. ExtractOrganization(groups) = Alphabet[least]
  BY <1>1 DEF ExtractOrganization
<1>6. Alphabet[least] \in Organizations
  BY <1>4 DEF Organizations
<1> QED
  BY <1>5, <1>6, AlphabetAssumption

\* A read is of an organization the caller may read, and it gets a context if there is
\* just one that the request can be meant for.
LEMMA ReadOfReaderOrg ==
    ASSUME NEW client \in Clients, NEW queryOrg \in QueryOrgs
    PROVE  /\ MayRead(client, queryOrg) =>
                  /\ ReadContext(client, queryOrg).organization \in Organizations
                  /\ ReadContext(client, queryOrg).organization
                        \in ReaderOrgs(client, queryOrg)
           /\ \A org \in Organizations :
                  ReaderOrgs(client, queryOrg) = {org} /\ queryOrg \in {None, org} =>
                      MayRead(client, queryOrg)
<1> DEFINE claims == Claims[client]
           mine == ExtractOrganization(ExtractGroups(claims))
<1>1. None \notin Organizations /\ queryOrg \in Organizations \cup {None}
  BY AlphabetAssumption DEF QueryOrgs
<1>2. CASE claims # None
  <2>1. /\ MayRead(client, queryOrg) <=> mine # None /\ queryOrg \in {None, mine}
        /\ ReadContext(client, queryOrg).organization = mine
    BY <1>2 DEF MayRead, ResolveStatus, ReadContext, ResolveAuthContext
  <2>2. ReaderOrgs(client, queryOrg) =
          {org \in Organizations : <<"org", org>> \in ExtractGroups(claims)}
    BY <1>2 DEF ReaderOrgs
  <2>3. mine # None => mine \in ReaderOrgs(client, queryOrg)
    BY <2>2, OrganizationOfGroup
  <2>4. ASSUME NEW org \in Organizations, ReaderOrgs(client, queryOrg) = {org}
        PROVE  mine = org
    <3>1. <<"org", org>> \in ExtractGroups(claims)
      BY <2>2, <2>4
    <3>2. mine # None
      BY <3>1, OrganizationIfGroup
    <3> QED
      BY <2>3, <2>4, <3>2
  <2>5. ReaderOrgs(client, queryOrg) \subseteq Organizations
    BY <2>2
  <2> HIDE DEF mine, claims
  <2> QED
    BY <1>1, <2>1, <2>3, <2>4, <2>5
<1>3. CASE claims = None /\ queryOrg # None
  <2>1. /\ MayRead(client, queryOrg)
        /\ ReadContext(client, queryOrg).organization = queryOrg
        /\ ReaderOrgs(client, queryOrg) = {queryOrg}
    BY <1>3 DEF MayRead, ResolveStatus, ReadContext, ResolveAuthContext, ReaderOrgs
  <2> QED
    BY <1>1, <1>3, <2>1
<1>4. CASE claims = None /\ queryOrg = None
  <2>1. /\ MayRead(client, queryOrg) <=> DefaultOrg # None
        /\ ReadContext(client, queryOrg).organization = DefaultOrg
        /\ ReaderOrgs(client, queryOrg) = {org \in Organizations : config = {org}}
    BY <1>4 DEF MayRead, ResolveStatus, ReadContext, ResolveAuthContext, ReaderOrgs
  <2>2. ASSUME NEW org \in Organizations, config = {org} PROVE DefaultOrg = org
    <3>1. config # None
      BY <2>2, NoneAssumption
    <3> QED
      BY <2>2, <3>1 DEF DefaultOrg
  <2>3. DefaultOrg # None => \E org \in Organizations : config = {org}
    BY DEF DefaultOrg
  <2> QED
    BY <1>1, <2>1, <2>2, <2>3
<1> QED
  BY <1>2, <1>3, <1>4

\* Readers see exactly what their clearance says, of the organization they read, and GET of
\* a feature agrees with GET of the features.  Whatever groups callers are in, the filter is
\* as good as a rank, but for those who are in the group for restricted features alone.
THEOREM ReadersSeeTheirClearance == Spec => []ReadsByClearance
<1>1. ReadsByClearance
  <2> SUFFICES ASSUME NEW client \in Clients, NEW queryOrg \in QueryOrgs
               PROVE  LET orgs == ReaderOrgs(client, queryOrg)
                          shown == {id \in Ids : CanGet(client, queryOrg, id)}
                          listed == QueryFeatures(client, queryOrg)
                          identified == Claims[client] # None \/ queryOrg # None
                      IN  /\ shown # {} => \E org \in orgs : shown = ReadableIn(org, client)
                          /\ listed # None => listed = shown
                          /\ \A org \in Organizations :
                              identified /\ orgs = {org} /\ queryOrg \in {None, org} =>
                                  /\ shown = ReadableIn(org, client)
                                  /\ config # None => listed = shown
    BY DEF ReadsByClearance
  <2> DEFINE orgs == ReaderOrgs(client, queryOrg)
             shown == {id \in Ids : CanGet(client, queryOrg, id)}
             listed == QueryFeatures(client, queryOrg)
             context == ReadContext(client, queryOrg)
             visible == {id \in Ids : Visible(features[context.organization][id], context)}
             mayRead == MayRead(client, queryOrg)
  <2>1. mayRead => shown = visible
    BY DEF CanGet
  <2>2. ~mayRead => shown = {}
    BY DEF CanGet
  <2>3. listed = IF config = None \/ ~mayRead THEN None ELSE visible
    BY DEF QueryFeatures
  <2>4. mayRead => context.organization \in Organizations /\ context.organization \in orgs
    BY ReadOfReaderOrg
  <2>5. mayRead => visible = ReadableIn(context.organization, client)
    BY <2>4, ContextShowsReadable
  <2>6. \A org \in Organizations : orgs = {org} /\ queryOrg \in {None, org} => mayRead
    BY ReadOfReaderOrg
  <2> HIDE DEF orgs, shown, listed, context, visible, mayRead
  <2>7. /\ shown # {} => \E org \in orgs : shown = ReadableIn(org, client)
        /\ listed # None => listed = shown
    BY <2>1, <2>2, <2>3, <2>4, <2>5
  <2>8. ASSUME NEW org \in Organizations, orgs = {org}, queryOrg \in {None, org}
        PROVE  shown = ReadableIn(org, client) /\ (config # None => listed = shown)
    BY <2>1, <2>3, <2>4, <2>5, <2>6, <2>8
  <2> QED
    BY <2>7, <2>8 DEF orgs, shown, listed
<1> QED
  BY <1>1, PTL

-----------------------------------------------------------------------------
(***************************************************************************)
(* Merge patches                                                           *)
(***************************************************************************)

JsonThird(target, patch) == MergeMembers(LAMBDA u, q : q, target, patch)
JsonSecond(target, patch) == MergeMembers(JsonThird, target, patch)
RFCThird(target, patch) == RFCMembers(LAMBDA u, q : q, target, patch)
RFCSecond(target, patch) == RFCMembers(RFCThird, target, patch)

KeptKeys(target, patch) ==
    (DOMAIN target \cup DOMAIN patch) \ {k \in DOMAIN patch : patch[k] = Null}

LEMMA ObjectsAreNoNulls == \A node : IsObject(node) => node # Null
BY DEF IsObject, Null

\* Both merges, level by level.
LEMMA JsonLevels ==
    ASSUME NEW target, NEW patch
    PROVE  /\ JsonMergePatch(target, patch) =
                [key \in KeptKeys(target, patch) |->
                    IF key \notin DOMAIN patch THEN target[key]
                    ELSE IF IsObject(patch[key]) /\ IsObjectAt(target, key)
                         THEN Object(JsonSecond(target[key].members, patch[key].members))
                         ELSE patch[key]]
           /\ JsonSecond(target, patch) =
                [key \in KeptKeys(target, patch) |->
                    IF key \notin DOMAIN patch THEN target[key]
                    ELSE IF IsObject(patch[key]) /\ IsObjectAt(target, key)
                         THEN Object(JsonThird(target[key].members, patch[key].members))
                         ELSE patch[key]]
           /\ JsonThird(target, patch) =
                [key \in KeptKeys(target, patch) |->
                    IF key \notin DOMAIN patch THEN target[key]
                    ELSE IF IsObject(patch[key]) /\ IsObjectAt(target, key)
                         THEN Object(patch[key].members)
                         ELSE patch[key]]
BY Zenon DEF JsonMergePatch, JsonSecond, JsonThird, MergeMembers, KeptKeys

LEMMA RFCLevels ==
    ASSUME NEW target, NEW patch
    PROVE  /\ RFC7396(target, patch) =
                [key \in KeptKeys(target, patch) |->
                    IF key \notin DOMAIN patch THEN target[key]
                    ELSE IF IsObject(patch[key])
                         THEN Object(RFCSecond(
                                IF IsObjectAt(target, key) THEN target[key].members ELSE <<>>,
                                patch[key].members))
                         ELSE patch[key]]
           /\ RFCSecond(target, patch) =
                [key \in KeptKeys(target, patch) |->
                    IF key \notin DOMAIN patch THEN target[key]
                    ELSE IF IsObject(patch[key])
                         THEN Object(RFCThird(
                                IF IsObjectAt(target, key) THEN target[key].members ELSE <<>>,
                                patch[key].members))
                         ELSE patch[key]]
           /\ RFCThird(target, patch) =
                [key \in KeptKeys(target, patch) |->
                    IF key \notin DOMAIN patch THEN target[key]
                    ELSE IF IsObject(patch[key])
                         THEN Object(patch[key].members)
                         ELSE patch[key]]
BY Zenon DEF RFC7396, RFCSecond, RFCThird, RFCMembers, KeptKeys

LEMMA ObjectsBySameMembers ==
    ASSUME NEW a, NEW b
    PROVE  Object(a) = Object(b) <=> a = b
BY DEF Object

LEMMA ThirdAgrees ==
    ASSUME NEW target, NEW patch, \A key \in DOMAIN patch : IsScalar(patch[key])
    PROVE  JsonThird(target, patch) = RFCThird(target, patch)
<1>1. ASSUME NEW key \in KeptKeys(target, patch)
      PROVE  /\ JsonThird(target, patch)[key] =
                    IF key \notin DOMAIN patch THEN target[key] ELSE patch[key]
             /\ RFCThird(target, patch)[key] =
                    IF key \notin DOMAIN patch THEN target[key] ELSE patch[key]
  BY JsonLevels, RFCLevels DEF IsScalar
<1>2. /\ IsFunction(JsonThird(target, patch)) /\ IsFunction(RFCThird(target, patch))
      /\ DOMAIN JsonThird(target, patch) = KeptKeys(target, patch)
      /\ DOMAIN RFCThird(target, patch) = KeptKeys(target, patch)
  BY JsonLevels, RFCLevels DEF IsFunction
<1> QED
  BY <1>1, <1>2, SameFunction

LEMMA EmptyDomain == DOMAIN <<>> = {}
OBVIOUS

\* Merged into an empty object, scalars stay what they are if there is no null.
LEMMA EmptyThird ==
    ASSUME NEW empty, DOMAIN empty = {}, NEW patch, IsMembers(patch, IsScalar)
    PROVE  RFCThird(empty, patch) = patch <=> ~HasNull(patch)
<1> DEFINE merged == RFCThird(empty, patch)
<1>1. IsFunction(patch) /\ \A key \in DOMAIN patch : ~IsObject(patch[key])
  BY DEF IsMembers, IsScalar, IsFunction
<1>2. KeptKeys(empty, patch) = {key \in DOMAIN patch : patch[key] # Null}
  BY DEF KeptKeys
<1>4. /\ IsFunction(merged)
      /\ DOMAIN merged = {key \in DOMAIN patch : patch[key] # Null}
      /\ \A key \in DOMAIN merged : merged[key] = patch[key]
  <2>1. DOMAIN merged = KeptKeys(empty, patch)
    BY RFCLevels
  <2>2. IsFunction(merged)
    BY RFCLevels DEF IsFunction
  <2>3. ASSUME NEW key \in KeptKeys(empty, patch) PROVE merged[key] = patch[key]
    <3>1. key \in DOMAIN patch /\ ~IsObject(patch[key])
      BY <1>1, <1>2
    <3> QED
      BY <3>1, RFCLevels
  <2> HIDE DEF merged
  <2> QED
    BY <1>2, <2>1, <2>2, <2>3
<1>5. HasNull(patch) <=> \E key \in DOMAIN patch : patch[key] = Null
  BY <1>1 DEF HasNull
<1> HIDE DEF merged
<1>6. merged = patch <=> DOMAIN merged = DOMAIN patch
  BY <1>1, <1>4, SameFunction
<1> QED
  BY <1>4, <1>5, <1>6 DEF merged

LEMMA EmptySecond ==
    ASSUME NEW empty, DOMAIN empty = {}, NEW patch, IsMembers(patch, IsFlat)
    PROVE  RFCSecond(empty, patch) = patch <=> ~HasNull(patch)
<1> DEFINE merged == RFCSecond(empty, patch)
<1>1. /\ IsFunction(patch)
      /\ \A key \in DOMAIN patch : IsObject(patch[key]) =>
            patch[key] = Object(patch[key].members) /\ IsMembers(patch[key].members, IsScalar)
  BY DEF IsMembers, IsFlat, IsFunction
<1>2. KeptKeys(empty, patch) = {key \in DOMAIN patch : patch[key] # Null}
  BY DEF KeptKeys
<1>4. /\ IsFunction(merged)
      /\ DOMAIN merged = {key \in DOMAIN patch : patch[key] # Null}
  <2>1. DOMAIN merged = KeptKeys(empty, patch)
    BY RFCLevels
  <2>2. IsFunction(merged)
    BY RFCLevels DEF IsFunction
  <2> QED
    BY <1>2, <2>1, <2>2
<1>5. ASSUME NEW key \in DOMAIN merged
      PROVE  merged[key] = IF IsObject(patch[key])
                           THEN Object(RFCThird(<<>>, patch[key].members)) ELSE patch[key]
  <2>1. ~IsObjectAt(empty, key)
    BY DEF IsObjectAt
  <2>2. key \in DOMAIN patch /\ key \in KeptKeys(empty, patch)
    BY <1>2, <1>4
  <2> QED
    BY <2>1, <2>2, RFCLevels
<1>6. ASSUME NEW key \in DOMAIN merged
      PROVE  merged[key] = patch[key] <=>
                (IsObject(patch[key]) => ~HasNull(patch[key].members))
  <2>1. CASE ~IsObject(patch[key])
    BY <1>5, <2>1
  <2>2. CASE IsObject(patch[key])
    <3>1. /\ patch[key] = Object(patch[key].members)
          /\ IsMembers(patch[key].members, IsScalar)
      BY <1>1, <1>4, <2>2
    <3>2. merged[key] = Object(RFCThird(<<>>, patch[key].members))
      BY <1>5, <2>2
    <3> HIDE DEF merged
    <3>3. merged[key] = patch[key] <=> RFCThird(<<>>, patch[key].members) = patch[key].members
      BY <3>1, <3>2, ObjectsBySameMembers
    <3> QED
      BY <2>2, <3>1, <3>3, EmptyThird, EmptyDomain
  <2> QED
    BY <2>1, <2>2
<1>7. ASSUME NEW key \in DOMAIN patch, IsObject(patch[key])
      PROVE  HasNull(patch[key].members) <=>
                \E k \in DOMAIN patch[key].members : patch[key].members[k] = Null
  BY <1>1, <1>7 DEF HasNull, IsMembers, IsScalar
<1>8. HasNull(patch) <=>
        \E key \in DOMAIN patch :
            patch[key] = Null \/ (IsObject(patch[key]) /\ HasNull(patch[key].members))
  <2>1. HasNull(patch) <=>
          \E key \in DOMAIN patch :
              \/ patch[key] = Null
              \/ /\ IsObject(patch[key])
                 /\ \E k \in DOMAIN patch[key].members : patch[key].members[k] = Null
    BY DEF HasNull
  <2> QED
    BY <1>7, <2>1
<1> HIDE DEF merged
<1>9. merged = patch <=>
        DOMAIN merged = DOMAIN patch /\ \A key \in DOMAIN merged : merged[key] = patch[key]
  BY <1>1, <1>4, SameFunction
<1>10. merged = patch <=> ~HasNull(patch)
  BY <1>4, <1>6, <1>8, <1>9, ObjectsAreNoNulls
<1> QED
  BY <1>10 DEF merged

LEMMA SecondAgrees ==
    ASSUME NEW target, NEW patch, IsMembers(patch, IsFlat)
    PROVE  JsonSecond(target, patch) = RFCSecond(target, patch) <=> ~Misses(target, patch)
<1> DEFINE json == JsonSecond(target, patch)
           rfc == RFCSecond(target, patch)
<1>1. \A key \in DOMAIN patch : IsObject(patch[key]) =>
        patch[key] = Object(patch[key].members) /\ IsMembers(patch[key].members, IsScalar)
  BY DEF IsMembers, IsFlat
<1>2. /\ IsFunction(json) /\ DOMAIN json = KeptKeys(target, patch)
      /\ IsFunction(rfc) /\ DOMAIN rfc = KeptKeys(target, patch)
  BY JsonLevels, RFCLevels DEF IsFunction
<1>3. ASSUME NEW key \in KeptKeys(target, patch),
             key \notin DOMAIN patch \/ ~IsObject(patch[key])
      PROVE  json[key] = rfc[key]
  BY <1>3, JsonLevels, RFCLevels
<1>4. ASSUME NEW key \in DOMAIN patch, IsObject(patch[key])
      PROVE  /\ key \in KeptKeys(target, patch)
             /\ json[key] = rfc[key] <=>
                    IsObjectAt(target, key) \/ ~HasNull(patch[key].members)
  <2>1. key \in KeptKeys(target, patch)
    BY <1>4, ObjectsAreNoNulls DEF KeptKeys
  <2>2. CASE IsObjectAt(target, key)
    <3>1. /\ json[key] = Object(JsonThird(target[key].members, patch[key].members))
          /\ rfc[key] = Object(RFCThird(target[key].members, patch[key].members))
      BY <1>4, <2>1, <2>2, JsonLevels, RFCLevels
    <3>2. \A k \in DOMAIN patch[key].members : IsScalar(patch[key].members[k])
      BY <1>1, <1>4 DEF IsMembers
    <3> QED
      BY <2>1, <2>2, <3>1, <3>2, ThirdAgrees
  <2>3. CASE ~IsObjectAt(target, key)
    <3>1. /\ json[key] = patch[key]
          /\ rfc[key] = Object(RFCThird(<<>>, patch[key].members))
      BY <1>4, <2>1, <2>3, JsonLevels, RFCLevels
    <3> HIDE DEF json, rfc
    <3>2. json[key] = rfc[key] <=>
            patch[key].members = RFCThird(<<>>, patch[key].members)
      BY <1>1, <1>4, <3>1, ObjectsBySameMembers
    <3> QED
      BY <1>1, <1>4, <2>1, <2>3, <3>2, EmptyThird, EmptyDomain
  <2> QED
    BY <2>2, <2>3
<1> HIDE DEF json, rfc
<1>5. json = rfc <=> \A key \in KeptKeys(target, patch) : json[key] = rfc[key]
  BY <1>2, SameFunction
<1>6. json = rfc <=> ~Misses(target, patch)
  BY <1>3, <1>4, <1>5 DEF Misses
<1> QED
  BY <1>6 DEF json, rfc

LEMMA MergeAgreesUnless ==
    ASSUME NEW target, NEW patch, IsMembers(patch, IsTwoDeep)
    PROVE  JsonMergePatch(target, patch) = RFC7396(target, patch)
               <=> ~NullLandsInNewObject(target, patch)
<1> DEFINE json == JsonMergePatch(target, patch)
           rfc == RFC7396(target, patch)
<1>1. \A key \in DOMAIN patch : IsObject(patch[key]) =>
        patch[key] = Object(patch[key].members) /\ IsMembers(patch[key].members, IsFlat)
  BY DEF IsMembers, IsTwoDeep
<1>2. /\ IsFunction(json) /\ DOMAIN json = KeptKeys(target, patch)
      /\ IsFunction(rfc) /\ DOMAIN rfc = KeptKeys(target, patch)
  BY JsonLevels, RFCLevels DEF IsFunction
<1>3. ASSUME NEW key \in KeptKeys(target, patch),
             key \notin DOMAIN patch \/ ~IsObject(patch[key])
      PROVE  json[key] = rfc[key]
  BY <1>3, JsonLevels, RFCLevels
<1>4. ASSUME NEW key \in DOMAIN patch, IsObject(patch[key])
      PROVE  /\ key \in KeptKeys(target, patch)
             /\ json[key] = rfc[key] <=>
                    IF IsObjectAt(target, key)
                    THEN ~Misses(target[key].members, patch[key].members)
                    ELSE ~HasNull(patch[key].members)
  <2>1. key \in KeptKeys(target, patch)
    BY <1>4, ObjectsAreNoNulls DEF KeptKeys
  <2>2. CASE IsObjectAt(target, key)
    <3>1. /\ json[key] = Object(JsonSecond(target[key].members, patch[key].members))
          /\ rfc[key] = Object(RFCSecond(target[key].members, patch[key].members))
      BY <1>4, <2>1, <2>2, JsonLevels, RFCLevels
    <3> HIDE DEF json, rfc
    <3>2. json[key] = rfc[key] <=>
            JsonSecond(target[key].members, patch[key].members)
                = RFCSecond(target[key].members, patch[key].members)
      BY <3>1, ObjectsBySameMembers
    <3> QED
      BY <1>1, <1>4, <2>1, <2>2, <3>2, SecondAgrees
  <2>3. CASE ~IsObjectAt(target, key)
    <3>1. /\ json[key] = patch[key]
          /\ rfc[key] = Object(RFCSecond(<<>>, patch[key].members))
      BY <1>4, <2>1, <2>3, JsonLevels, RFCLevels
    <3> HIDE DEF json, rfc
    <3>2. json[key] = rfc[key] <=>
            patch[key].members = RFCSecond(<<>>, patch[key].members)
      BY <1>1, <1>4, <3>1, ObjectsBySameMembers
    <3> QED
      BY <1>1, <1>4, <2>1, <2>3, <3>2, EmptySecond, EmptyDomain
  <2> QED
    BY <2>2, <2>3
<1> HIDE DEF json, rfc
<1>5. json = rfc <=> \A key \in KeptKeys(target, patch) : json[key] = rfc[key]
  BY <1>2, SameFunction
<1>6. json = rfc <=> ~NullLandsInNewObject(target, patch)
  <2>1. NullLandsInNewObject(target, patch) <=>
          \E key \in DOMAIN patch :
              /\ IsObject(patch[key])
              /\ IF IsObjectAt(target, key)
                 THEN Misses(target[key].members, patch[key].members)
                 ELSE HasNull(patch[key].members)
    <3>1. NullLandsInNewObject(target, patch) <=>
            \/ \E key \in DOMAIN patch :
                IsObject(patch[key]) /\ ~IsObjectAt(target, key) /\ HasNull(patch[key].members)
            \/ \E key \in DOMAIN patch :
                /\ IsObject(patch[key]) /\ IsObjectAt(target, key)
                /\ Misses(target[key].members, patch[key].members)
      BY DEF NullLandsInNewObject, Misses
    <3> QED
      BY <3>1
  <2> QED
    BY <1>3, <1>4, <1>5, <2>1
<1> QED
  BY <1>6 DEF json, rfc

\* A patch is merged as RFC 7396 says exactly if no null of it ends up in an object that
\* the properties did not have: for any properties, and objects two deep in the patch.
THEOREM MergesAgree == Spec => []MergeAgrees
<1>1. MergeAgrees
  BY PatchesAssumption, MergeAgreesUnless DEF MergeAgrees
<1> QED
  BY <1>1, PTL

-----------------------------------------------------------------------------
(***************************************************************************)
(* Boxes                                                                   *)
(***************************************************************************)

LEMMA GreatestExists ==
    ASSUME NEW S \in SUBSET Nat, IsFiniteSet(S), S # {}
    PROVE  \E i \in S : \A j \in S : j <= i
<1> DEFINE above(x) == {y \in S : x < y}
           counts == {Cardinality(above(x)) : x \in S}
<1>1. \A x \in S : IsFiniteSet(above(x)) /\ Cardinality(above(x)) \in Nat
  BY FS_Subset, FS_CardinalityType
<1>2. counts \in SUBSET Nat /\ counts # {}
  BY <1>1
<1>3. PICK c \in counts : \A d \in counts : c <= d
  BY <1>2, LeastExists
<1>4. PICK i \in S : c = Cardinality(above(i))
  BY <1>3
<1>5. ASSUME NEW j \in S, i < j PROVE FALSE
  <2>0. i \in Nat /\ j \in Nat /\ \A y \in S : y \in Nat
    OBVIOUS
  <2>1. above(j) \subseteq above(i) /\ j \in above(i) /\ j \notin above(j)
    <3>1. \A y \in S : j < y => i < y
      BY <1>5, <2>0
    <3>2. ~(j < j)
      BY <2>0
    <3> QED
      BY <1>5, <3>1, <3>2, Zenon
  <2>2. above(j) \in SUBSET above(i) /\ above(j) # above(i)
    BY <2>1
  <2>3. Cardinality(above(i)) <= Cardinality(above(j))
    BY <1>3, <1>4
  <2>4. IsFiniteSet(above(i)) /\ Cardinality(above(i)) \in Nat
        /\ Cardinality(above(j)) \in Nat
    BY <1>1
  <2> HIDE DEF above
  <2>5. /\ Cardinality(above(j)) <= Cardinality(above(i))
        /\ Cardinality(above(i)) = Cardinality(above(j)) => above(i) = above(j)
    BY <2>2, <2>4, FS_Subset
  <2> QED
    BY <2>2, <2>3, <2>4, <2>5
<1> QED
  BY <1>5

LEMMA MinAndMax ==
    ASSUME NEW S \in SUBSET Nat, IsFiniteSet(S), S # {}
    PROVE  /\ Min(S) \in S /\ \A x \in S : Min(S) <= x
           /\ Max(S) \in S /\ \A x \in S : x <= Max(S)
<1>1. \E i \in S : \A j \in S : i <= j
  BY LeastExists
<1>2. \E i \in S : \A j \in S : i >= j
  BY GreatestExists
<1>3. Min(S) \in S /\ \A x \in S : Min(S) <= x
  BY <1>1 DEF Min
<1>4. Max(S) \in S /\ \A x \in S : Max(S) >= x
  BY <1>2 DEF Max
<1> QED
  BY <1>3, <1>4

\* The corners of an envelope are coordinates of positions, and the outermost ones.
LEMMA Envelope ==
    ASSUME NEW geometry, geometry.positions \in Seq(Nat \X Nat),
           ExtractAllPositions(geometry) # {}
    PROVE  LET bbox == ComputeGeometryBbox(geometry)
               all == ExtractAllPositions(geometry)
           IN  /\ bbox[1] \in Nat /\ bbox[2] \in Nat /\ bbox[3] \in Nat /\ bbox[4] \in Nat
               /\ bbox[1] <= bbox[3] /\ bbox[2] <= bbox[4]
               /\ \A p \in all :
                    /\ p[1] \in Nat /\ bbox[1] <= p[1] /\ p[1] <= bbox[3]
                    /\ p[2] \in Nat /\ bbox[2] <= p[2] /\ p[2] <= bbox[4]
<1> DEFINE positions == geometry.positions
           n == Len(positions)
           all == ExtractAllPositions(geometry)
           lons == {p[1] : p \in all}
           lats == {p[2] : p \in all}
<1>1. n \in Nat /\ DOMAIN positions = 1 .. n /\ \A i \in 1 .. n : positions[i] \in Nat \X Nat
  BY LenProperties, ElementOfSeq
<1>2. all = {positions[i] : i \in 1 .. n}
  BY <1>1 DEF ExtractAllPositions
<1>3. all # {}
  OBVIOUS
<1> HIDE DEF positions, n, all
<1>4. \A p \in all : p[1] \in Nat /\ p[2] \in Nat
  BY <1>1, <1>2
<1>5. IsFiniteSet(1 .. n)
  BY <1>1, FS_Interval
<1>6. IsFiniteSet(lons) /\ IsFiniteSet(lats)
  <2> DEFINE f == [i \in 1 .. n |-> positions[i][1]]
             g == [i \in 1 .. n |-> positions[i][2]]
  <2>1. f \in Surjection(1 .. n, lons)
    <3>1. lons = {positions[i][1] : i \in 1 .. n}
      BY <1>2
    <3>2. f \in [1 .. n -> lons] /\ \A x \in lons : \E i \in 1 .. n : f[i] = x
      BY <3>1
    <3> HIDE DEF f, lons
    <3> QED
      BY <3>2 DEF Surjection
  <2>2. g \in Surjection(1 .. n, lats)
    <3>1. lats = {positions[i][2] : i \in 1 .. n}
      BY <1>2
    <3>2. g \in [1 .. n -> lats] /\ \A x \in lats : \E i \in 1 .. n : g[i] = x
      BY <3>1
    <3> HIDE DEF g, lats
    <3> QED
      BY <3>2 DEF Surjection
  <2> HIDE DEF f, g, lons, lats
  <2> QED
    BY <1>5, <2>1, <2>2, FS_Surjection
<1>7. lons \in SUBSET Nat /\ lons # {} /\ lats \in SUBSET Nat /\ lats # {}
  BY <1>3, <1>4
<1>8. \A p \in all : p[1] \in lons /\ p[2] \in lats
  OBVIOUS
<1>9. ComputeGeometryBbox(geometry) = <<Min(lons), Min(lats), Max(lons), Max(lats)>>
  BY DEF ComputeGeometryBbox, all
<1> HIDE DEF lons, lats
<1>10. /\ Min(lons) \in lons /\ \A x \in lons : Min(lons) <= x
       /\ Max(lons) \in lons /\ \A x \in lons : x <= Max(lons)
       /\ Min(lats) \in lats /\ \A x \in lats : Min(lats) <= x
       /\ Max(lats) \in lats /\ \A x \in lats : x <= Max(lats)
  BY <1>6, <1>7, MinAndMax
<1> DEFINE bbox == ComputeGeometryBbox(geometry)
<1>11. /\ bbox[1] = Min(lons) /\ bbox[2] = Min(lats)
       /\ bbox[3] = Max(lons) /\ bbox[4] = Max(lats)
  BY <1>9
<1> HIDE DEF bbox
<1>12. /\ bbox[1] \in Nat /\ bbox[2] \in Nat /\ bbox[3] \in Nat /\ bbox[4] \in Nat
       /\ bbox[1] <= bbox[3] /\ bbox[2] <= bbox[4]
  BY <1>7, <1>10, <1>11
<1>13. ASSUME NEW p \in all
       PROVE  /\ p[1] \in Nat /\ bbox[1] <= p[1] /\ p[1] <= bbox[3]
              /\ p[2] \in Nat /\ bbox[2] <= p[2] /\ p[2] <= bbox[4]
  BY <1>4, <1>8, <1>10, <1>11
<1> QED
  BY <1>12, <1>13 DEF bbox, all

\* Two intervals overlap if neither ends before the other begins.
LEMMA IntervalsMeet ==
    \A a, b, c, d \in Nat :
        a <= b /\ c <= d => ((\E x \in a .. b : x \in c .. d) <=> c <= b /\ d >= a)
<1> SUFFICES ASSUME NEW a \in Nat, NEW b \in Nat, NEW c \in Nat, NEW d \in Nat,
                    a <= b, c <= d
             PROVE  (\E x \in a .. b : x \in c .. d) <=> c <= b /\ d >= a
  OBVIOUS
<1>1. ASSUME c <= b, d >= a PROVE \E x \in a .. b : x \in c .. d
  <2>1. CASE a <= c
    BY <1>1, <2>1
  <2>2. CASE c <= a
    BY <1>1, <2>2
  <2> QED
    BY <2>1, <2>2
<1>2. ASSUME NEW x \in a .. b, x \in c .. d PROVE c <= b /\ d >= a
  BY <1>2
<1> QED
  BY <1>1, <1>2

LEMMA BoxMeetsEnvelope ==
    ASSUME NEW geometry, geometry.positions \in Seq(Nat \X Nat), NEW box \in Boxes
    PROVE  /\ MatchesBox(geometry, box) <=> EnvelopeMeets(geometry, box)
           /\ PositionInside(geometry, box) => MatchesBox(geometry, box)
<1> DEFINE bbox == ComputeGeometryBbox(geometry)
           all == ExtractAllPositions(geometry)
<1>1. /\ box[1] \in Nat /\ box[2] \in Nat /\ box[3] \in Nat /\ box[4] \in Nat
      /\ box[1] <= box[3] /\ box[2] <= box[4]
  BY BoxesAssumption
<1>2. CASE all = {}
  BY <1>2 DEF MatchesBox, EnvelopeMeets, PositionInside
<1>3. CASE all # {}
  <2>1. /\ bbox[1] \in Nat /\ bbox[2] \in Nat /\ bbox[3] \in Nat /\ bbox[4] \in Nat
        /\ bbox[1] <= bbox[3] /\ bbox[2] <= bbox[4]
        /\ \A p \in all :
             /\ p[1] \in Nat /\ bbox[1] <= p[1] /\ p[1] <= bbox[3]
             /\ p[2] \in Nat /\ bbox[2] <= p[2] /\ p[2] <= bbox[4]
    BY <1>3, Envelope
  <2>2. MatchesBox(geometry, box) <=>
            /\ bbox[1] <= box[3] /\ bbox[3] >= box[1]
            /\ bbox[2] <= box[4] /\ bbox[4] >= box[2]
    BY <1>3 DEF MatchesBox
  <2>3. EnvelopeMeets(geometry, box) <=>
            /\ \E lon \in box[1] .. box[3] : lon \in bbox[1] .. bbox[3]
            /\ \E lat \in box[2] .. box[4] : lat \in bbox[2] .. bbox[4]
    BY <1>3 DEF EnvelopeMeets
  <2>4. PositionInside(geometry, box) <=>
            \E p \in all : p[1] \in box[1] .. box[3] /\ p[2] \in box[2] .. box[4]
    BY DEF PositionInside
  <2> HIDE DEF bbox, all
  <2>5. MatchesBox(geometry, box) <=> EnvelopeMeets(geometry, box)
    <3>1. (\E lon \in box[1] .. box[3] : lon \in bbox[1] .. bbox[3])
            <=> bbox[1] <= box[3] /\ bbox[3] >= box[1]
      BY <1>1, <2>1, IntervalsMeet
    <3>2. (\E lat \in box[2] .. box[4] : lat \in bbox[2] .. bbox[4])
            <=> bbox[2] <= box[4] /\ bbox[4] >= box[2]
      BY <1>1, <2>1, IntervalsMeet
    <3> QED
      BY <2>2, <2>3, <3>1, <3>2
  <2>6. ASSUME NEW p \in all, p[1] \in box[1] .. box[3], p[2] \in box[2] .. box[4]
        PROVE  MatchesBox(geometry, box)
    <3>1. p[1] \in bbox[1] .. bbox[3] /\ p[2] \in bbox[2] .. bbox[4]
      BY <2>1
    <3> QED
      BY <2>3, <2>5, <2>6, <3>1
  <2> QED
    BY <2>4, <2>5, <2>6
<1> QED
  BY <1>2, <1>3

\* Only a PATCH stores coordinates that cannot be read: POST and PUT check the schema.
ReadableUnlessPatched ==
    \A org \in Organizations, id \in Ids :
        features[org][id] # None =>
            features[org][id].patched \/ ~Unreadable(features[org][id].geometry)

LEMMA StoringReadable ==
    ASSUME ServiceInv, ReadableUnlessPatched,
           NEW org \in Organizations, NEW id \in Ids, NEW item,
           item.patched \/ ~Unreadable(item.geometry),
           features' = [features EXCEPT ![org][id] = item]
    PROVE  ReadableUnlessPatched'
<1>1. \A o \in Organizations, i \in Ids :
        features'[o][i] = IF o = org /\ i = id THEN item ELSE features[o][i]
  BY DEF ServiceInv, TypeOK
<1> QED
  BY <1>1 DEF ReadableUnlessPatched

LEMMA ReceivableIsReadable ==
    ASSUME NEW body, Receivable(body)
    PROVE  ~Unreadable(body.geometry)
BY DEF Receivable, GeometryConforms, Unreadable

LEMMA ReadableNext ==
    ASSUME ServiceInv, ReadableUnlessPatched, [Next]_vars
    PROVE  ReadableUnlessPatched'
<1>1. ASSUME NEW client, NEW queryOrg, NEW id \in Ids, NEW body \in Bodies,
             Post(client, queryOrg, id, body)
      PROVE  ReadableUnlessPatched'
  <2> DEFINE new == Created(client, body)
  <2>1. WriterOrg(client) \in Organizations
    BY <1>1, WriterHasOrganization DEF Post
  <2>2. new.organization = WriterOrg(client) /\ new.geometry = body.geometry
    BY DEF Created
  <2>3. features' = [features EXCEPT ![new.organization][id] = new] /\ Receivable(body)
    BY <1>1 DEF Post
  <2> HIDE DEF new
  <2> QED
    BY <2>1, <2>2, <2>3, ReceivableIsReadable, StoringReadable
<1>2. ASSUME NEW client, NEW queryOrg, NEW id \in Ids, NEW new,
             MayWrite(client, queryOrg), Found(features[WriterOrg(client)][id]),
             features' = [features EXCEPT ![WriterOrg(client)][id] = new],
             IsItem(features[WriterOrg(client)][id]) =>
                \/ new.patched
                \/ ~Unreadable(new.geometry)
                \/ /\ new.patched = features[WriterOrg(client)][id].patched
                   /\ new.geometry = features[WriterOrg(client)][id].geometry
      PROVE  ReadableUnlessPatched'
  <2>1. WriterOrg(client) \in Organizations
    BY <1>2, WriterHasOrganization
  <2>2. /\ IsItem(features[WriterOrg(client)][id])
        /\ features[WriterOrg(client)][id] # None
    BY <1>2, <2>1 DEF Found, ServiceInv, TypeOK
  <2>3. new.patched \/ ~Unreadable(new.geometry)
    BY <1>2, <2>1, <2>2 DEF ReadableUnlessPatched
  <2> QED
    BY <1>2, <2>1, <2>3, StoringReadable
<1>3. ASSUME NEW client, NEW queryOrg, NEW id \in Ids, NEW body \in Bodies,
             Put(client, queryOrg, id, body)
      PROVE  ReadableUnlessPatched'
  <2> DEFINE item == features[WriterOrg(client)][id]
  <2>1. MayWrite(client, queryOrg) /\ Found(item) /\ Receivable(body)
    BY <1>3 DEF Put, MayReplace
  <2>2. features' = [features EXCEPT ![WriterOrg(client)][id] = Replaced(client, item, body)]
    BY <1>3 DEF Put
  <2> HIDE DEF item
  <2>3. IsItem(item) => Replaced(client, item, body).geometry = body.geometry
    BY DEF Replaced, IsItem
  <2> QED
    BY <1>2, <2>1, <2>2, <2>3, ReceivableIsReadable DEF item
<1>4. ASSUME NEW client, NEW queryOrg, NEW id \in Ids, NEW patch \in Patches,
             Patch(client, queryOrg, id, patch)
      PROVE  ReadableUnlessPatched'
  <2> DEFINE item == features[WriterOrg(client)][id]
  <2>1. MayWrite(client, queryOrg) /\ Found(item)
    BY <1>4 DEF Patch
  <2>2. features' = [features EXCEPT ![WriterOrg(client)][id] = Updated(client, item, patch)]
    BY <1>4 DEF Patch
  <2> HIDE DEF item
  <2>3. IsItem(item) => Updated(client, item, patch).patched
    BY DEF Updated, IsItem
  <2> QED
    BY <1>2, <2>1, <2>2, <2>3 DEF item
<1>5. ASSUME NEW client, NEW queryOrg, NEW id \in Ids, Delete(client, queryOrg, id)
      PROVE  ReadableUnlessPatched'
  <2> DEFINE item == features[WriterOrg(client)][id]
  <2>1. MayWrite(client, queryOrg) /\ Found(item)
    BY <1>5 DEF Delete
  <2>2. features' = [features EXCEPT ![WriterOrg(client)][id] = Deleted(client, item)]
    BY <1>5 DEF Delete
  <2> HIDE DEF item
  <2>3. IsItem(item) => /\ Deleted(client, item).patched = item.patched
                        /\ Deleted(client, item).geometry = item.geometry
    BY DEF Deleted, IsItem
  <2> QED
    BY <1>2, <2>1, <2>2, <2>3 DEF item
<1>6. ASSUME features' = features
      PROVE  ReadableUnlessPatched'
  BY <1>6 DEF ReadableUnlessPatched
<1> QED
  BY <1>1, <1>3, <1>4, <1>5, <1>6, EditedAssumption
     DEF Next, PutCollection, DeleteCollection, vars

\* The box test is right for every geometry an item can have that can be read.
LEMMA BoxTestRight ==
    ASSUME NEW item, IsItem(item), ~Unreadable(item.geometry), NEW box \in Boxes
    PROVE  /\ MatchesBox(item.geometry, box) <=> EnvelopeMeets(item.geometry, box)
           /\ PositionInside(item.geometry, box) => MatchesBox(item.geometry, box)
<1> DEFINE geometry == item.geometry
<1>1. PICK b \in Bodies \cup Patches : geometry = b.geometry /\ geometry # None
  BY DEF IsItem
<1> HIDE DEF geometry
<1>2. CASE geometry = Null \/ geometry.type \notin KnownTypes
  <2>1. ExtractAllPositions(geometry) = {}
    BY <1>2 DEF ExtractAllPositions
  <2> QED
    BY <2>1 DEF MatchesBox, EnvelopeMeets, PositionInside, geometry
<1>3. CASE geometry # Null /\ geometry.type \in KnownTypes
  <2>1. geometry.readable
    BY <1>3 DEF Unreadable, geometry
  <2>2. geometry.positions \in Seq(Nat \X Nat)
    BY <1>1, <1>3, <2>1, PositionsAssumption
  <2> QED
    BY <2>2, BoxMeetsEnvelope DEF geometry
<1> QED
  BY <1>2, <1>3

LEMMA BoxesAreRight ==
    ASSUME ServiceInv, ReadableUnlessPatched
    PROVE  BoxesFind
<1> SUFFICES ASSUME NEW client \in Clients, NEW queryOrg \in QueryOrgs, NEW box \in Boxes,
                    QueryFeatures(client, queryOrg) # None
             PROVE  LET seen == QueryFeatures(client, queryOrg)
                        found == QueryBox(client, queryOrg, box)
                        item(id) == features[ReadContext(client, queryOrg).organization][id]
                    IN  \/ /\ found # None
                           /\ found = {id \in seen : EnvelopeMeets(item(id).geometry, box)}
                           /\ {id \in seen : PositionInside(item(id).geometry, box)}
                                \subseteq found
                        \/ found = None /\ \E id \in seen : item(id).patched
  BY DEF BoxesFind
<1> DEFINE seen == QueryFeatures(client, queryOrg)
           found == QueryBox(client, queryOrg, box)
           context == ReadContext(client, queryOrg)
           item(id) == features[context.organization][id]
<1>1. MayRead(client, queryOrg) /\ seen = {id \in Ids : Visible(item(id), context)}
  BY DEF QueryFeatures
<1>2. context.organization \in Organizations
  BY <1>1, ReadOfReaderOrg
<1>3. \A id \in seen : id \in Ids /\ item(id) # None
  BY <1>1 DEF Visible, Found
<1>4. \A id \in seen : IsItem(item(id)) /\ (item(id).patched \/ ~Unreadable(item(id).geometry))
  BY <1>2, <1>3 DEF ServiceInv, TypeOK, ReadableUnlessPatched
<1>5. seen # None
  OBVIOUS
<1>6. found = IF seen = None \/ \E id \in seen : Unreadable(item(id).geometry) THEN None
              ELSE {id \in seen : MatchesBox(item(id).geometry, box)}
  BY DEF QueryBox
<1> HIDE DEF seen, found, context, item
<1>7. CASE \E id \in seen : Unreadable(item(id).geometry)
  BY <1>4, <1>6, <1>7 DEF seen, found, item, context
<1>8. CASE \A id \in seen : ~Unreadable(item(id).geometry)
  <2>1. found = {id \in seen : MatchesBox(item(id).geometry, box)}
    BY <1>5, <1>6, <1>8
  <2>2. found \in SUBSET Ids
    BY <1>3, <2>1
  <2>3. found # None
    BY <2>2, NoneAssumption
  <2>4. \A id \in seen :
          /\ MatchesBox(item(id).geometry, box) <=> EnvelopeMeets(item(id).geometry, box)
          /\ PositionInside(item(id).geometry, box) => MatchesBox(item(id).geometry, box)
    BY <1>4, <1>8, BoxTestRight
  <2>5. /\ found = {id \in seen : EnvelopeMeets(item(id).geometry, box)}
        /\ {id \in seen : PositionInside(item(id).geometry, box)} \subseteq found
    BY <2>1, <2>4
  <2> QED
    BY <2>3, <2>5 DEF seen, found, item, context
<1> QED
  BY <1>7, <1>8

\* A box query returns the features of the caller's whose envelope has a point in the box,
\* and fails only if a PATCH stored coordinates that cannot be read among them.
THEOREM BoxQueriesFind == Spec => []BoxesFind
<1>1. Init => ReadableUnlessPatched
  BY DEF Init, ReadableUnlessPatched
<1>2. ServiceInv /\ ReadableUnlessPatched /\ [Next]_vars => ReadableUnlessPatched'
  BY ReadableNext
<1>3. ServiceInv /\ ReadableUnlessPatched => BoxesFind
  BY BoxesAreRight
<1> QED
  BY <1>1, <1>2, <1>3, ServiceInvAlways, PTL DEF Spec

=============================================================================
