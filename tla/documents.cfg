CONSTANTS
    None = None
    Alphabet <- MCAlphabet
    Declared <- MCDeclared
    Required = {"name"}
    GeometryTypes = {"Point", "LineString"}
    EnumLevels = {"members", "restricted"}
    Clients = {"anonymous", "outsider", "viewer", "member", "officer", "auditor",
               "editor", "admin", "adminB", "both"}
    Claims <- MCClaims
    Bodies <- MCBodies
    Patches <- MCPatches
    Ids = {1, 2}
    Edited = {1}
    Boxes <- MCBoxes
    Configurations <- MCConfigurations

SPECIFICATION Spec
INVARIANTS
    TypeOK
    TenantBoundary
    ReadsByClearance
    BoxesFind
    EchoChangesNothing
    ConformsUnlessPatched
    MergeAgrees
