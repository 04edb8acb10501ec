--------------------------- MODULE Authorization ---------------------------
(***************************************************************************)
(* The authorization context of a request: from the Cognito groups in its  *)
(* claims to an organization, roles and visibility levels.                 *)
(*                                                                         *)
(* A group is a pair <<prefix, name>>: "editor" is <<"", "editor">>,       *)
(* "org:TestOrgA" is <<"org", "TestOrgA">>, "TestOrgA:members" is          *)
(* <<"TestOrgA", "members">> and "wells:editor" is <<"wells", "editor">>.  *)
(* The claims of a request are the sequence of the groups that its token   *)
(* names, or None if it carries no token that can be decoded.  API Gateway *)
(* verifies the tokens of writes; those of reads nobody verifies: what is  *)
(* said here of a reader's groups is said of those that its token names.   *)
(***************************************************************************)
EXTENDS Naturals, Sequences

CONSTANTS
    Alphabet,   \* the organizations, a sequence in alphabetical order
    None        \* no token, no query parameter, no organization, no item

Organizations == {Alphabet[i] : i \in DOMAIN Alphabet}

ASSUME AlphabetAssumption ==
    /\ Alphabet \in Seq(Organizations)
    /\ \A i, j \in DOMAIN Alphabet : Alphabet[i] = Alphabet[j] => i = j
    /\ None \notin Organizations

Roles == {"admin", "editor", "viewer"}

\* All standard visibility levels, in order of increasing privilege.
Levels == <<"public", "members", "restricted">>

VisibilityLevels == {Levels[i] : i \in DOMAIN Levels}

-----------------------------------------------------------------------------

\* Whatever the format of the claim (a list, a JSON array, a string in brackets,
\* a plain string), what counts is which groups are in it.
ExtractGroups(claims) == {claims[i] : i \in DOMAIN claims}

\* Users should belong to one organization; of several, the first one by name.
ExtractOrganization(groups) ==
    LET positions == {i \in DOMAIN Alphabet : <<"org", Alphabet[i]>> \in groups} IN
    IF positions = {} THEN None
    ELSE Alphabet[CHOOSE i \in positions : \A j \in positions : i <= j]

\* Global roles, and those with a collection in front of them.
ExtractRoles(groups) == {role \in Roles : \E g \in groups : g[2] = role}

\* What the groups of the organization grant, and what the roles grant.
BuildVisibilityFilterOfAny(groups, organization) ==
    {"public"}
    \cup {level \in VisibilityLevels : \E g \in groups : g[2] = level}
    \cup (IF "admin" \in ExtractRoles(groups) THEN VisibilityLevels
          ELSE IF "editor" \in ExtractRoles(groups) THEN {"members"} ELSE {})

BuildVisibilityFilter(groups, organization) ==
    {"public"}
    \cup {level \in VisibilityLevels : <<organization, level>> \in groups}
    \cup (IF "admin" \in ExtractRoles(groups) THEN VisibilityLevels
          ELSE IF "editor" \in ExtractRoles(groups) THEN {"members"} ELSE {})

\* The status of the AuthError that is raised, 200 if there is none.
ResolveStatus(claims, queryOrg) ==
    IF claims = None THEN IF queryOrg = None THEN 400 ELSE 200
    ELSE LET org == ExtractOrganization(ExtractGroups(claims)) IN
         IF org # None /\ queryOrg \in {None, org} THEN 200 ELSE 403

\* resolve_auth_context, where ResolveStatus is 200.
ResolveAuthContext(claims, queryOrg) ==
    IF claims = None
    THEN [authenticated |-> FALSE, organization |-> queryOrg,
          visibilityFilter |-> {"public"}, roles |-> {}]
    ELSE LET groups == ExtractGroups(claims)
             org == ExtractOrganization(groups)
         IN  [authenticated |-> TRUE, organization |-> org,
              visibilityFilter |-> BuildVisibilityFilter(groups, org),
              roles |-> ExtractRoles(groups)]

-----------------------------------------------------------------------------
(***************************************************************************)
(* What the documentation says of it: visibility is hierarchical.          *)
(***************************************************************************)

Rank(level) == CHOOSE i \in DOMAIN Levels : Levels[i] = level

\* The highest rank a caller may see: that of its visibility group, at least
\* "members" for an editor, everything for an admin.
Clearance(claims, org) ==
    IF claims = None THEN 1
    ELSE LET groups == ExtractGroups(claims) IN
         IF "admin" \in ExtractRoles(groups) \/ <<org, "restricted">> \in groups THEN 3
         ELSE IF "editor" \in ExtractRoles(groups) \/ <<org, "members">> \in groups THEN 2
         ELSE 1

\* The callers for whom visibility is not hierarchical: in the group for restricted
\* features, and neither in that for those of members nor in a role that includes it.
RestrictedOnly(claims, org) ==
    /\ claims # None
    /\ <<org, "restricted">> \in ExtractGroups(claims)
    /\ <<org, "members">> \notin ExtractGroups(claims)
    /\ ExtractRoles(ExtractGroups(claims)) \cap {"editor", "admin"} = {}

=============================================================================
