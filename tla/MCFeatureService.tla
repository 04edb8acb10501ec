-------------------------- MODULE MCFeatureService --------------------------
(***************************************************************************)
(* FeatureService for TLC: two organizations, ten callers, and bodies and  *)
(* patches that meet the cases of the handlers.                            *)
(***************************************************************************)
EXTENDS FeatureService

MCAlphabet == <<"TestOrgA", "TestOrgB">>

MCDeclared == [name |-> "string", tags |-> "object"]

MCClaims ==
    [anonymous |-> None,
     outsider  |-> << <<"", "viewer">> >>,
     viewer    |-> << <<"org", "TestOrgA">>, <<"", "viewer">> >>,
     member    |-> << <<"org", "TestOrgA">>, <<"TestOrgA", "members">> >>,
     officer   |-> << <<"org", "TestOrgA">>, <<"TestOrgA", "members">>,
                      <<"TestOrgA", "restricted">> >>,
     auditor   |-> << <<"org", "TestOrgA">>, <<"TestOrgA", "restricted">> >>,
     editor    |-> << <<"org", "TestOrgA">>, <<"wells", "editor">> >>,
     admin     |-> << <<"org", "TestOrgA">>, <<"", "admin">> >>,
     adminB    |-> << <<"org", "TestOrgB">>, <<"", "admin">> >>,
     both      |-> << <<"org", "TestOrgB">>, <<"org", "TestOrgA">>,
                      <<"TestOrgB", "members">>, <<"TestOrgB", "restricted">>,
                      <<"", "viewer">> >>]

Spot == [type |-> "Point", positions |-> << <<0, 0>> >>, readable |-> TRUE]
Track == [type |-> "LineString", positions |-> << <<1, 3>>, <<3, 1>> >>, readable |-> TRUE]
Garbled == [type |-> "Point", positions |-> <<>>, readable |-> FALSE]

MCBodies ==
    {[geometry |-> Spot, properties |-> [name |-> Text("a")]],
     [geometry |-> Track,
      properties |-> [name |-> Text("a"), tags |-> Object([k |-> Text("x")]),
                      visibility |-> Text("restricted"), organization |-> Text("TestOrgB")]],
     [geometry |-> Track,
      properties |-> [name |-> Text("a"), visibility |-> Text("members")]],
     [geometry |-> Spot, properties |-> [visibility |-> Text("members")]]}

MCPatches ==
    {[geometry |-> None,
      properties |-> [tags |-> Object([k |-> Null, m |-> Text("y")])]],
     [geometry |-> Garbled, properties |-> [name |-> Null]],
     [geometry |-> None,
      properties |-> [visibility |-> Text("secret"), organization |-> Text("TestOrgA")]]}

MCBoxes == {<<0, 0, 0, 0>>, <<0, 0, 1, 1>>, <<2, 2, 4, 4>>, <<4, 0, 5, 5>>}

MCConfigurations == {{"TestOrgA"}, {"TestOrgA", "TestOrgB"}}

=============================================================================
