---------------------------- MODULE MCGeocoding ----------------------------
(***************************************************************************)
(* A few cities for TLC: namesakes in two states, a name that begins       *)
(* another one, namesakes abroad, a record without coordinates.            *)
(***************************************************************************)
EXTENDS Geocoding

City(id, name, region, country, upcoming, away) ==
    [id |-> id, name |-> name, region |-> region, country |-> country,
     upcoming |-> upcoming, away |-> away, mappable |-> id # "ghost"]

American == {City("austin_tx", "Austin", "TX", "US", 40, 5),
             City("austin_mn", "Austin", "MN", "US", 2, 1500),
             City("austinville", "Austinville", "VA", "US", 1, 1800),
             City("manor", "Manor", "TX", "US", 3, 2),
             City("ghost", "Austwell", "TX", "US", 50, 20)}

British == {City("london_gb", "London", "ENG", "GB", 90, 7900),
            City("london_ky", "London", "KY", "US", 4, 1400)}

World == American \cup British

MCBegins == {<<"Aus", "Austin">>, <<"Aus", "Austinville">>,
             <<"Aus", "Austwell">>, <<"Austin", "Austin">>,
             <<"Austin", "Austinville">>, <<"Austinville", "Austinville">>,
             <<"Manor", "Manor">>, <<"London", "London">>}

MCStates == {"TX", "MN", "VA", "KY"}

Texts == {Text("Aus", ""), Text("Austin", ""), Text("Austin", "TX"),
          Text("Austin", "VA"), Text("Manor", ""), Text("Dallas", "TX"),
          Text("London", ""), Point, OffEarth}

\* Austin, TX and Austin, MN can be told apart by a pick, both Londons cannot.
ASSUME PicksDecide == Pickable(American) /\ ~Pickable(World)
=============================================================================
