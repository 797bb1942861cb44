----------------------------- MODULE MCHandlers -----------------------------
(* Small instances of Handlers for TLC. *)
EXTENDS Handlers

CONSTANTS ann, bob, cid

MCPairs == {<<ann, bob>>, <<ann, cid>>, <<bob, ann>>}

Fight(who, onScreen, bullets, changes, rounds, last, step) ==
    [pairs |-> who, screens |-> onScreen, shots |-> bullets, sights |-> changes,
     types |-> {}, grenades |-> 0, bombs |-> 0, flames |-> {}, outcomes |-> {}, rounds |-> rounds, ticks |-> last, gap |-> step]

Smoke(outcome, rounds) ==
    [pairs |-> {}, screens |-> {}, shots |-> 0, sights |-> 0, bombs |-> 0, flames |-> {},
     types |-> {"Smoke"}, outcomes |-> outcome, grenades |-> 2,
     rounds |-> rounds, ticks |-> 2, gap |-> 1]

Throw(types, number, rounds, last, step) ==
    [pairs |-> {}, screens |-> {}, shots |-> 0, sights |-> 0,
     types |-> types, grenades |-> number, bombs |-> 0, flames |-> {}, outcomes |-> {},
     rounds |-> rounds, ticks |-> last, gap |-> step]

Plant(events, rounds, last) ==
    [pairs |-> {}, screens |-> {}, shots |-> 0, sights |-> 0, types |-> {}, grenades |-> 0,
     bombs |-> events, flames |-> {}, outcomes |-> {}, rounds |-> rounds, ticks |-> last, gap |-> 1]

Burn(fire, rounds, last, step) ==
    [pairs |-> {}, screens |-> {}, shots |-> 0, sights |-> 0, types |-> {}, grenades |-> 0,
     bombs |-> 0, flames |-> fire, outcomes |-> {}, rounds |-> rounds, ticks |-> last, gap |-> step]

MCFlames == {<<1, 1>>, <<1, 2>>, <<2, 1>>}

\* A bullet through two players and misses; two players who see each other;
\* one who sees two; one who comes on screen and off.  Throws that open
\* windows; grenades that go off; clouds; two bombs; fires.
MCScenes ==
    {Fight({<<ann, bob>>, <<ann, cid>>}, {}, 2, 0, 2, 3, 2),
     Fight({<<ann, bob>>, <<bob, ann>>}, {}, 1, 2, 2, 2, 1),
     Fight({<<ann, bob>>, <<ann, cid>>}, {}, 1, 2, 1, 2, 1),
     Fight({<<ann, bob>>}, {<<ann, bob>>}, 2, 2, 1, 3, 1),
     Fight({<<ann, bob>>}, {}, 2, 1, 1, 3, 2),
     Fight({<<ann, bob>>}, {<<ann, bob>>}, 1, 2, 2, 3, 2),
     Throw({"Decoy"}, 2, 1, 7, 2),
     Throw({"HE", "Molotov"}, 2, 2, 2, 2),
     Throw({"Molotov"}, 3, 1, 1, 1),
     Throw({"Molotov"}, 2, 1, 2, 1),
     Smoke({"volume"}, 2),
     Smoke({"nothing"}, 1),
     Smoke({"cloud", "volume"}, 1),
     Plant(5, 2, 2),
     Burn({<<1, 1>>, <<1, 2>>}, 1, 5, 2),
     Burn({<<1, 1>>, <<2, 1>>}, 2, 4, 1)}
=============================================================================
