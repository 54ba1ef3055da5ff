----------------------------- MODULE MCConnect -----------------------------
EXTENDS Connect, TLC

\* The sockets of the hosts differ in their packet size.
MCMSS == [h \in Hosts |-> IF h = "a" THEN 2 ELSE 1]

Once == 7 :> <<1>> @@ 8 :> <<0>>
Alone == 7 :> <<1>> @@ 8 :> <<>>
Twice == 7 :> <<1, 0>> @@ 8 :> <<>>

Regular(d, y, w, n, b) ==
    [rendezvous |-> FALSE, draws |-> d, sync |-> y, wrong |-> w,
     minutes |-> n, breaks |-> b]
Rendezvous(d, y) ==
    [rendezvous |-> TRUE, draws |-> d, sync |-> y, wrong |-> {},
     minutes |-> 0, breaks |-> FALSE]

\* A single blocking client.
MCBlocking == {Regular(Alone, {7}, {}, 0, FALSE)}

\* Two clients at once, a client that tries again, a minute that passes, a
\* client that the listener refuses, and rendezvous with and without a
\* second try.
MCScenarios ==
    {Regular(Once, {7}, {}, 0, TRUE), Regular(Twice, {7}, {}, 0, FALSE),
     Regular(Alone, {7}, {7}, 0, TRUE)}
    \cup {Regular(Alone, y, {}, 1, FALSE) : y \in {{}, {7}}}
    \cup {Rendezvous(Once, y) : y \in SUBSET Clients}
    \cup {Rendezvous(7 :> <<1, 0>> @@ 8 :> <<0>>, {7})}

\* The theorems about the agreement of the ends speak of this instance.
ASSUME MCAgreement == Scenarios = MCScenarios => (NoTwins /\ Pairs)
=============================================================================
