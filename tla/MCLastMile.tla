----------------------------- MODULE MCLastMile -----------------------------
(***************************************************************************)
(* Small networks for LastMile.                                            *)
(***************************************************************************)
EXTENDS LastMile

CONSTANTS v1, n1

MCHonest   == {v1}
MCFaulty   == {}
MCFollower == {n1}

\* The network in which leader l of epoch e ends with block last[e + 1][l + 1]
\* and in which "extra" leaders have one more block with an AFP.
RECURSIVE BlocksBefore(_, _, _)
BlocksBefore(last, e, l) ==
    IF l > 0 THEN BlocksBefore(last, e, l - 1) + last[e + 1][l] + 1
    ELSE IF e > 0 THEN BlocksBefore(last, e - 1, NumLeaders) ELSE 0

NetworkOf(last, extra) ==
    [last  |-> [t \in Turn |-> last[t[1] + 1][t[2] + 1]],
     top   |-> [t \in Turn |-> last[t[1] + 1][t[2] + 1] +
                                  IF t \in extra THEN 1 ELSE 0],
     start |-> [t \in Turn |-> BlocksBefore(last, t[1], t[2])],
     end   |-> [e \in Epoch |-> BlocksBefore(last, e, NumLeaders)]]

\* An epoch whose first leader has a block that is final and left out, an
\* epoch that ends with a leader without blocks, and an epoch without any.
MCNetworks ==
    {NetworkOf(<< <<0, 1>>, <<0, -1>> >>, {<<0, 0>>}),
     NetworkOf(<< <<-1, -1>>, <<1, 0>> >>, {<<1, 1>>})}

\* For the restart that goes wrong: an epoch of three blocks, and one of one.
LongEpoch == {NetworkOf(<< <<1, 0>>, <<0, -1>> >>, {})}

\* The follower alone is restarted, and the voter, whose collector has nobody
\* to learn from, has none.
FollowerOnly == restarted[v1] = FALSE /\ copied[v1] = {}
=============================================================================
