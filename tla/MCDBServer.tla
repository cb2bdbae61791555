----------------------------- MODULE MCDBServer -----------------------------
(* Instances of DBServer for TLC.  The hash is the identity up to renaming.  *)
EXTENDS DBServer, TLC

CONSTANTS a, b, c1, c2

MCCodes   == {a, b}
MCKeys    == {"hash a", "hash b"}
MCOneKey  == a :> "hash a"
MCmakeKey == (a :> "hash a") @@ (b :> "hash b")

\* One blob, two new blobs, and the two equal blobs of a program that is its own
\* minimization.
MCPayloads == {<<a>>, <<a, b>>}
MCTwins    == {<<a, a>>}

MCStray  == [op : {"badPut", "badFrame"}]
MCNone   == {}
=============================================================================
