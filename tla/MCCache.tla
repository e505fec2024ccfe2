------------------------------ MODULE MCCache ------------------------------
\* ResultCache with two posts that use one Idempotency-Key for two addresses, and
\* one asynchronous item with one retry, which spells the address of the first
\* differently.
EXTENDS ResultCache

CONSTANTS p1, p2, i1, key1

MCNormal == ("Ann" :> "ann") @@ ("ann" :> "ann") @@ ("bob" :> "bob")
MCAddressOf == (p1 :> "ann") @@ (p2 :> "bob") @@ (i1 :> "Ann")
MCKeyOf == (p1 :> key1) @@ (p2 :> key1) @@ (i1 :> NoKey)
MCLists == {{"bob"}, {"ann", "bob"}}
=============================================================================
