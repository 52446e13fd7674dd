------------------------------ MODULE MCRouting ------------------------------
(***************************************************************************)
(* Routing, instantiated for TLC: two providers with a model each, a pool  *)
(* of both, an alias that a row and the configuration give, and aliases of *)
(* a model's name: one closes a cycle with an alias that may be written    *)
(* first, and is a hop too long once the row is gone.                      *)
(***************************************************************************)
EXTENDS Routing, TLC

CONSTANTS a1, a2, r1, r2, s1, m1, m2, pa, pb, i1, i2, n1, n2, pool

MCProviderOf == m1 :> pa @@ m2 :> pb
MCModelOf == i1 :> m1 @@ i2 :> m1
MCRowAlias == i1 :> {n2} @@ i2 :> {n2}
MCConfigAliases == n1 :> {m1} @@ n2 :> {n1} @@ m1 :> {} @@ m2 :> {}
MCInitialRows == i1 :> "enabled" @@ i2 :> "absent"

RowJob(kind, i) == [kind |-> kind, row |-> i]
MCJobs == {RowJob("create", i2), RowJob("delete", i1), RowJob("disable", i1), RowJob("enable", i1),
           [kind |-> "provider_off", provider |-> pb], [kind |-> "provider_on", provider |-> pb],
           [kind |-> "alias", name |-> n2, target |-> m2],
           [kind |-> "alias", name |-> m2, target |-> n2],
           [kind |-> "alias", name |-> m2, target |-> m1],
           [kind |-> "unalias", name |-> n2],
           [kind |-> "chain", chain |-> <<m1, m2>>],
           [kind |-> "chain", chain |-> <<m2, m2>>]}

MCRing == pool :> <<m1, m2>>
MCSessionIds == {{s1}}

Symmetry == Permutations({a1, a2}) \cup Permutations({r1, r2})
=============================================================================
