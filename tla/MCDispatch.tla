----------------------------- MODULE MCDispatch -----------------------------
(***************************************************************************)
(* Small instances of Dispatch: three providers with one model each, two   *)
(* slots.  No adapter is configured for p3.                                *)
(***************************************************************************)
EXTENDS Dispatch

CONSTANTS p1, p2, p3,       \* providers
          tA, tB, tC,       \* targets: model a at p1, b at p2, c at p3
          r1, r2,           \* request slots
          a, b, p2b, c      \* names; p2b spells "p2/b", the others are aliases

MCProviders == {p1, p2, p3}
MCTargets   == {tA, tB, tC}
MCNames     == {a, b, p2b, c}
MCRequests  == {r1, r2}

MCResolve    == [n \in MCNames |-> CASE n = a -> tA [] n = c -> tC [] OTHER -> tB]
MCCanonical  == [t \in MCTargets |-> CASE t = tA -> a [] t = tB -> b [] t = tC -> c]
MCProviderOf == [t \in MCTargets |-> CASE t = tA -> p1 [] t = tB -> p2 [] t = tC -> p3]

Chain(key, models) == [key |-> key, models |-> models]

\* A chain spelled with aliases, and one spelled with a provider prefix, whose
\* third model is only reached when the second is skipped.
MCChainConfigs == {<<Chain(a, <<b, c>>)>>, <<Chain(a, <<p2b, c>>)>>}
MCConfigChains == <<Chain(b, <<c>>)>>

MCGrants     == {{tB, tC}, {tC}}
MCSwitchable == {tB}

\* Slot r1 takes the requests that walk chains, r2 the single calls; both call
\* p1 and p2, so each sees the other's failures through the breaker.  The
\* messages request resolves to p2's model and calls p1, the MessagesProvider.
MCWorkload == [r \in MCRequests |->
    IF r = r1 THEN {"chat", "pinned", "embed", "pinned_embed"} \X {tA}
              ELSE {<<"single", tA>>, <<"audio", tA>>, <<"messages", tB>>, <<"images", tB>>}]

\* For liveness: the kinds that can keep a slot busy, and one way to be denied.
LiveWorkload   == [r \in MCRequests |->
    IF r = r1 THEN {"chat", "embed"} \X {tA} ELSE {<<"audio", tA>>, <<"messages", tB>>}]
LiveGrants     == {{tB, tC}}
LiveSwitchable == {tB, p1}
LiveChains     == {<<Chain(a, <<b, c>>)>>}
=============================================================================
