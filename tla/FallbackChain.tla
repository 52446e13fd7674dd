--------------------------- MODULE FallbackChain ----------------------------
(***************************************************************************)
(* Name resolution and the fallback chains (router/fallback.rs, and what   *)
(* router/engine.rs resolves a name to).                                   *)
(*                                                                         *)
(* A Name is what a chain or a request spells: an alias, "model" or        *)
(* "provider/model".  A Target is a (provider, canonical model) pair.      *)
(* Resolving "p/m" drops the "p/": Canonical(Resolve[n]) need not be n,    *)
(* and next_after looks names up as they are spelled.                      *)
(*                                                                         *)
(* A chain map is a sequence of entries; the order of the sequence is the  *)
(* iteration order of the HashMap it stands for.                           *)
(***************************************************************************)
EXTENDS Naturals, Sequences

CONSTANTS
    Names,          \* the spellings in use
    Targets,        \* (provider, model) pairs
    Resolve,        \* RequestRouter::resolve: name -> target
    Canonical,      \* target -> the canonical model name, a Name
    ConfigChains    \* [routing.fallback_chains]

Entry == [key : Names, models : Seq(Names)]

ASSUME ChainAssumption ==
    /\ Resolve \in [Names -> Targets]
    /\ Canonical \in [Targets -> Names]
    /\ ConfigChains \in Seq(Entry)

\* Where n stands in entry e: 0 as its key, i as the i-th model, nowhere else.
Positions(e, n) ==
    IF e.key = n THEN {0}
    ELSE {i \in 1..Len(e.models) :
            e.models[i] = n /\ \A j \in 1..(i - 1) : e.models[j] # n}

\* The name after n in entry e, as a set of at most one (Rust's Option).
Following(e, n) ==
    {e.models[i + 1] : i \in {k \in Positions(e, n) : k + 1 \in 1..Len(e.models)}}

\* The first of the entries at the places S, in iteration order, decides.
First(S) == {i \in S : \A j \in S : i <= j}

Places(chains, n) == {i \in 1..Len(chains) : Positions(chains[i], n) # {}}
KeyPlaces(chains, n) == {i \in 1..Len(chains) : chains[i].key = n}

\* FallbackChain::next_after.  In the DB chains a key and a member compete in
\* iteration order; in the config chains a key wins over any member.
NextAfter(dbChains, n) ==
    IF Places(dbChains, n) # {}
    THEN UNION {Following(dbChains[i], n) : i \in First(Places(dbChains, n))}
    ELSE IF KeyPlaces(ConfigChains, n) # {}
    THEN UNION {Following(ConfigChains[i], n) : i \in First(KeyPlaces(ConfigChains, n))}
    ELSE UNION {Following(ConfigChains[i], n) : i \in First(Places(ConfigChains, n))}
=============================================================================
