----------------------------- MODULE MCCodeCache -----------------------------
EXTENDS CodeCache, TLC

CONSTANTS V, F, G, H, a, b, d, h

Off == [v |-> FALSE, d |-> FALSE, pfn |-> F]

On(f) == [v |-> TRUE, d |-> TRUE, pfn |-> f]

ReadOnly(f) == [v |-> TRUE, d |-> FALSE, pfn |-> f]

Mapping(even, odd) ==
    [vpn2 |-> V, half |-> [half \in Halves |-> IF half = "even" THEN even ELSE odd]]

MCNewEntries == {Mapping(Off, Off), Mapping(On(F), Off), Mapping(ReadOnly(G), On(F))}

(* Only F changes. *)
MCHolds == F :> {<<a>>, <<b>>} @@ G :> {<<d>>} @@ H :> {<<h>>}

(* The files are saved with an entry that maps F, one while F was run. *)
MCFiles ==
    {[mem |-> F :> x @@ G :> <<d>> @@ H :> <<h>>,
      entries |-> [i \in Entries |-> Mapping(On(F), Off)],
      pc |-> p] : x \in MCHolds[F], p \in {<<V, "even">>, Kseg0(H)}}

(* Bounds: what untidy programs do is not followed further, G is only run  *)
(* through the TLB, and where words are overlooked F is only run directly. *)
Bounded ==
    /\ tidy /\ ranAs[G] \notin DirectPages
    /\ overlooked \subseteq {F} \X Words
    /\ ~ aligned => ranAs[F] \notin MappedPages

Symmetry == Permutations({a, b})
=============================================================================
