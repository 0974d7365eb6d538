---------------------------- MODULE MCHostPrograms ----------------------------
(* Bounded instances of the five parts of HostPrograms for TLC. *)
EXTENDS HostPrograms

Symmetry == Permutations(Cids) \cup Permutations(Shells)

\* The handlers h1 and h2 belong to two runs of one application.
MCKindOf == [h1 |-> "tsh", h2 |-> "tsh", d |-> "dac"]
MCNameOf == [h1 |-> "ts", h2 |-> "ts", d |-> "app"]

\* Two applications of one title.
MCTitleOf == <<"x", "x", "y">>

MCSynonymies == {<<"a", "b">>, <<"b", "c">>, <<"c", "d">>, <<"d", "b", "b">>, <<"e", "a">>}
MCDeclarations ==
  {<<<<"F", <<"a", "b">>>>, <<"M", <<"e">>>>, <<"F", <<"c", "d">>>>>>,
   <<<<"M", <<"e", "f">>>>, <<"F", <<"c", "a">>>>>>}
MCLocalOf == [x1 |-> "l1", x2 |-> "l2"]
=============================================================================
