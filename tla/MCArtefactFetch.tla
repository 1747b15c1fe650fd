-------------------------- MODULE MCArtefactFetch --------------------------
(* A small instance of the model store for TLC: two callers, two models to fetch. *)
EXTENDS ArtefactFetch, TLC

CONSTANTS p1, p2, e1, e2, e3, e4, e5, f1, f2, f3, f4, f5, f6

\* One model that was re-pinned to new bytes, an entry nobody can open, and identifiers
\* that differ from the first in case and that climb out of the store.
MCModelOf ==
  e1 :> <<"a", "b">> @@ e2 :> <<"a", "b">> @@ e3 :> <<"a", "-", "0">>
  @@ e4 :> <<"a", "B">> @@ e5 :> <<".", ".">>
MCSize == e1 :> 2 @@ e2 :> 1 @@ e3 :> 1 @@ e4 :> 1 @@ e5 :> 1
MCSource ==
  LET From(scheme, host) == [scheme |-> scheme, host |-> host]
  IN  e1 :> From("https", "example.org") @@ e2 :> From("http", "127.0.0.1")
      @@ e3 :> From("http", "example.org") @@ e4 :> From("https", "example.org")
      @@ e5 :> From("https", "example.org")

Symmetry == Permutations({p1, p2})

\* What a state is told apart by: not by the bytes of files nothing leads to any more, not
\* by how they were left, and not by how a call ended that has ended.  No step reads them.
View ==
  <<tree, dirs, [i \in File \ Free |-> file[i]], pc, entry, handle, listed,
    [p \in Fetch |-> IF pc[p] = "failing" THEN outcome[p] ELSE "none"],
    removing, doomed, orphans \ Free, left \ Free, alone>>
=============================================================================
