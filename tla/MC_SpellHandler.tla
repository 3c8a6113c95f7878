--------------------------- MODULE MC_SpellHandler ---------------------------
(***************************************************************************)
(* Model-checking instance of SpellHandler: two gifts in three slots, one  *)
(* with its character_gifts row and one whose row is missing.  The gift's  *)
(* contents are a container that binds on use.  The third slot lets a swap *)
(* move a gift into an empty slot, so a query's callback can find no item  *)
(* at its position.  Positions are interchangeable in the handlers, which  *)
(* only compare them, so the slots are a symmetry set.                     *)
(***************************************************************************)
EXTENDS SpellHandler, TLC

CONSTANTS i1, i2, wrapper, sl1, sl2, sl3

MC_Items == {i1, i2}
MC_Wrapped0 == {i1, i2}
MC_Orphans == {i2}
MC_Contents == {i1}
MC_Slots == {sl1, sl2, sl3}
MC_SlotSymmetry == Permutations(MC_Slots)

=============================================================================
