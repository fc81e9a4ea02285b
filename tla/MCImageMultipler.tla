-------------------------- MODULE MCImageMultipler --------------------------
(* Model-checking instances of ImageMultipler: two AI channels beside DT, or a spot
   camera whose capture times are compensated by one millisecond into the past. *)
EXTENDS ImageMultipler, TLC

CONSTANTS i1, i2, ai1, ai2

MCImageIds == {i1, i2}
MCAlgorithms == {ai1, ai2, "DT"}
MCSymmetry == {p @@ q : p \in Permutations({i1, i2}), q \in Permutations({ai1, ai2})}

MCCompensation == -1

=============================================================================
