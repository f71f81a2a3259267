-------------------------------- MODULE Strict --------------------------------
(***************************************************************************)
(* Application of an operator to a value.  A model checker evaluates an    *)
(* operator's argument at every place the operator uses it; these evaluate *)
(* it once, which the recursive operators on trees need.                   *)
(***************************************************************************)
EXTENDS Naturals, Sequences

With(value, F(_)) == CHOOSE y \in {F(x) : x \in {value}} : TRUE

\* start, Step(start, seq[1]), Step(Step(start, seq[1]), seq[2]) ... by how many
\* of seq went in.
Stages(Step(_, _), start, seq) ==
    LET after[i \in 0..Len(seq)] ==
            IF i = 0 THEN start ELSE With(after[i - 1], LAMBDA a : Step(a, seq[i]))
    IN  after

\* Step(... Step(Step(start, seq[1]), seq[2]) ..., seq[Len(seq)])
Fold(Step(_, _), start, seq) == Stages(Step, start, seq)[Len(seq)]

Concat(seqs) == Fold(LAMBDA a, b : a \o b, <<>>, seqs)
===============================================================================
