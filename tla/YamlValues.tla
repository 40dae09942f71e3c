------------------------------ MODULE YamlValues ------------------------------
(***************************************************************************)
(* Helm values: YAML decoded into nested maps, lists and scalars, and what *)
(* a merged values file should hold, said path by path.                    *)
(***************************************************************************)
EXTENDS Integers, Sequences, SequencesExt

CONSTANT KeyPaths    \* the sequences of keys to look at

Scalar(x)  == [scalar |-> x]
List(xs)   == [list |-> xs]
Map(kvs)   == [map |-> kvs]
Null       == [null |-> TRUE]
Missing    == [missing |-> TRUE]      \* no such key

NoFile     == [none |-> TRUE]         \* no file, or none that can be parsed

IsScalar(v) == DOMAIN v = {"scalar"}
IsList(v)   == DOMAIN v = {"list"}
IsMap(v)    == DOMAIN v = {"map"}

(* What a sequence of keys leads to. *)
Entry(v, key) == IF IsMap(v) /\ key \in DOMAIN v.map THEN v.map[key] ELSE Missing
At(values, path) == FoldLeft(Entry, Map(values), path)

(* The stage overlays the base.  What it leaves out, if only by a null in *)
(* place of a nested map, is taken from the base, unless the stage has no *)
(* map above it; nested lists are joined; the rest is as the stage says.  *)
LeftOut(stage, base, path) ==
  \/ At(stage, path) = Missing
  \/ Len(path) > 1 /\ At(stage, path) = Null /\ IsMap(At(base, path))

Overlaid(stage, base, path) ==
  LET s == At(stage, path)  b == At(base, path)
      open(n) == LET above == SubSeq(path, 1, n) IN
                 IsMap(At(stage, above)) \/ LeftOut(stage, base, above)
  IN  CASE ~(\A n \in 1..(Len(path) - 1) : open(n)) -> Missing
        [] LeftOut(stage, base, path)                -> b
        [] Len(path) > 1 /\ IsList(s) /\ IsList(b)   -> List(s.list \o b.list)
        [] OTHER                                     -> s

(* Maps are compared by what is below them. *)
IsOverlay(merged, stage, base) ==
  \A path \in KeyPaths :
    LET m == At(merged, path)  expected == Overlaid(stage, base, path) IN
    IF IsMap(expected) THEN IsMap(m) ELSE m = expected
================================================================================
