------------------------------ MODULE HelmValues ------------------------------
(***************************************************************************)
(* How promotion-service merges two values.yaml files                      *)
(* (promotion-service/git/githandler.go, MergeValues to merge).            *)
(***************************************************************************)
EXTENDS YamlValues

(* merge writes into its first argument if that is a map, and returns it. *)
RECURSIVE merge(_, _)
merge(in1, in2) ==
  CASE IsList(in1) /\ IsList(in2) -> List(in1.list \o in2.list)
    [] IsMap(in1) /\ IsMap(in2) ->
         Map([key \in DOMAIN in1.map \union DOMAIN in2.map |->
                IF key \notin DOMAIN in2.map THEN in1.map[key]
                ELSE IF key \notin DOMAIN in1.map THEN in2.map[key]
                ELSE merge(in1.map[key], in2.map[key])])
    [] in1 = Null /\ IsMap(in2) -> in2
    [] OTHER -> in1

(* Manipulate drops what merge returns, so at the top level only maps are *)
(* merged, the others being replaced.                                     *)
Manipulate(chart, values) ==
  [key \in DOMAIN chart \union DOMAIN values |->
     IF key \notin DOMAIN values THEN chart[key]
     ELSE IF IsMap(values[key]) /\ key \in DOMAIN chart
       THEN merge(values[key], chart[key])
       ELSE values[key]]

(* A file that cannot be parsed is as good as none. *)
getValues(file) == IF DOMAIN file = {"values", "version"} THEN file ELSE NoFile

MergeValues(orig, stage) ==
  LET base == getValues(orig)  over == getValues(stage) IN
  IF base = NoFile THEN over
  ELSE IF over = NoFile THEN base
  ELSE [base EXCEPT !.values = Manipulate(base.values, over.values)]
================================================================================
