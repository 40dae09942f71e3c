------------------------------ MODULE StageProofs ------------------------------
(***************************************************************************)
(* Proofs about the files of the stage branches in PromotionService.       *)
(***************************************************************************)
EXTENDS FileProofs

(* StageLog speaks of trees as PromotionService does. *)
LEMMA TreesOfBranches ==
  /\ \A tree, dir : Branches!Contents(tree, dir) = Contents(tree, dir)
  /\ \A tree, dir : Branches!RemoveAll(tree, dir) = RemoveAll(tree, dir)
  /\ \A s : Branches!Base(s) = Base(s)
  /\ \A st, s : Branches!StageOf(st, s) = StageOf(st, s)
  /\ \A dir, s : Branches!ChartIn(dir, s) = ChartIn(dir, s)
  /\ Branches!NoFile = NoFile
<1>1. \A path, dir : Branches!Inside(path, dir) = Inside(path, dir)
  BY DEF Branches!Inside, Inside
<1>2. \A tree, dir : Branches!Below(tree, dir) = Below(tree, dir)
  BY DEF Branches!Below, Below, Branches!IsStrictPrefix, IsStrictPrefix, Branches!IsPrefix, IsPrefix
<1>3. ASSUME NEW tree, NEW dir PROVE Branches!Contents(tree, dir) = Contents(tree, dir)
  BY <1>1, <1>2 DEF Branches!Contents, Contents
<1>4. ASSUME NEW tree, NEW dir PROVE Branches!RemoveAll(tree, dir) = RemoveAll(tree, dir)
  BY DEF Branches!RemoveAll, RemoveAll, Branches!Without, Without, Branches!Restrict, Restrict,
     Branches!IsPrefix, IsPrefix
<1> QED
  BY <1>3, <1>4 DEF Branches!Base, Base, Branches!StageOf, StageOf, Branches!ChartIn, ChartIn,
     Branches!NoFile, NoFile

--------------------------------------------------------------------------------
(* Where moveFiles puts the files of a directory. *)

LEMMA NamedAt ==
  ASSUME NEW path \in Paths, NEW s \in Services, NEW n \in 1..Len(path), path[n] = s,
         NEW i, i = SelectInSeq(path, LAMBDA name : Named(name, s))
  PROVE  /\ i \in 1..n
         /\ (\A k \in 1..(n - 1) : ~Named(path[k], s)) => i = n
<1> DEFINE I == {k \in 1..Len(path) : Named(path[k], s)}
<1>1. i = IF I # {} THEN CHOOSE x \in I : \A y \in I : x <= y ELSE 0
  BY DEF SelectInSeq, Min
<1>2. Len(path) \in Nat
  BY DEF Paths
<1>3. n \in I
  BY DEF Named
<1>4. I \subseteq Nat
  BY <1>2
<1>5. \E x \in I : \A y \in I : x <= y
  BY <1>3, <1>4, LeastOf
<1>6. i \in I /\ \A y \in I : i <= y
  BY <1>1, <1>3, <1>5
<1>7. i \in 1..n
  <2>1. i \in 1..Len(path) /\ i <= n
    BY <1>3, <1>6
  <2> QED
    BY <1>2, <2>1
<1>8. ASSUME \A k \in 1..(n - 1) : ~Named(path[k], s) PROVE i = n
  BY <1>6, <1>7, <1>8
<1> QED
  BY <1>7, <1>8

LEMMA LandingIsPath ==
  ASSUME NEW path \in Paths, NEW s \in Services, Len(path) # 0, path[Len(path)] = s
  PROVE  /\ Landing(path, s) \in Paths
         /\ (\A k \in 1..(Len(path) - 1) : ~Named(path[k], s)) => Landing(path, s) = <<>>
<1>1. path \in Seq(Names) /\ Len(path) \in Nat /\ Len(path) \in 1..Len(path)
  BY DEF Paths
<1>2. PICK i : i = SelectInSeq(path, LAMBDA name : Named(name, s))
  OBVIOUS
<1>3. /\ i \in 1..Len(path)
      /\ (\A k \in 1..(Len(path) - 1) : ~Named(path[k], s)) => i = Len(path)
  BY <1>1, <1>2, NamedAt
<1> DEFINE head == IF path[i] = s THEN <<>> ELSE <<Rest>>
           tail == SubSeq(path, i + 1, Len(path))
<1>4. Landing(path, s) = head \o tail
  BY <1>2 DEF Landing
<1>5. head \in Seq(Names)
  BY FixedNames
<1>6. tail \in Seq(Names)
  BY <1>1, <1>3
<1>7. Landing(path, s) \in Paths
  <2> HIDE DEF head, tail
  <2> QED
    BY <1>4, <1>5, <1>6 DEF Paths
<1>8. ASSUME \A k \in 1..(Len(path) - 1) : ~Named(path[k], s) PROVE Landing(path, s) = <<>>
  <2>1. i = Len(path)
    BY <1>3, <1>8
  <2>2. head = <<>>
    BY <2>1
  <2>3. tail = <<>>
    BY <1>1, <2>1, SubSeqEmpty
  <2> QED
    BY <1>4, <2>2, <2>3
<1> QED
  BY <1>7, <1>8

(* The release's directories of a service land below the service's own. *)
Target(dir, s) == <<s>> \o Landing(Temp \o dir, s)

LEMMA TargetOf ==
  ASSUME NEW s \in Services, NEW st \in Stages, NEW dir \in {Base(s), StageOf(st, s)}
  PROVE  /\ Target(dir, s) \in Paths
         /\ IsPrefix(<<s>>, Target(dir, s))
         /\ IsClear(s, st) => Target(dir, s) = <<s>>
<1> DEFINE path == Temp \o dir
<1>1. dir \in Paths /\ Temp \in Paths
  <2>1. Temp \in Seq(Names)
    BY FixedNames DEF Temp
  <2> QED
    BY <2>1, DirsArePaths DEF Paths
<1>2. path \in Paths /\ Len(path) # 0 /\ path[Len(path)] = s
  <2>1. CASE dir = Base(s)
    BY <2>1, FixedNames DEF Temp, Base, Paths
  <2>2. CASE dir = StageOf(st, s)
    BY <2>2, FixedNames DEF Temp, StageOf, Paths
  <2> QED
    BY <2>1, <2>2
<1>3. IsClear(s, st) => \A k \in 1..(Len(path) - 1) : ~Named(path[k], s)
  BY DEF IsClear
<1> HIDE DEF path
<1>4. Landing(path, s) \in Paths
  BY <1>2, LandingIsPath
<1>5. IsClear(s, st) => Landing(path, s) = <<>>
  BY <1>2, <1>3, LandingIsPath
<1>6. <<s>> \in Paths
  BY DirsArePaths
<1>7. Target(dir, s) = <<s>> \o Landing(path, s)
  BY DEF Target, path
<1>8. Target(dir, s) \in Paths /\ IsPrefix(<<s>>, Target(dir, s))
  BY <1>4, <1>6, <1>7, PathJoins
<1>9. IsClear(s, st) => Target(dir, s) = <<s>>
  BY <1>5, <1>7
<1> QED
  BY <1>8, <1>9

--------------------------------------------------------------------------------
(* What UpdateGitRepo makes of the files, path by path. *)

ValuesIn(s) == ChartIn(<<>>, s) \o <<"values.yaml">>

LEMMA ValuesByName ==
  ASSUME NEW s \in Services
  PROVE  /\ ValuesIn(s) \in Paths \ {<<>>}
         /\ \A dir \in Paths : ValuesFile(dir, s) = dir \o ValuesIn(s)
         /\ \A dir \in Paths : IsPrefix(ChartIn(dir, s), dir \o ValuesIn(s))
         /\ \A dir \in Paths : dir \o ValuesIn(s) # ChartIn(dir, s)
         /\ \A dir \in Paths : ChartIn(dir, s) \in Paths
<1> DEFINE helm == <<"helm", s>>
           file == <<"values.yaml">>
<1>1. helm \in Paths /\ file \in Paths /\ file # <<>>
  <2>1. helm \in Seq(Names) /\ file \in Seq(Names) /\ file # <<>>
    BY FixedNames
  <2> QED
    BY <2>1 DEF Paths
<1>2. ValuesIn(s) = helm \o file
  <2>1. ChartIn(<<>>, s) = helm
    <3>1. helm \in Seq(Names)
      BY FixedNames
    <3> QED
      BY <3>1, ConcatEmptySeq DEF ChartIn
  <2> QED
    BY <2>1 DEF ValuesIn
<1> HIDE DEF helm, file
<1>3. ValuesIn(s) \in Paths
  BY <1>1, <1>2, PathJoins
<1>4. ASSUME NEW dir \in Paths
      PROVE  /\ ValuesFile(dir, s) = dir \o ValuesIn(s)
             /\ IsPrefix(ChartIn(dir, s), dir \o ValuesIn(s))
             /\ dir \o ValuesIn(s) # ChartIn(dir, s)
             /\ ChartIn(dir, s) \in Paths
  <2>1. ChartIn(dir, s) = dir \o helm
    BY DEF ChartIn, helm
  <2>2. dir \o helm \in Paths
    BY <1>1, PathJoins
  <2>3. ValuesFile(dir, s) = (dir \o helm) \o file
    BY <2>1 DEF ValuesFile, file
  <2>4. (dir \o helm) \o file = dir \o (helm \o file)
    BY <1>1, PathsAssociate
  <2>5. IsPrefix(dir \o helm, (dir \o helm) \o file) /\ (dir \o helm) \o file # dir \o helm
    BY <1>1, <2>2, PathJoins
  <2> QED
    BY <1>2, <2>1, <2>2, <2>3, <2>4, <2>5
<1>5. ValuesIn(s) # <<>>
  <2>1. helm \o file = helm => file = <<>>
    BY <1>1, PathJoins
  <2>2. Len(helm) = 2 /\ Len(file) = 1
    BY DEF helm, file
  <2>3. Len(helm \o file) = 3
    <3>1. helm \in Seq(Names) /\ file \in Seq(Names)
      BY <1>1 DEF Paths
    <3>2. Len(helm \o file) = Len(helm) + Len(file)
      BY <3>1, ConcatProperties
    <3> QED
      BY <2>2, <3>2
  <2> QED
    BY <1>2, <2>3
<1> QED
  BY <1>3, <1>4, <1>5

(* The values that mergeHelmValues writes, if it does. *)
MergedIn(source, s, st) ==
  Merged(FileAt(source, ValuesFile(Base(s), s)), FileAt(source, ValuesFile(StageOf(st, s), s)))
Merges(source, s, st) ==
  MergedIn(source, s, st) # NoFile /\ Exists(source, ChartIn(StageOf(st, s), s))

LEMMA MergedByPath ==
  ASSUME NEW s \in Services, NEW st \in Stages, NEW source, DOMAIN source \subseteq Paths,
         NEW new, new = mergeHelmValues(source, s, st)
  PROVE  /\ DOMAIN new \subseteq Paths
         /\ \A p \in Paths : ~Merges(source, s, st) \/ p # StageOf(st, s) \o ValuesIn(s) =>
              /\ p \in DOMAIN new <=> p \in DOMAIN source
              /\ p \in DOMAIN source => new[p] = source[p]
         /\ Merges(source, s, st) =>
              /\ StageOf(st, s) \o ValuesIn(s) \in DOMAIN new
              /\ new[StageOf(st, s) \o ValuesIn(s)] = MergedIn(source, s, st)
<1>1. StageOf(st, s) \in Paths /\ ValuesIn(s) \in Paths
  BY DirsArePaths, ValuesByName
<1>2. ValuesFile(StageOf(st, s), s) = StageOf(st, s) \o ValuesIn(s)
  BY <1>1, ValuesByName
<1>3. StageOf(st, s) \o ValuesIn(s) \in Paths
  BY <1>1, PathJoins
<1>4. new = IF Merges(source, s, st)
              THEN Write(source, StageOf(st, s) \o ValuesIn(s), MergedIn(source, s, st))
              ELSE source
  BY <1>2 DEF mergeHelmValues, Merges, MergedIn
<1>5. CASE Merges(source, s, st)
  <2>1. PICK path, value : path = StageOf(st, s) \o ValuesIn(s) /\ value = MergedIn(source, s, st)
    OBVIOUS
  <2>2. new = Write(source, path, value)
    BY <1>4, <1>5, <2>1
  <2>3. /\ DOMAIN new = DOMAIN source \union {path}
        /\ \A p \in DOMAIN new : new[p] = IF p = path THEN value ELSE source[p]
    BY <2>2 DEF Write
  <2> QED
    BY <1>3, <1>5, <2>1, <2>3
<1>6. CASE ~Merges(source, s, st)
  BY <1>4, <1>6
<1> QED
  BY <1>5, <1>6

(* The version is put into one file. *)
Labelled(file, version) == [file EXCEPT !.version = version]

LEMMA ReplacedByPath ==
  ASSUME NEW tree, NEW path, NEW version, NEW new, new = ReplaceInFile(tree, path, version)
  PROVE  /\ DOMAIN new = DOMAIN tree
         /\ \A p \in DOMAIN tree :
              new[p] = IF p = path THEN Labelled(tree[p], version) ELSE tree[p]
  BY DEF ReplaceInFile, Labelled

(* Where base and stage are copied to. *)
LEMMA MovedByPath ==
  ASSUME NEW s \in Services, NEW st \in Stages, NEW source, DOMAIN source \subseteq Paths,
         NEW target, DOMAIN target \subseteq Paths,
         NEW new, new = performFileMove(source, RemoveAll(target, <<s>>), s, st)
  PROVE  /\ DOMAIN new \subseteq Paths
         /\ \A p \in Paths : ~IsPrefix(<<s>>, p) =>
              /\ p \in DOMAIN new <=> p \in DOMAIN target
              /\ p \in DOMAIN target => new[p] = target[p]
         /\ IsClear(s, st) => \A q \in Paths \ {<<>>} :
              /\ <<s>> \o q \in DOMAIN new <=>
                   StageOf(st, s) \o q \in DOMAIN source \/ Base(s) \o q \in DOMAIN source
              /\ StageOf(st, s) \o q \in DOMAIN source => new[<<s>> \o q] = source[StageOf(st, s) \o q]
              /\ StageOf(st, s) \o q \notin DOMAIN source /\ Base(s) \o q \in DOMAIN source =>
                   new[<<s>> \o q] = source[Base(s) \o q]
<1> DEFINE cleared == RemoveAll(target, <<s>>)
           one == Target(Base(s), s)
           two == Target(StageOf(st, s), s)
           plain == CopyDir(source, Base(s), cleared, one)
<1>1. PICK based : based = plain
  OBVIOUS
<1>2. new = CopyDir(source, StageOf(st, s), based, two)
  BY <1>1 DEF performFileMove, moveFiles, Target
<1>3. /\ Base(s) \in Paths /\ StageOf(st, s) \in Paths /\ <<s>> \in Paths
      /\ one \in Paths /\ two \in Paths
      /\ IsPrefix(<<s>>, one) /\ IsPrefix(<<s>>, two)
      /\ IsClear(s, st) => one = <<s>> /\ two = <<s>>
  BY DirsArePaths, TargetOf
<1>4. /\ DOMAIN cleared \subseteq DOMAIN target
      /\ \A p : p \in DOMAIN cleared <=> p \in DOMAIN target /\ ~IsPrefix(<<s>>, p)
      /\ \A p \in DOMAIN cleared : cleared[p] = target[p]
  BY RemoveAllByPath
<1> HIDE DEF cleared, one, two
<1>5. DOMAIN cleared \subseteq Paths
  BY <1>4
<1>6. /\ DOMAIN based \subseteq Paths
      /\ \A p \in Paths : ~IsPrefix(one, p) \/ p = one =>
           /\ p \in DOMAIN based <=> p \in DOMAIN cleared
           /\ p \in DOMAIN cleared => based[p] = cleared[p]
      /\ \A q \in Paths \ {<<>>} :
           /\ one \o q \in DOMAIN based <=> Base(s) \o q \in DOMAIN source \/ one \o q \in DOMAIN cleared
           /\ Base(s) \o q \in DOMAIN source => based[one \o q] = source[Base(s) \o q]
           /\ Base(s) \o q \notin DOMAIN source /\ one \o q \in DOMAIN cleared => based[one \o q] = cleared[one \o q]
  BY <1>1, <1>3, <1>5, CopyByPath
<1>7. DOMAIN based \subseteq Paths
  BY <1>6
<1>8. /\ DOMAIN new \subseteq Paths
      /\ \A p \in Paths : ~IsPrefix(two, p) \/ p = two =>
           /\ p \in DOMAIN new <=> p \in DOMAIN based
           /\ p \in DOMAIN based => new[p] = based[p]
      /\ \A q \in Paths \ {<<>>} :
           /\ two \o q \in DOMAIN new <=> StageOf(st, s) \o q \in DOMAIN source \/ two \o q \in DOMAIN based
           /\ StageOf(st, s) \o q \in DOMAIN source => new[two \o q] = source[StageOf(st, s) \o q]
           /\ StageOf(st, s) \o q \notin DOMAIN source /\ two \o q \in DOMAIN based => new[two \o q] = based[two \o q]
  <2>1. PICK moved : moved = CopyDir(source, StageOf(st, s), based, two)
    OBVIOUS
  <2>2. /\ DOMAIN moved \subseteq Paths
        /\ \A p \in Paths : ~IsPrefix(two, p) \/ p = two =>
             /\ p \in DOMAIN moved <=> p \in DOMAIN based
             /\ p \in DOMAIN based => moved[p] = based[p]
        /\ \A q \in Paths \ {<<>>} :
             /\ two \o q \in DOMAIN moved <=> StageOf(st, s) \o q \in DOMAIN source \/ two \o q \in DOMAIN based
             /\ StageOf(st, s) \o q \in DOMAIN source => moved[two \o q] = source[StageOf(st, s) \o q]
             /\ StageOf(st, s) \o q \notin DOMAIN source /\ two \o q \in DOMAIN based =>
                  moved[two \o q] = based[two \o q]
    BY <1>3, <1>7, <2>1, CopyByPath
  <2> QED
    BY <1>2, <2>1, <2>2
<1>9. ASSUME NEW p \in Paths, ~IsPrefix(<<s>>, p)
      PROVE  /\ p \in DOMAIN new <=> p \in DOMAIN target
             /\ p \in DOMAIN target => new[p] = target[p]
  <2>1. ~IsPrefix(one, p) /\ ~IsPrefix(two, p)
    BY <1>3, <1>9, PrefixIsTransitive
  <2> QED
    BY <1>4, <1>6, <1>8, <1>9, <2>1
<1>10. ASSUME IsClear(s, st), NEW q \in Paths \ {<<>>}
       PROVE  /\ <<s>> \o q \in DOMAIN new <=>
                   StageOf(st, s) \o q \in DOMAIN source \/ Base(s) \o q \in DOMAIN source
              /\ StageOf(st, s) \o q \in DOMAIN source => new[<<s>> \o q] = source[StageOf(st, s) \o q]
              /\ StageOf(st, s) \o q \notin DOMAIN source /\ Base(s) \o q \in DOMAIN source =>
                   new[<<s>> \o q] = source[Base(s) \o q]
  <2>1. <<s>> \o q \notin DOMAIN cleared
    BY <1>3, <1>4, PathJoins
  <2> QED
    BY <1>3, <1>6, <1>8, <1>10, <2>1
<1> QED
  BY <1>8, <1>9, <1>10

LEMMA JoinsCancel ==
  ASSUME NEW d \in Paths, NEW q \in Paths, NEW r \in Paths, d \o q = d \o r
  PROVE  q = r
<1>1. Inside(d \o q, d) = q /\ Inside(d \o r, d) = r
  BY PathJoins
<1> QED
  BY <1>1

(* The values.yaml files of charts come from the workspaces. *)
HasGivenValues(tree) ==
  \A p \in DOMAIN tree : Len(p) > 4 /\ Last(p) = "values.yaml" => tree[p] \in ValuesGiven

LEMMA LongerIsOther ==
  ASSUME NEW p, NEW d, Len(p) > 4, Len(d) \in 0..4
  PROVE  p # d
<1>1. ASSUME p = d PROVE FALSE
  <2>1. Len(p) = Len(d)
    BY <1>1
  <2> QED
    BY <2>1
<1> QED
  BY <1>1

LEMMA ValuesAreLong ==
  ASSUME NEW s \in Services, NEW st \in Stages, NEW dir \in {Base(s), StageOf(st, s)}
  PROVE  Len(dir \o ValuesIn(s)) > 4 /\ Last(dir \o ValuesIn(s)) = "values.yaml"
<1> DEFINE helm == <<"helm", s>>
           file == <<"values.yaml">>
<1>1. dir \in Paths /\ Len(dir) \in {2, 3}
  BY DirsArePaths DEF Base, StageOf
<1>2. helm \in Paths /\ file \in Paths \ {<<>>} /\ Len(helm) = 2 /\ Len(file) = 1 /\ Last(file) = "values.yaml"
  <2>1. helm \in Seq(Names) /\ file \in Seq(Names) /\ file # <<>>
    BY FixedNames
  <2> QED
    BY <2>1 DEF Paths, Last
<1>3. ValuesIn(s) = helm \o file
  <2>1. helm \in Seq(Names)
    BY FixedNames
  <2>2. ChartIn(<<>>, s) = helm
    BY <2>1, ConcatEmptySeq DEF ChartIn
  <2> QED
    BY <2>2 DEF ValuesIn
<1> HIDE DEF helm, file
<1>4. dir \in Seq(Names) /\ helm \in Seq(Names) /\ file \in Seq(Names)
  BY <1>1, <1>2 DEF Paths
<1>5. PICK values : values = helm \o file
  OBVIOUS
<1>6. Len(values) = 3 /\ values \in Seq(Names) /\ Len(dir \o values) = Len(dir) + 3
  <2>1. values \in Seq(Names) /\ Len(values) = Len(helm) + Len(file)
    BY <1>4, <1>5, ConcatProperties
  <2>2. Len(dir \o values) = Len(dir) + Len(values)
    BY <1>4, <2>1, ConcatProperties
  <2> QED
    BY <1>2, <2>1, <2>2
<1>7. Last(values) = "values.yaml" /\ values \in Paths \ {<<>>}
  <2>1. Last(values) = Last(file)
    BY <1>2, <1>5, LastOfPath
  <2>2. values # <<>>
    BY <1>6
  <2> QED
    BY <1>2, <1>6, <2>1, <2>2 DEF Paths
<1>8. Last(dir \o values) = "values.yaml"
  <2>1. Last(dir \o values) = Last(values)
    BY <1>1, <1>7, LastOfPath
  <2> QED
    BY <1>7, <2>1
<1>9. Len(dir \o values) > 4
  <2>1. PICK n \in {2, 3} : n = Len(dir)
    BY <1>1
  <2>2. Len(dir \o values) = n + 3
    BY <1>6, <2>1
  <2>3. n + 3 > 4
    BY <2>1
  <2> QED
    BY <2>2, <2>3
<1> QED
  BY <1>3, <1>5, <1>8, <1>9

(* What is merged comes from the files that are there. *)
LEMMA MergedFrom ==
  ASSUME NEW s \in Services, NEW st \in Stages,
         NEW source, DOMAIN source \subseteq Paths, HasGivenValues(source)
  PROVE  /\ MergedIn(source, s, st) # NoFile =>
              \/ Base(s) \o ValuesIn(s) \in DOMAIN source
              \/ StageOf(st, s) \o ValuesIn(s) \in DOMAIN source
         /\ MergedIn(source, s, st) # NoFile /\ ~Merges(source, s, st) =>
              /\ StageOf(st, s) \o ValuesIn(s) \notin DOMAIN source
              /\ MergedIn(source, s, st) = source[Base(s) \o ValuesIn(s)]
<1> DEFINE below == Base(s) \o ValuesIn(s)
           above == StageOf(st, s) \o ValuesIn(s)
<1>1. Base(s) \in Paths /\ StageOf(st, s) \in Paths /\ ValuesIn(s) \in Paths
  BY DirsArePaths, ValuesByName
<1>2. ValuesFile(Base(s), s) = below /\ ValuesFile(StageOf(st, s), s) = above
  BY <1>1, ValuesByName
<1>3. MergedIn(source, s, st) = Merged(FileAt(source, below), FileAt(source, above))
  BY <1>2 DEF MergedIn
<1>6. FileAt(source, below) \in ValuesGiven \union {NoFile}
  BY ValuesAreLong DEF FileAt, HasGivenValues
<1>4. ASSUME above \notin DOMAIN source
      PROVE  MergedIn(source, s, st) \in {FileAt(source, below), NoFile}
  <2>1. FileAt(source, above) = NoFile
    BY <1>4 DEF FileAt
  <2> QED
    BY <1>3, <1>6, <2>1, MergeAssumption
<1>5. ASSUME above \in DOMAIN source PROVE Exists(source, ChartIn(StageOf(st, s), s))
  <2>1. /\ ChartIn(StageOf(st, s), s) \in Paths
        /\ IsPrefix(ChartIn(StageOf(st, s), s), above) /\ above # ChartIn(StageOf(st, s), s)
    BY <1>1, ValuesByName
  <2> QED
    BY <1>5, <2>1 DEF Exists, Below, IsStrictPrefix
<1> QED
  BY <1>4, <1>5 DEF Merges, FileAt

(* A file of the release as it should be in the stage. *)
FileOf(source, s, st, version, q) ==
  LET base == Base(s) \o q  stage == StageOf(st, s) \o q
      over == IF stage \in DOMAIN source THEN source[stage] ELSE source[base]
      merged == MergedIn(source, s, st)
  IN  IF q # ValuesIn(s) THEN over
      ELSE Labelled(IF merged = NoFile THEN over ELSE merged, version)

LEMMA PromotedByPath ==
  ASSUME NEW s \in Services, NEW st \in Stages,
         NEW source, DOMAIN source \subseteq Paths, HasGivenValues(source),
         NEW target, DOMAIN target \subseteq Paths,
         NEW version, NEW new, new = UpdateFiles(source, target, s, st, version)
  PROVE  /\ DOMAIN new \subseteq Paths
         /\ \A p \in Paths : ~IsPrefix(<<s>>, p) =>
              /\ p \in DOMAIN new <=> p \in DOMAIN target
              /\ p \in DOMAIN target => new[p] = target[p]
         /\ IsClear(s, st) => \A q \in Paths \ {<<>>} :
              LET there == Base(s) \o q \in DOMAIN source \/ StageOf(st, s) \o q \in DOMAIN source
              IN  /\ <<s>> \o q \in DOMAIN new <=> there
                  /\ there => new[<<s>> \o q] = FileOf(source, s, st, version, q)
<1>1. PICK mixed : mixed = mergeHelmValues(source, s, st)
  OBVIOUS
<1>2. PICK moved : moved = performFileMove(mixed, RemoveAll(target, <<s>>), s, st)
  OBVIOUS
<1>3. /\ Base(s) \in Paths /\ StageOf(st, s) \in Paths /\ <<s>> \in Paths
      /\ ValuesIn(s) \in Paths \ {<<>>}
      /\ ValuesFile(<<s>>, s) = <<s>> \o ValuesIn(s)
  BY DirsArePaths, ValuesByName
<1> DEFINE values == <<s>> \o ValuesIn(s)
           above == StageOf(st, s) \o ValuesIn(s)
           below == Base(s) \o ValuesIn(s)
           merged == MergedIn(source, s, st)
<1>4. new = ReplaceInFile(moved, values, version)
  BY <1>1, <1>2, <1>3 DEF UpdateFiles
<1>5. /\ values \in Paths /\ above \in Paths /\ below \in Paths
      /\ IsPrefix(<<s>>, values)
      /\ \A q \in Paths : <<s>> \o q = values => q = ValuesIn(s)
      /\ \A q \in Paths : StageOf(st, s) \o q = above => q = ValuesIn(s)
  <2>1. /\ values \in Paths /\ above \in Paths /\ below \in Paths
        /\ IsPrefix(<<s>>, values)
    BY <1>3, PathJoins
  <2>2. ASSUME NEW q \in Paths, NEW dir \in Paths, dir \o q = dir \o ValuesIn(s)
        PROVE  q = ValuesIn(s)
    BY <1>3, <2>2, JoinsCancel
  <2> QED
    BY <1>3, <2>1, <2>2
<1>6. /\ DOMAIN mixed \subseteq Paths
      /\ \A p \in Paths : ~Merges(source, s, st) \/ p # above =>
           /\ p \in DOMAIN mixed <=> p \in DOMAIN source
           /\ p \in DOMAIN source => mixed[p] = source[p]
      /\ Merges(source, s, st) => above \in DOMAIN mixed /\ mixed[above] = merged
  BY <1>1, MergedByPath
<1>7. DOMAIN mixed \subseteq Paths
  BY <1>6
<1>8. /\ DOMAIN moved \subseteq Paths
      /\ \A p \in Paths : ~IsPrefix(<<s>>, p) =>
           /\ p \in DOMAIN moved <=> p \in DOMAIN target
           /\ p \in DOMAIN target => moved[p] = target[p]
      /\ IsClear(s, st) => \A q \in Paths \ {<<>>} :
           /\ <<s>> \o q \in DOMAIN moved <=>
                StageOf(st, s) \o q \in DOMAIN mixed \/ Base(s) \o q \in DOMAIN mixed
           /\ StageOf(st, s) \o q \in DOMAIN mixed => moved[<<s>> \o q] = mixed[StageOf(st, s) \o q]
           /\ StageOf(st, s) \o q \notin DOMAIN mixed /\ Base(s) \o q \in DOMAIN mixed =>
                moved[<<s>> \o q] = mixed[Base(s) \o q]
  BY <1>2, <1>7, MovedByPath
<1>9. /\ DOMAIN new = DOMAIN moved
      /\ \A p \in DOMAIN moved :
           new[p] = IF p = values THEN Labelled(moved[p], version) ELSE moved[p]
  <2>1. PICK path : path = values
    OBVIOUS
  <2>2. PICK done : done = ReplaceInFile(moved, path, version)
    OBVIOUS
  <2>3. /\ DOMAIN done = DOMAIN moved
        /\ \A p \in DOMAIN moved :
             done[p] = IF p = path THEN Labelled(moved[p], version) ELSE moved[p]
    BY <2>2, ReplacedByPath
  <2> QED
    BY <1>4, <2>2, <2>3, <2>1
<1>10. DOMAIN new \subseteq Paths
  BY <1>8, <1>9
<1>11. ASSUME NEW p \in Paths, ~IsPrefix(<<s>>, p)
       PROVE  /\ p \in DOMAIN new <=> p \in DOMAIN target
              /\ p \in DOMAIN target => new[p] = target[p]
  BY <1>5, <1>8, <1>9, <1>11
<1>12. /\ merged # NoFile => below \in DOMAIN source \/ above \in DOMAIN source
       /\ merged # NoFile /\ ~Merges(source, s, st) =>
            above \notin DOMAIN source /\ merged = source[below]
       /\ Merges(source, s, st) => merged # NoFile
  BY MergedFrom DEF Merges
<1>13. ASSUME NEW q \in Paths PROVE Base(s) \o q # above
  <2>1. Base(s) \o q \in Paths /\ IsPrefix(Base(s), Base(s) \o q)
    BY <1>3, PathJoins
  <2>2. IsPrefix(StageOf(st, s), above)
    BY <1>3, PathJoins
  <2>3. ~(IsPrefix(Base(s), above) /\ IsPrefix(StageOf(st, s), above))
    BY <1>5, InBase, InStage
  <2> QED
    BY <2>1, <2>2, <2>3
<1>14. ASSUME IsClear(s, st), NEW q \in Paths \ {<<>>}
       PROVE  LET there == Base(s) \o q \in DOMAIN source \/ StageOf(st, s) \o q \in DOMAIN source
              IN  /\ <<s>> \o q \in DOMAIN new <=> there
                  /\ there => new[<<s>> \o q] = FileOf(source, s, st, version, q)
  <2>1. PICK base, stage, over :
          /\ base = Base(s) \o q /\ stage = StageOf(st, s) \o q
          /\ over = IF stage \in DOMAIN source THEN source[stage] ELSE source[base]
    OBVIOUS
  <2>2. FileOf(source, s, st, version, q) =
          IF q # ValuesIn(s) THEN over
          ELSE Labelled(IF merged = NoFile THEN over ELSE merged, version)
    BY <2>1 DEF FileOf
  <2> DEFINE here == <<s>> \o q
             Result == /\ here \in DOMAIN new <=> base \in DOMAIN source \/ stage \in DOMAIN source
                       /\ base \in DOMAIN source \/ stage \in DOMAIN source =>
                            new[here] = FileOf(source, s, st, version, q)
  <2>3. base \in Paths /\ stage \in Paths /\ here \in Paths /\ base # above
    BY <1>3, <1>13, <1>14, <2>1, PathJoins
  <2>4. /\ here \in DOMAIN moved <=> stage \in DOMAIN mixed \/ base \in DOMAIN mixed
        /\ stage \in DOMAIN mixed => moved[here] = mixed[stage]
        /\ stage \notin DOMAIN mixed /\ base \in DOMAIN mixed => moved[here] = mixed[base]
    BY <1>8, <1>14, <2>1
  <2>5. /\ base \in DOMAIN mixed <=> base \in DOMAIN source
        /\ base \in DOMAIN source => mixed[base] = source[base]
    BY <1>6, <2>3
  <2>6. /\ here = values <=> q = ValuesIn(s)
        /\ stage = above <=> q = ValuesIn(s)
        /\ q = ValuesIn(s) => base = below
    BY <1>5, <1>14, <2>1
  <2> HIDE DEF values, above, below, merged, here
  <2>7. ASSUME q # ValuesIn(s) PROVE Result
    <3>1. /\ stage \in DOMAIN mixed <=> stage \in DOMAIN source
          /\ stage \in DOMAIN source => mixed[stage] = source[stage]
      BY <1>6, <2>3, <2>6, <2>7
    <3>2. here \in DOMAIN new <=> here \in DOMAIN moved
      BY <1>9
    <3>3. here \in DOMAIN new => new[here] = moved[here]
      BY <1>9, <2>6, <2>7
    <3>4. /\ here \in DOMAIN new <=> base \in DOMAIN source \/ stage \in DOMAIN source
          /\ base \in DOMAIN source \/ stage \in DOMAIN source => new[here] = over
      BY <1>14, <2>1, <2>4, <2>5, <3>1, <3>2, <3>3
    <3> QED
      BY <2>7, <2>2, <3>4
  <2>8. ASSUME q = ValuesIn(s) PROVE Result
    <3>1. stage = above /\ base = below /\ here = values
      BY <2>6, <2>8
    <3>2. CASE Merges(source, s, st)
      <4>1. stage \in DOMAIN mixed /\ mixed[stage] = merged /\ merged # NoFile
        BY <1>6, <1>12, <3>1, <3>2
      <4>2. base \in DOMAIN source \/ stage \in DOMAIN source
        BY <1>12, <3>1, <4>1
      <4>3. here \in DOMAIN moved /\ moved[here] = merged
        BY <2>4, <4>1
      <4>4. here \in DOMAIN new /\ new[here] = Labelled(merged, version)
        BY <1>9, <3>1, <4>3
      <4> QED
        BY <2>8, <2>2, <4>1, <4>2, <4>4
    <3>3. CASE ~Merges(source, s, st)
      <4>1. /\ stage \in DOMAIN mixed <=> stage \in DOMAIN source
            /\ stage \in DOMAIN source => mixed[stage] = source[stage]
        BY <1>6, <2>3, <3>3
      <4>2. /\ here \in DOMAIN moved <=> base \in DOMAIN source \/ stage \in DOMAIN source
            /\ base \in DOMAIN source \/ stage \in DOMAIN source => moved[here] = over
        BY <1>14, <2>1, <2>4, <2>5, <4>1
      <4>3. over = IF merged = NoFile THEN over ELSE merged
        BY <1>12, <1>14, <2>1, <3>1, <3>3
      <4>4. /\ here \in DOMAIN new <=> here \in DOMAIN moved
            /\ here \in DOMAIN moved => new[here] = Labelled(moved[here], version)
        BY <1>9, <3>1
      <4>5. base \in DOMAIN source \/ stage \in DOMAIN source =>
              new[here] = Labelled(IF merged = NoFile THEN over ELSE merged, version)
        BY <4>2, <4>3, <4>4
      <4> QED
        BY <2>8, <2>2, <4>2, <4>4, <4>5
    <3> QED
      BY <3>2, <3>3
  <2>9. Result
    BY <2>7, <2>8
  <2> QED
    BY <2>1, <2>9 DEF here
<1> QED
  BY <1>10, <1>11, <1>14

LEMMA PromotedPaths ==
  ASSUME NEW s \in Services, NEW st \in Stages,
         NEW source, DOMAIN source \subseteq Paths, HasGivenValues(source),
         NEW target, DOMAIN target \subseteq Paths,
         NEW version
  PROVE  DOMAIN UpdateFiles(source, target, s, st, version) \subseteq Paths
<1>1. PICK new : new = UpdateFiles(source, target, s, st, version)
  OBVIOUS
<1>2. /\ DOMAIN new \subseteq Paths
      /\ \A p \in Paths : ~IsPrefix(<<s>>, p) =>
           /\ p \in DOMAIN new <=> p \in DOMAIN target
           /\ p \in DOMAIN target => new[p] = target[p]
  BY <1>1, PromotedByPath
<1> QED
  BY <1>1, <1>2

LEMMA ReleaseIsRendered ==
  ASSUME NEW s \in Services, NEW st \in Stages, IsClear(s, st),
         NEW source, DOMAIN source \subseteq Paths, HasGivenValues(source),
         NEW target, DOMAIN target \subseteq Paths,
         NEW version
  PROVE  Branches!Contents(UpdateFiles(source, target, s, st, version), <<s>>)
           = Branches!Rendered(source, s, st, version)
<1> DEFINE base == Contents(source, Base(s))
           stage == Contents(source, StageOf(st, s))
           There == {q \in Paths \ {<<>>} :
                       Base(s) \o q \in DOMAIN source \/ StageOf(st, s) \o q \in DOMAIN source}
           file(files, path) == IF path \in DOMAIN files THEN files[path] ELSE NoFile
           over(path) == IF path \in DOMAIN stage THEN stage[path] ELSE base[path]
           merged == Merged(file(base, ValuesIn(s)), file(stage, ValuesIn(s)))
           Of(path) == IF path # ValuesIn(s) THEN over(path)
                       ELSE [(IF merged = NoFile THEN over(path) ELSE merged) EXCEPT !.version = version]
<1>1. PICK new : new = UpdateFiles(source, target, s, st, version)
  OBVIOUS
<1>2. Branches!Rendered(source, s, st, version) = [path \in DOMAIN base \union DOMAIN stage |-> Of(path)]
  BY TreesOfBranches, Zenon DEF Branches!Rendered, ValuesIn
<1>3. /\ Base(s) \in Paths /\ StageOf(st, s) \in Paths /\ <<s>> \in Paths
      /\ ValuesIn(s) \in Paths \ {<<>>}
      /\ ValuesFile(Base(s), s) = Base(s) \o ValuesIn(s)
      /\ ValuesFile(StageOf(st, s), s) = StageOf(st, s) \o ValuesIn(s)
  BY DirsArePaths, ValuesByName
<1>4. /\ DOMAIN base = {q \in Paths \ {<<>>} : Base(s) \o q \in DOMAIN source}
      /\ \A q \in DOMAIN base : base[q] = source[Base(s) \o q]
      /\ DOMAIN stage = {q \in Paths \ {<<>>} : StageOf(st, s) \o q \in DOMAIN source}
      /\ \A q \in DOMAIN stage : stage[q] = source[StageOf(st, s) \o q]
  BY <1>3, ContentsByPath
<1> HIDE DEF base, stage
<1>5. DOMAIN base \union DOMAIN stage = There
  BY <1>4
<1>6. merged = MergedIn(source, s, st)
  <2>1. /\ file(base, ValuesIn(s)) = FileAt(source, Base(s) \o ValuesIn(s))
        /\ file(stage, ValuesIn(s)) = FileAt(source, StageOf(st, s) \o ValuesIn(s))
    BY <1>3, <1>4 DEF FileAt
  <2> QED
    BY <1>3, <2>1 DEF MergedIn
<1> HIDE DEF merged
<1>7. ASSUME NEW q \in There PROVE Of(q) = FileOf(source, s, st, version, q)
  <2>1. over(q) = IF StageOf(st, s) \o q \in DOMAIN source
                    THEN source[StageOf(st, s) \o q] ELSE source[Base(s) \o q]
    BY <1>4
  <2> QED
    BY <1>6, <2>1 DEF FileOf, Labelled
<1>8. /\ DOMAIN new \subseteq Paths
      /\ \A q \in Paths \ {<<>>} :
           /\ <<s>> \o q \in DOMAIN new <=> q \in There
           /\ q \in There => new[<<s>> \o q] = FileOf(source, s, st, version, q)
  BY <1>1, PromotedByPath
<1>9. /\ DOMAIN Contents(new, <<s>>) = There
      /\ \A q \in There : Contents(new, <<s>>)[q] = FileOf(source, s, st, version, q)
  <2>1. <<s>> \in Paths /\ DOMAIN new \subseteq Paths
    BY <1>3, <1>8
  <2>2. /\ DOMAIN Contents(new, <<s>>) = {q \in Paths \ {<<>>} : <<s>> \o q \in DOMAIN new}
        /\ \A q \in DOMAIN Contents(new, <<s>>) : Contents(new, <<s>>)[q] = new[<<s>> \o q]
    BY <2>1, ContentsByPath
  <2>3. There \subseteq Paths \ {<<>>}
    OBVIOUS
  <2> HIDE DEF There
  <2> QED
    BY <1>8, <2>2, <2>3
<1>10. Contents(new, <<s>>) = [q \in There |-> FileOf(source, s, st, version, q)]
  <2>1. Contents(new, <<s>>) = [q \in DOMAIN Contents(new, <<s>>) |-> new[<<s>> \o q]]
    BY DEF Contents
  <2>2. Contents(new, <<s>>) = [q \in DOMAIN Contents(new, <<s>>) |-> Contents(new, <<s>>)[q]]
    BY <2>1
  <2> QED
    BY <1>9, <2>2
<1>11. [q \in There |-> Of(q)] = [q \in There |-> FileOf(source, s, st, version, q)]
  BY <1>7
<1> HIDE DEF Of, There
<1>12. Branches!Rendered(source, s, st, version) = [q \in There |-> Of(q)]
  BY <1>2, <1>5
<1> QED
  BY <1>1, <1>10, <1>11, <1>12, TreesOfBranches

LEMMA OthersKept ==
  ASSUME NEW s \in Services, NEW st \in Stages,
         NEW source, DOMAIN source \subseteq Paths, HasGivenValues(source),
         NEW target, DOMAIN target \subseteq Paths,
         NEW version, NEW new, new = UpdateFiles(source, target, s, st, version)
  PROVE  Branches!RemoveAll(new, <<s>>) = Branches!RemoveAll(target, <<s>>)
<1>1. /\ DOMAIN new \subseteq Paths
      /\ \A p \in Paths : ~IsPrefix(<<s>>, p) =>
           /\ p \in DOMAIN new <=> p \in DOMAIN target
           /\ p \in DOMAIN target => new[p] = target[p]
  BY PromotedByPath
<1> DEFINE left(tree) == {p \in DOMAIN tree : ~IsPrefix(<<s>>, p)}
<1>2. ASSUME NEW tree PROVE RemoveAll(tree, <<s>>) = [p \in left(tree) |-> tree[p]]
  BY DEF RemoveAll, Without, Restrict
<1>3. left(new) = left(target)
  BY <1>1
<1>4. [p \in left(target) |-> new[p]] = [p \in left(target) |-> target[p]]
  BY <1>1
<1>5. RemoveAll(new, <<s>>) = [p \in left(new) |-> new[p]]
      /\ RemoveAll(target, <<s>>) = [p \in left(target) |-> target[p]]
  BY <1>2
<1>6. RemoveAll(new, <<s>>) = RemoveAll(target, <<s>>)
  <2> HIDE DEF left
  <2> QED
    BY <1>3, <1>4, <1>5
<1> QED
  BY <1>6, TreesOfBranches

--------------------------------------------------------------------------------
(* The charts of the default branch hold the values of the workspaces. *)

LEMMA ChartsHaveGivenValues ==
  ASSUME NEW tree, NEW wd \in DOMAIN Workspaces, NEW w, w = Workspaces[wd],
         DOMAIN w \subseteq Paths, NEW d \in Deployment, CanUpdate(tree, w, d),
         NEW charted, charted = copyHelmChart(w, d)
  PROVE  HasGivenValues(charted)
<1> DEFINE helm == ChartIn(Base(d.service), d.service)
<1>1. \A p \in DOMAIN w : Last(p) = "values.yaml" => w[p] \in ValuesGiven
  BY DEF ValuesGiven, ValuesOf
<1>2. helm \in Paths /\ Len(helm) = 4
  <2>1. d.service \in Services
    BY DEF Deployment
  <2>2. helm = <<"base", d.service, "helm", d.service>>
    BY <2>1, HelmByName
  <2> QED
    BY <2>1, <2>2, DirsArePaths
<1>3. /\ DOMAIN charted \subseteq Paths
      /\ d.chart_base = <<>> => charted = w
      /\ \A p \in Paths : ~IsPrefix(helm, p) =>
           /\ p \in DOMAIN charted <=> p \in DOMAIN w
           /\ p \in DOMAIN w => charted[p] = w[p]
      /\ d.chart_base # <<>> => \A q \in Paths \ {<<>>} :
           /\ helm \o q \in DOMAIN charted <=> d.chart_base \o q \in DOMAIN w
           /\ d.chart_base \o q \in DOMAIN w => charted[helm \o q] = w[d.chart_base \o q]
  BY ChartedByPath
<1>4. ASSUME d.chart_base # <<>> PROVE d.chart_base \in Paths
  <2>1. Exists(RemoveAll(w, helm), d.chart_base)
    BY <1>4 DEF CanUpdate, CanCopyDir
  <2> QED
    BY <1>4, <2>1, ChartsApart
<1> HIDE DEF helm
<1>5. ASSUME NEW p \in DOMAIN charted, Len(p) > 4, Last(p) = "values.yaml"
      PROVE  charted[p] \in ValuesGiven
  <2>1. p \in Paths
    BY <1>3
  <2>2. CASE d.chart_base = <<>> \/ ~IsPrefix(helm, p)
    BY <1>1, <1>3, <1>5, <2>1, <2>2
  <2>3. CASE d.chart_base # <<>> /\ IsPrefix(helm, p)
    <3>1. PICK q : q = Inside(p, helm)
      OBVIOUS
    <3>2. q \in Paths \ {<<>>} /\ p = helm \o q
      <4>1. p # helm
        BY <1>2, <1>5, LongerIsOther
      <4> QED
        BY <1>2, <2>1, <2>3, <3>1, <4>1, PrefixSplits
    <3>3. /\ d.chart_base \o q \in DOMAIN w
          /\ charted[p] = w[d.chart_base \o q]
      BY <1>3, <2>3, <3>2
    <3>4. Last(d.chart_base \o q) = Last(q) /\ Last(p) = Last(q)
      BY <1>2, <1>4, <2>3, <3>2, LastOfPath
    <3> QED
      BY <1>1, <1>5, <3>3, <3>4
  <2> QED
    BY <2>2, <2>3
<1> QED
  BY <1>5 DEF HasGivenValues

LEMMA UpdatesHaveGivenValues ==
  ASSUME NEW tree, DOMAIN tree \subseteq Paths, HasGivenValues(tree),
         NEW wd \in DOMAIN Workspaces, NEW w, w = Workspaces[wd], DOMAIN w \subseteq Paths,
         NEW d \in Deployment, NEW trigger, NEW u \in UpdateRepository(tree, w, d, trigger)
  PROVE  HasGivenValues(u.tree)
<1> DEFINE s == d.service
<1>1. CASE ~d.listed
  BY <1>1 DEF UpdateRepository
<1>2. CASE d.listed
  <2>1. PICK charted : charted = copyHelmChart(w, d)
    OBVIOUS
  <2>2. /\ s \in Services
        /\ DOMAIN u.tree \subseteq Paths
        /\ CanUpdate(tree, w, d)
        /\ IsUpdated(u.tree, tree, charted, s, u.version)
    BY <1>2, <2>1, UpdatedByPath DEF Deployment
  <2>3. HasGivenValues(charted)
    BY <2>1, <2>2, ChartsHaveGivenValues
  <2> HIDE DEF s
  <2>4. Base(s) \in Paths /\ \A st \in Stages : StageOf(st, s) \in Paths
    BY <2>2, DirsArePaths
  <2>5. ASSUME NEW p \in DOMAIN u.tree, Len(p) > 4, Last(p) = "values.yaml"
        PROVE  u.tree[p] \in ValuesGiven
    <3>1. p \in Paths /\ p # Config
      <4>1. Len(Config) = 2
        BY DEF Config
      <4> QED
        BY <2>2, <2>5, <4>1, LongerIsOther
    <3>2. CASE \A dir \in OwnDirs(s) : ~IsPrefix(dir, p)
      BY <2>2, <2>5, <3>1, <3>2 DEF IsUpdated, HasGivenValues
    <3>3. CASE IsPrefix(Base(s), p)
      <4>1. PICK q : q = Inside(p, Base(s))
        OBVIOUS
      <4>2. Len(Base(s)) = 2 /\ Len(Metadata(s)) = 4
        <5>1. Metadata(s) = <<"base", s, "metadata", "deployment.yaml">>
          BY <2>2, FilesByName
        <5> QED
          BY <5>1 DEF Base
      <4>3. p # Base(s) /\ p # Metadata(s)
        BY <2>5, <4>2, LongerIsOther
      <4>4. q \in Paths \ {<<>>} /\ p = Base(s) \o q
        BY <2>4, <3>1, <3>3, <4>1, <4>3, PrefixSplits
      <4>5. q # <<"metadata", "deployment.yaml">>
        BY <2>2, <4>3, <4>4, FilesByName
      <4> QED
        BY <2>2, <2>3, <2>5, <4>4, <4>5 DEF IsUpdated, HasGivenValues
    <3>4. ASSUME NEW st \in Stages, IsPrefix(StageOf(st, s), p)
          PROVE  u.tree[p] \in ValuesGiven
      <4>1. PICK q : q = Inside(p, StageOf(st, s))
        OBVIOUS
      <4>2. q \in Paths \ {<<>>} /\ p = StageOf(st, s) \o q
        <5>1. Len(StageOf(st, s)) = 3
          BY DEF StageOf
        <5>2. p # StageOf(st, s)
          BY <2>5, <5>1, LongerIsOther
        <5> QED
          BY <2>4, <3>1, <3>4, <4>1, <5>2, PrefixSplits
      <4>3. PICK given \in {charted, tree} :
              p \in DOMAIN given /\ u.tree[p] = given[p]
        BY <2>2, <2>5, <4>2 DEF IsUpdated
      <4> QED
        BY <2>3, <2>5, <4>3 DEF HasGivenValues
    <3> QED
      BY <2>2, <3>1, <3>2, <3>3, <3>4, OwnDirsByPath
  <2> QED
    BY <2>5 DEF HasGivenValues
<1> QED
  BY <1>1, <1>2

GivenInv == MasterInv /\ \A i \in DOMAIN master : HasGivenValues(master[i])

LEMMA GivenInit ==
  ASSUME Init
  PROVE  GivenInv
<1>1. HasGivenValues(Initial)
  BY DEF HasGivenValues, ValuesGiven, ValuesOf
<1> QED
  BY <1>1, MasterInit DEF Init, GivenInv

LEMMA GivenStep ==
  ASSUME GivenInv, PromotionInv', [Next]_vars
  PROVE  GivenInv'
<1>1. MasterInv /\ MasterInv' /\ ShapeOK'
  BY MasterStep DEF GivenInv, PromotionInv
<1>2. CASE UNCHANGED master
  BY <1>1, <1>2 DEF GivenInv
<1>3. ASSUME NEW j \in Jobs, Publishes(j)
      PROVE  GivenInv'
  <2> DEFINE trigger == getStageAndSequence(Last(master), call[j])
             all     == UpdateRepository(Last(master), Workspaces[call[j].workspace], call[j], trigger)
  <2>1. PICK u \in all : master' = Append(master, u.tree)
    BY <1>3 DEF Publishes
  <2>2. /\ Len(master) \in Nat \ {0} /\ DOMAIN master = 1..Len(master) /\ IsSeq(master)
        /\ Last(master) = master[Len(master)]
    BY <1>1, LastIsRepository, LastOfSeq DEF MasterInv, ShapeOK, MasterOK
  <2>3. HasGivenValues(u.tree)
    <3>1. DOMAIN Last(master) \subseteq Paths /\ HasGivenValues(Last(master))
      BY <2>2 DEF GivenInv, MasterInv, IsRepository
    <3>2. /\ call[j] \in Deployment /\ call[j].workspace \in DOMAIN Workspaces
          /\ DOMAIN Workspaces[call[j].workspace] \subseteq Paths
      BY <1>1, CallOfJob DEF MasterInv, Deployment
    <3> QED
      BY <3>1, <3>2, UpdatesHaveGivenValues
  <2>4. /\ Len(master') = Len(master) + 1 /\ DOMAIN master' = 1..Len(master')
        /\ master'[Len(master) + 1] = u.tree
        /\ \A i \in 1..Len(master) : master'[i] = master[i]
    BY <1>1, <2>1, <2>2, AppendIsSeq, DomainOfSeq DEF MasterInv, ShapeOK, MasterOK
  <2>5. ASSUME NEW i \in DOMAIN master' PROVE HasGivenValues(master'[i])
    <3>1. i \in DOMAIN master \/ i = Len(master) + 1
      BY <2>2, <2>4
    <3> QED
      BY <2>2, <2>3, <2>4, <3>1 DEF GivenInv
  <2> QED
    BY <1>1, <2>5 DEF GivenInv
<1>4. UNCHANGED master \/ \E j \in Jobs : Publishes(j)
  BY DeployPublishes DEF Next, Tag, Receive, Handle, GetGitSecret, CloneRelease, CloneStage,
     Push, Finish, Restart, vars, jobVars
<1> QED
  BY <1>2, <1>3, <1>4

LEMMA GivenInvariant == Spec => []GivenInv
  BY GivenInit, GivenStep, PromotionInvariant, PTL DEF Spec

--------------------------------------------------------------------------------
(* What a handler is about to push is what it cloned, or its release on it. *)

FilesFit(p) ==
  handler[p].step = "push" /\ handler[p].committed =>
    LET below == branch[request[p].stage][handler[p].base].files IN
    handler[p].files = below \/ handler[p].files = Promoted(p, below)

TreesArePaths ==
  \A st \in Stages : \A i \in 1..Len(branch[st]) : DOMAIN branch[st][i].files \subseteq Paths

StageInv ==
  /\ GivenInv /\ PromotionInv
  /\ TreesArePaths
  /\ \A p \in Promotions : FilesFit(p)

LEMMA StageInit ==
  ASSUME Init
  PROVE  StageInv
<1>1. \A p \in Promotions : FilesFit(p)
  BY DEF Init, Memory, FilesFit
<1>2. TreesArePaths
  <2>1. ASSUME NEW st \in Stages, NEW i \in 1..Len(branch[st])
        PROVE  DOMAIN branch[st][i].files \subseteq Paths
    <3> DEFINE commit == [by |-> Nobody, files |-> StageBranches[st]]
    <3>1. branch[st] = IF st \in DOMAIN StageBranches THEN <<commit>> ELSE <<>>
      BY DEF Init
    <3>2. commit.files = StageBranches[st]
      OBVIOUS
    <3> HIDE DEF commit
    <3>3. st \in DOMAIN StageBranches /\ branch[st][i] = commit
      BY <2>1, <3>1
    <3> QED
      BY <3>2, <3>3, GivenArePaths
  <2> QED
    BY <2>1 DEF TreesArePaths
<1> QED
  BY <1>1, <1>2, GivenInit, PromotionInit DEF StageInv

LEMMA FilesKept ==
  ASSUME StageInv, ShapeOK', Grows, NEW p \in Promotions, handler'[p] = handler[p]
  PROVE  FilesFit(p)'
<1>1. PICK st \in Stages : st = request[p].stage /\ st = request'[p].stage
  BY StageOfRequest DEF Grows, StageInv, PromotionInv
<1>2. ASSUME handler[p].step = "push", handler[p].committed
      PROVE  \/ handler[p].files = branch'[st][handler[p].base].files
             \/ handler[p].files = Promoted(p, branch[st][handler[p].base].files)'
  <2>1. PICK base : base = handler[p].base
    OBVIOUS
  <2>2. PICK below : below = branch[st][base].files
    OBVIOUS
  <2>3. tags[ReleaseOf(p)] # 0 /\ base \in 1..Len(branch[st])
    BY <1>1, <1>2, <2>1 DEF StageInv, PromotionInv, HandlerOK, WorkFits
  <2>4. branch'[st][base].files = below
    BY <2>2, <2>3, BranchKept DEF StageInv, PromotionInv
  <2>5. handler[p].files = below \/ handler[p].files = Promoted(p, below)
    BY <1>1, <1>2, <2>1, <2>2 DEF StageInv, FilesFit
  <2>6. (Promoted(p, below))' = Promoted(p, below)
    BY <2>3, ReleaseKept DEF StageInv, PromotionInv
  <2>7. (Promoted(p, branch[st][handler[p].base].files))' = (Promoted(p, below))'
    BY <2>1, <2>4 DEF Promoted
  <2> QED
    BY <2>1, <2>4, <2>5, <2>6, <2>7
<1> QED
  BY <1>1, <1>2 DEF FilesFit

LEMMA FilesFitOwnStep ==
  ASSUME StageInv, ShapeOK', Grows, NEW p \in Promotions, Receive(p) \/ Handle(p)
  PROVE  FilesFit(p)'
<1>1. ShapeOK
  BY DEF StageInv, PromotionInv
<1>2. ASSUME NEW step, step # "push", handler' = Moved(p, step) PROVE FilesFit(p)'
  BY <1>1, <1>2, MovedHandler DEF FilesFit
<1>3. PICK st \in Stages : st = request[p].stage
  BY <1>1, StageOfRequest
<1>4. ASSUME UNCHANGED jobVars, branch[st] # <<>>, NEW committed, NEW files, Commits(p, committed, files),
             \/ ~committed
             \/ files \in {Last(branch[st]).files, Promoted(p, Last(branch[st]).files)}
      PROVE  FilesFit(p)'
  <2>1. /\ handler'[p].step = "push" /\ handler'[p].committed = committed
        /\ handler'[p].base = Len(branch[st]) /\ handler'[p].files = files
        /\ UNCHANGED <<branch, request>>
    BY <1>1, <1>3, <1>4, QuietCommit DEF Height
  <2>2. PICK below : below = Last(branch[st]).files
    OBVIOUS
  <2>3. below = branch[st][Len(branch[st])].files
    BY <1>1, <1>4, <2>2, LastOfSeq DEF ShapeOK, BranchesOK
  <2>4. (Promoted(p, below))' = Promoted(p, below)
    BY <1>4, <2>1 DEF Promoted, ReleaseOf, jobVars
  <2>5. branch'[request'[p].stage][handler'[p].base].files = below
    BY <1>3, <2>1, <2>3
  <2>6. (Promoted(p, branch[request[p].stage][handler[p].base].files))' = (Promoted(p, below))'
    BY <2>5 DEF Promoted
  <2> QED
    BY <1>4, <2>1, <2>2, <2>4, <2>5, <2>6 DEF FilesFit
<1>5. CASE Receive(p)
  BY <1>2, <1>5 DEF Receive, Goes
<1>6. CASE GetGitSecret(p)
  BY <1>2, <1>6 DEF GetGitSecret, Goes
<1>7. CASE CloneRelease(p)
  BY <1>2, <1>7 DEF CloneRelease, Goes
<1>8. CASE CloneStage(p)
  <2>1. UNCHANGED jobVars
    BY <1>8 DEF CloneStage
  <2>2. CASE Goes(p, "errored")
    BY <1>2, <2>2 DEF Goes
  <2>3. ASSUME branch[st] # <<>>, NEW committed, NEW files, Commits(p, committed, files),
               <<committed, files>> \in {<<TRUE, Edited(p)>>, <<TRUE, Last(branch[st]).files>>,
                                         <<FALSE, NoFiles>>}
        PROVE  FilesFit(p)'
    BY <1>3, <1>4, <2>1, <2>3 DEF Edited
  <2> QED
    BY <1>3, <1>8, <2>2, <2>3 DEF CloneStage
<1>9. CASE Push(p)
  BY <1>2, <1>9 DEF Push
<1>10. CASE Finish(p)
  BY <1>2, <1>10 DEF Finish, Goes
<1> QED
  BY <1>5, <1>6, <1>7, <1>8, <1>9, <1>10 DEF Handle

(* What is pushed is the tree before it, or its release is moved into that. *)
LEMMA PushMoves ==
  ASSUME StageInv, NEW p \in Promotions,
         handler[p].step = "push", handler[p].committed,
         NEW st, st = request[p].stage, handler[p].base = Len(branch[st]),
         NEW s, s = request[p].service, NEW version, version = request[p].version,
         NEW old, old = branch[st][Len(branch[st])].files, NEW new, new = handler[p].files,
         NEW source, source = master[tags[ReleaseOf(p)]]
  PROVE  /\ Len(branch[st]) \in Nat \ {0} /\ st \in Stages /\ s \in Services
         /\ ReleaseOf(p) \in Release /\ tags[ReleaseOf(p)] # 0
         /\ DOMAIN source \subseteq Paths /\ HasGivenValues(source)
         /\ DOMAIN old \subseteq Paths
         /\ new = old \/ new = UpdateFiles(source, old, s, st, version)
<1>1. /\ st \in Stages /\ s \in Services /\ ReleaseOf(p) \in Release
      /\ Len(branch[st]) \in Nat
  BY StageOfRequest DEF StageInv, PromotionInv, ShapeOK, HandlersOK, Request
<1>2. tags[ReleaseOf(p)] # 0 /\ Len(branch[st]) \in 1..Len(branch[st])
  BY DEF StageInv, PromotionInv, HandlerOK, WorkFits
<1>3. DOMAIN source \subseteq Paths /\ HasGivenValues(source)
  <2>1. tags[ReleaseOf(p)] \in DOMAIN master
    <3>1. tags[ReleaseOf(p)] \in 0..Len(master)
      BY <1>1 DEF StageInv, GivenInv, MasterInv, ShapeOK, MasterOK
    <3>2. DOMAIN master = 1..Len(master) /\ Len(master) \in Nat
      BY LastIsRepository DEF StageInv, GivenInv
    <3> QED
      BY <1>2, <3>1, <3>2
  <2> QED
    BY <2>1 DEF StageInv, GivenInv, MasterInv, IsRepository
<1>4. DOMAIN old \subseteq Paths
  BY <1>1, <1>2 DEF StageInv, TreesArePaths
<1>5. new = old \/ new = UpdateFiles(source, old, s, st, version)
  BY DEF StageInv, FilesFit, Promoted
<1>6. Len(branch[st]) \in Nat \ {0}
  BY <1>1, <1>2
<1> QED
  BY <1>1, <1>2, <1>3, <1>4, <1>5, <1>6

(* What is pushed is the tree before it, or its release is put there. *)
LEMMA PushFits ==
  ASSUME StageInv, NEW p \in Promotions,
         handler[p].step = "push", handler[p].committed,
         NEW st, st = request[p].stage, handler[p].base = Len(branch[st]),
         NEW s, s = request[p].service, NEW version, version = request[p].version,
         NEW old, old = branch[st][Len(branch[st])].files, NEW new, new = handler[p].files,
         NEW source, source = master[tags[ReleaseOf(p)]]
  PROVE  /\ Len(branch[st]) \in Nat \ {0}
         /\ ReleaseOf(p) \in Release /\ tags[ReleaseOf(p)] # 0
         /\ DOMAIN new \subseteq Paths
         /\ \/ new = old
            \/ /\ Branches!RemoveAll(new, <<s>>) = Branches!RemoveAll(old, <<s>>)
               /\ <<s, st>> \in Clear =>
                    Branches!Contents(new, <<s>>) = Branches!Rendered(source, s, st, version)
<1>1. /\ Len(branch[st]) \in Nat \ {0} /\ st \in Stages /\ s \in Services
      /\ ReleaseOf(p) \in Release /\ tags[ReleaseOf(p)] # 0
      /\ DOMAIN source \subseteq Paths /\ HasGivenValues(source)
      /\ DOMAIN old \subseteq Paths
      /\ new = old \/ new = UpdateFiles(source, old, s, st, version)
  BY PushMoves
<1>2. CASE new = old
  BY <1>1, <1>2
<1>3. CASE new = UpdateFiles(source, old, s, st, version)
  <2>1. DOMAIN new \subseteq Paths
    <3>1. DOMAIN UpdateFiles(source, old, s, st, version) \subseteq Paths
      BY <1>1, PromotedPaths
    <3> QED
      BY <1>3, <3>1
  <2>2. Branches!RemoveAll(new, <<s>>) = Branches!RemoveAll(old, <<s>>)
    <3>1. Branches!RemoveAll(UpdateFiles(source, old, s, st, version), <<s>>)
            = Branches!RemoveAll(old, <<s>>)
      BY <1>1, OthersKept
    <3> QED
      BY <1>3, <3>1
  <2>3. ASSUME <<s, st>> \in Clear
        PROVE  Branches!Contents(new, <<s>>) = Branches!Rendered(source, s, st, version)
    <3>1. IsClear(s, st)
      BY <1>1, <2>3 DEF Clear
    <3> QED
      BY <1>1, <1>3, <3>1, ReleaseIsRendered
  <2> QED
    BY <1>1, <2>1, <2>2, <2>3
<1> QED
  BY <1>1, <1>2, <1>3

(* Only a push adds to a branch. *)
Pushing(p) ==
  /\ handler[p].step = "push" /\ handler[p].committed
  /\ handler[p].base = Len(branch[request[p].stage])
  /\ Pushed(p) /\ UNCHANGED <<master, tags>>

LEMMA OnlyPushes ==
  ASSUME NEW p \in Promotions, Receive(p) \/ Handle(p)
  PROVE  Pushing(p) \/ UNCHANGED <<branch, master, tags>>
  BY DEF Receive, Handle, GetGitSecret, CloneRelease, CloneStage, Push, Finish, Goes, Commits,
     Pushing, Height, jobVars

LEMMA StageStep ==
  ASSUME StageInv, GivenInv', PromotionInv', [Next]_vars
  PROVE  StageInv'
<1>1. ShapeOK /\ ShapeOK'
  BY DEF StageInv, PromotionInv
<1>2. ASSUME NEW j \in Jobs, Deploy(j) \/ Tag(j)
      PROVE  StageInv'
  <2>1. Grows /\ UNCHANGED <<branch, handler>>
    BY <1>1, <1>2, JobSteps DEF handlerVars
  <2>2. \A p \in Promotions : FilesFit(p)'
    BY <1>1, <2>1, FilesKept
  <2> QED
    BY <2>1, <2>2 DEF StageInv, TreesArePaths
<1>3. ASSUME NEW p \in Promotions, Receive(p) \/ Handle(p)
      PROVE  StageInv'
  <2>1. Grows /\ OnlyMoves(p)
    BY <1>1, <1>3, HandlerSteps
  <2>2. FilesFit(p)'
    BY <1>1, <1>3, <2>1, FilesFitOwnStep
  <2>3. \A q \in Promotions \ {p} : FilesFit(q)'
    BY <1>1, <2>1, FilesKept DEF OnlyMoves
  <2>4. TreesArePaths'
    <3>1. CASE UNCHANGED branch
      BY <3>1 DEF StageInv, TreesArePaths
    <3>2. CASE Pushing(p)
      <4>1. PICK st \in Stages : st = request[p].stage
        BY <1>1, StageOfRequest
      <4>2. PICK new : new = [by |-> p, files |-> handler[p].files]
        OBVIOUS
      <4>3. DOMAIN new.files \subseteq Paths
        <5>1. new.files = handler[p].files
          BY <4>2
        <5> QED
          BY <3>2, <4>1, <5>1, PushFits DEF Pushing
      <4>4. Pushed(p)
        BY <3>2 DEF Pushing
      <4>5. /\ \A other \in Stages \ {st} : branch'[other] = branch[other]
            /\ Len(branch[st]) \in Nat
            /\ Len(branch'[st]) = Len(branch[st]) + 1
            /\ branch'[st][Len(branch[st]) + 1] = new
            /\ \A i \in 1..Len(branch[st]) : branch'[st][i] = branch[st][i]
        BY <1>1, <4>1, <4>2, <4>4, PushedGrows DEF Height
      <4>6. ASSUME NEW other \in Stages, NEW i \in 1..Len(branch'[other])
            PROVE  DOMAIN branch'[other][i].files \subseteq Paths
        <5>1. CASE other # st
          BY <4>5, <4>6, <5>1 DEF StageInv, TreesArePaths
        <5>2. CASE other = st /\ i = Len(branch[st]) + 1
          BY <4>3, <4>5, <5>2
        <5>3. CASE other = st /\ i # Len(branch[st]) + 1
          <6>1. i \in 1..Len(branch[st])
            BY <4>5, <4>6, <5>3
          <6> QED
            BY <4>5, <5>3, <6>1 DEF StageInv, TreesArePaths
        <5> QED
          BY <5>1, <5>2, <5>3
      <4> QED
        BY <4>6 DEF TreesArePaths
    <3> QED
      BY <1>3, <3>1, <3>2, OnlyPushes
  <2> QED
    BY <2>2, <2>3, <2>4 DEF StageInv
<1>4. CASE Restart
  <2>1. UNCHANGED <<jobVars, branch, request, sent>> /\ Fault("restart") /\ DOMAIN handler' = Promotions
    BY <1>4 DEF Restart
  <2>2. \A p \in Promotions :
          /\ handler'[p].base = handler[p].base
          /\ handler'[p] = handler[p] \/ handler'[p].step = "done"
    BY <1>4 DEF Restart, Memory
  <2>3. Grows
    BY <1>1, <2>1, <2>2, QuietSteps, FaultAdds DEF ShapeOK, HandlersOK, Steps
  <2>4. ASSUME NEW p \in Promotions PROVE FilesFit(p)'
    <3>1. CASE handler'[p] = handler[p]
      BY <1>1, <2>3, <3>1, FilesKept
    <3>2. CASE handler'[p].step = "done"
      BY <3>2 DEF FilesFit
    <3> QED
      BY <2>2, <3>1, <3>2
  <2> QED
    BY <2>1, <2>4 DEF StageInv, TreesArePaths
<1>5. CASE UNCHANGED vars
  <2>1. UNCHANGED <<master, tags, call, job, branch, request, handler, sent, faults>>
    BY <1>5 DEF vars, jobVars, handlerVars
  <2>2. \A p \in Promotions : FilesFit(p)'
    BY <2>1 DEF StageInv, FilesFit, Promoted, ReleaseOf
  <2> QED
    BY <2>1, <2>2 DEF StageInv, TreesArePaths
<1> QED
  BY <1>2, <1>3, <1>4, <1>5 DEF Next

--------------------------------------------------------------------------------
(* The stage branches as StageLog sees them. *)

Trees == [st \in Stages |-> [i \in 1..Height(st) |-> branch[st][i].files]]
Made  == [r \in {x \in Release : tags[x] # 0} |-> master[tags[r]]]

LEMMA TreesInit ==
  ASSUME Init
  PROVE  Branches!LogInit
<1>1. DOMAIN Trees = Stages
  BY DEF Trees
<1>2. ASSUME NEW st \in Stages PROVE Len(Trees[st]) <= 1
  <2>1. Height(st) \in {0, 1}
    BY DEF Init, Height
  <2>2. Trees[st] = [i \in 1..Height(st) |-> branch[st][i].files]
    BY DEF Trees
  <2>3. Len(Trees[st]) = Height(st)
    BY <2>1, <2>2
  <2> QED
    BY <2>1, <2>3
<1>3. DOMAIN Made = {}
  BY DEF Init, Made
<1> QED
  BY <1>1, <1>2, <1>3 DEF Branches!LogInit, Trees, Made

LEMMA MadeKept ==
  ASSUME ShapeOK, Grows, UNCHANGED tags
  PROVE  UNCHANGED Made
<1> DEFINE D == {x \in Release : tags[x] # 0}
<1>1. \A r \in D : tags[r] \in 1..Len(master)
  BY LenIsNat DEF ShapeOK, MasterOK
<1>2. \A r \in D : master'[tags'[r]] = master[tags[r]]
  BY <1>1 DEF Grows
<1> QED
  BY <1>2 DEF Made

LEMMA TreesAppend ==
  ASSUME ShapeOK, NEW p \in Promotions, Pushed(p), NEW st, st = request[p].stage,
         NEW files, files = handler[p].files
  PROVE  /\ st \in Stages
         /\ Trees' = [Trees EXCEPT ![st] = Append(Trees[st], files)]
         /\ Len(Trees[st]) = Height(st)
         /\ Len(Trees'[st]) = Len(Trees[st]) + 1
         /\ Trees'[st][Len(Trees'[st])] = files
         /\ \A i \in 1..Height(st) : Trees[st][i] = branch[st][i].files
<1>1. st \in Stages
  BY StageOfRequest
<1>2. PICK new : new = [by |-> p, files |-> files]
  OBVIOUS
<1>3. new.files = files /\ new = [by |-> p, files |-> handler[p].files]
  BY <1>2
<1>4. PICK n : n = Len(branch[st])
  OBVIOUS
<1>5. /\ \A other \in Stages \ {st} : branch'[other] = branch[other]
      /\ n \in Nat
      /\ Len(branch'[st]) = n + 1
      /\ branch'[st][n + 1] = new
      /\ \A i \in 1..n : branch'[st][i] = branch[st][i]
  <2>1. st \in Stages /\ new = [by |-> p, files |-> handler[p].files] /\ st = request[p].stage
    BY <1>1, <1>3
  <2> QED
    BY <1>4, <2>1, PushedGrows DEF Height
<1> DEFINE old == [i \in 1..n |-> branch[st][i].files]
           grown == [i \in 1..(n + 1) |-> branch'[st][i].files]
<1>6. Trees[st] = old /\ Trees'[st] = grown
  BY <1>1, <1>4, <1>5 DEF Trees, Height
<1>7. \A other \in Stages \ {st} : Trees'[other] = Trees[other]
  BY <1>1, <1>5 DEF Trees, Height
<1>8. DOMAIN Trees = Stages /\ DOMAIN Trees' = Stages
  BY DEF Trees
<1>9. Len(old) = n /\ Len(grown) = n + 1 /\ grown[n + 1] = files
  BY <1>3, <1>5
<1>10. grown = Append(old, files)
  <2> DEFINE S == {branch[st][i].files : i \in 1..n} \union {files}
  <2>1. old \in Seq(S)
    BY <1>5
  <2>2. files \in S
    OBVIOUS
  <2>3. \A i \in 1..n : old[i] = branch[st][i].files
    OBVIOUS
  <2> HIDE DEF S, old
  <2>4. /\ Append(old, files) \in Seq(S)
        /\ Len(Append(old, files)) = n + 1
        /\ \A i \in 1..n : Append(old, files)[i] = old[i]
        /\ Append(old, files)[n + 1] = files
    BY <1>5, <1>9, <2>1, <2>2
  <2>5. Append(old, files) = [i \in 1..(n + 1) |-> Append(old, files)[i]]
    BY <2>4, LenProperties
  <2>6. \A i \in 1..(n + 1) : Append(old, files)[i] = branch'[st][i].files
    BY <1>3, <1>5, <2>3, <2>4
  <2> QED
    BY <2>5, <2>6
<1>11. \A i \in 1..Height(st) : Trees[st][i] = branch[st][i].files
  BY <1>4, <1>6 DEF Height
<1> HIDE DEF old, grown
<1>12. Trees' = [Trees EXCEPT ![st] = Append(Trees[st], files)]
  <2> DEFINE next == [Trees EXCEPT ![st] = Append(Trees[st], files)]
  <2>1. DOMAIN next = Stages /\ \A other \in Stages : next[other] = Trees'[other]
    BY <1>1, <1>6, <1>7, <1>8, <1>10
  <2>2. /\ next = [other \in Stages |-> next[other]]
        /\ Trees' = [other \in Stages |-> Trees'[other]]
    BY <1>8, <2>1 DEF Trees
  <2> QED
    BY <2>1, <2>2
<1> QED
  BY <1>1, <1>4, <1>6, <1>9, <1>11, <1>12 DEF Height

LEMMA PushRefines ==
  ASSUME StageInv, Grows, NEW p \in Promotions, Pushing(p)
  PROVE  Branches!LogNext
<1>1. PICK st, s, version, r, new :
        /\ st = request[p].stage /\ s = request[p].service /\ version = request[p].version
        /\ r = ReleaseOf(p) /\ new = handler[p].files
  OBVIOUS
<1>2. PICK n, old : n = Len(branch[st]) /\ old = branch[st][n].files
  OBVIOUS
<1>3. /\ n \in Nat \ {0} /\ r \in Release /\ tags[r] # 0
      /\ \/ new = old
         \/ /\ Branches!RemoveAll(new, <<s>>) = Branches!RemoveAll(old, <<s>>)
            /\ <<s, st>> \in Clear =>
                 Branches!Contents(new, <<s>>) =
                   Branches!Rendered(master[tags[r]], s, st, version)
  BY <1>1, <1>2, PushFits DEF Pushing
<1>4. /\ st \in Stages
      /\ Trees' = [Trees EXCEPT ![st] = Append(Trees[st], new)]
      /\ Len(Trees[st]) = n
      /\ Len(Trees'[st]) = n + 1
      /\ Trees'[st][Len(Trees'[st])] = new
      /\ \A i \in 1..n : Trees[st][i] = branch[st][i].files
  <2>1. ShapeOK /\ Pushed(p)
    BY DEF StageInv, PromotionInv, Pushing
  <2>2. n = Height(st)
    BY <1>2 DEF Height
  <2> QED
    BY <1>1, <2>1, <2>2, TreesAppend
<1>5. Branches!Last(Trees[st]) = old /\ Branches!Last(Trees'[st]) = new /\ Trees[st] # <<>>
  BY <1>3, <1>4, <1>2 DEF Branches!Last
<1>6. r \in DOMAIN Made /\ Made[r] = master[tags[r]] /\ r[1] = s /\ r[2] = version
  BY <1>1, <1>3 DEF Made, ReleaseOf
<1>7. UNCHANGED Made
  BY MadeKept DEF StageInv, PromotionInv, Pushing
<1>8. new = old \/ \E x \in DOMAIN Made :
        /\ Branches!RemoveAll(new, <<x[1]>>) = Branches!RemoveAll(old, <<x[1]>>)
        /\ <<x[1], st>> \in Clear =>
             Branches!Contents(new, <<x[1]>>) = Branches!Rendered(Made[x], x[1], st, x[2])
  BY <1>3, <1>6
<1>9. Branches!Promote(st)
  BY <1>3, <1>4, <1>5, <1>7, <1>8 DEF Branches!Promote, Branches!IsPromotion, Trees, Made
<1> QED
  BY <1>4, <1>9 DEF Branches!LogNext

LEMMA TagMakesRelease ==
  ASSUME StageInv, NEW j \in Jobs, Tag(j)
  PROVE  Branches!LogNext \/ UNCHANGED <<Trees, Made>>
<1>1. PICK r, i : r = <<call[j].service, job[j].version>> /\ i = job[j].commit
  OBVIOUS
<1>2. /\ tags' = IF tags[r] = 0 THEN [tags EXCEPT ![r] = i] ELSE tags
      /\ UNCHANGED <<master, branch>>
  BY <1>1 DEF Tag, handlerVars
<1>3. UNCHANGED Trees
  BY <1>2 DEF Trees, Height
<1>4. DOMAIN tags = Release
  BY DEF StageInv, PromotionInv, ShapeOK, MasterOK
<1>5. CASE r \in Release /\ tags[r] = 0 /\ i # 0
  <2>1. /\ tags'[r] = i /\ \A x \in Release \ {r} : tags'[x] = tags[x]
        /\ {x \in Release : tags'[x] # 0} = {x \in Release : tags[x] # 0} \union {r}
    BY <1>2, <1>4, <1>5
  <2>2. /\ r \in Release \ DOMAIN Made /\ DOMAIN Made' = DOMAIN Made \union {r}
    BY <1>5, <2>1 DEF Made
  <2>3. Branches!Restrict(Made', DOMAIN Made) = Made
    <3>1. \A x \in DOMAIN Made : Made'[x] = Made[x]
      BY <1>2, <2>1, <2>2 DEF Made
    <3>2. Made = [x \in DOMAIN Made |-> Made[x]]
      BY DEF Made
    <3>3. [x \in DOMAIN Made |-> Made'[x]] = [x \in DOMAIN Made |-> Made[x]]
      BY <3>1
    <3> QED
      BY <3>2, <3>3 DEF Branches!Restrict
  <2>4. Branches!Publish
    BY <1>3, <2>2, <2>3 DEF Branches!Publish, Made, Trees
  <2> QED
    BY <2>4 DEF Branches!LogNext
<1>6. CASE ~(r \in Release /\ tags[r] = 0 /\ i # 0)
  <2>1. \A x \in Release : tags'[x] = tags[x]
    BY <1>2, <1>4, <1>6
  <2>2. UNCHANGED Made
    BY <1>2, <2>1 DEF Made
  <2> QED
    BY <1>3, <2>2
<1> QED
  BY <1>5, <1>6

LEMMA TreesStep ==
  ASSUME StageInv, PromotionInv', [Next]_vars
  PROVE  [Branches!LogNext]_<<Trees, Made>>
<1>1. ShapeOK /\ ShapeOK'
  BY DEF StageInv, PromotionInv
<1>2. ASSUME UNCHANGED <<branch, master, tags>> PROVE UNCHANGED <<Trees, Made>>
  BY <1>2 DEF Trees, Made, Height
<1>3. ASSUME NEW j \in Jobs, Deploy(j) PROVE UNCHANGED <<Trees, Made>>
  <2>1. Grows /\ UNCHANGED <<branch, tags>>
    BY <1>1, <1>3, JobSteps DEF Deploy, handlerVars
  <2>2. UNCHANGED Trees
    BY <2>1 DEF Trees, Height
  <2> QED
    BY <1>1, <2>1, <2>2, MadeKept
<1>4. ASSUME NEW p \in Promotions, Receive(p) \/ Handle(p)
      PROVE  Branches!LogNext \/ UNCHANGED <<Trees, Made>>
  <2>1. Grows
    BY <1>1, <1>4, HandlerSteps
  <2> QED
    BY <1>2, <1>4, <2>1, OnlyPushes, PushRefines
<1> QED
  BY <1>2, <1>3, <1>4, TagMakesRelease DEF Next, Restart, vars, jobVars, handlerVars

LEMMA StageInvariant == Spec => []StageInv
  BY StageInit, StageStep, GivenInvariant, PromotionInvariant, PTL DEF Spec

(* However many promotions clone, move files and push at once, a stage branch *)
(* grows by whole releases of single services, each put on the tree before it; *)
(* and a release, once made, is never another one (githandler.go:98-149).     *)
THEOREM StagesAreAlwaysLogs == Spec => StagesAreLogs
<1>1. [Branches!LogNext]_<<Trees, Made>> <=>
        [Branches!LogNext]_<<[st \in Stages |-> [i \in 1..Height(st) |-> branch[st][i].files]],
                             [r \in {x \in Release : tags[x] # 0} |-> master[tags[r]]]>>
  BY DEF Trees, Made
<1> QED
  BY <1>1, TreesInit, TreesStep, StageInvariant, PromotionInvariant, PTL
     DEF Spec, StagesAreLogs, Branches!LogSpec

--------------------------------------------------------------------------------
(* What a push brings is merged from the release. *)

LEMMA PushOverlays ==
  ASSUME StageInv, NEW p \in Promotions, Pushing(p),
         NEW st, st = request[p].stage, NEW s, s = request[p].service,
         NEW source, source = master[tags[ReleaseOf(p)]],
         NEW base, base = FileAt(source, ValuesFile(Base(s), s)),
         NEW stage, stage = FileAt(source, ValuesFile(StageOf(st, s), s)),
         <<s, st>> \in Clear, "values" \in DOMAIN base \intersect DOMAIN stage,
         handler[p].files # branch[st][Len(branch[st])].files
  PROVE  IsOverlay(handler[p].files[ValuesFile(<<s>>, s)].values, stage.values, base.values)
<1>1. PICK version, old, new :
        /\ version = request[p].version
        /\ old = branch[st][Len(branch[st])].files /\ new = handler[p].files
  OBVIOUS
<1>2. /\ st \in Stages /\ s \in Services /\ IsClear(s, st)
      /\ DOMAIN source \subseteq Paths /\ HasGivenValues(source)
      /\ DOMAIN old \subseteq Paths
      /\ new = UpdateFiles(source, old, s, st, version)
  <2>1. st \in Stages /\ s \in Services
    BY StageOfRequest DEF StageInv, PromotionInv, ShapeOK, HandlersOK, Request
  <2>2. IsClear(s, st)
    BY <2>1 DEF Clear
  <2> QED
    BY <1>1, <2>1, <2>2, PushMoves DEF Pushing
<1>3. /\ Base(s) \in Paths /\ StageOf(st, s) \in Paths /\ <<s>> \in Paths
      /\ ValuesIn(s) \in Paths \ {<<>>}
      /\ ValuesFile(Base(s), s) = Base(s) \o ValuesIn(s)
      /\ ValuesFile(StageOf(st, s), s) = StageOf(st, s) \o ValuesIn(s)
      /\ ValuesFile(<<s>>, s) = <<s>> \o ValuesIn(s)
  BY <1>2, DirsArePaths, ValuesByName
<1>4. /\ Base(s) \o ValuesIn(s) \in DOMAIN source /\ base \in ValuesGiven
      /\ stage \in ValuesGiven
  <2>1. base # NoFile /\ stage # NoFile
    BY DEF NoFile
  <2> QED
    BY <1>2, <1>3, <2>1, ValuesAreLong DEF FileAt, HasGivenValues
<1>5. PICK merged : merged = Merged(base, stage)
  OBVIOUS
<1>6. "values" \in DOMAIN merged /\ IsOverlay(merged.values, stage.values, base.values)
  BY <1>4, <1>5, OverlayAssumption
<1>7. new[<<s>> \o ValuesIn(s)] = FileOf(source, s, st, version, ValuesIn(s))
  <2>1. \A q \in Paths \ {<<>>} :
          LET there == Base(s) \o q \in DOMAIN source \/ StageOf(st, s) \o q \in DOMAIN source
          IN  /\ <<s>> \o q \in DOMAIN new <=> there
              /\ there => new[<<s>> \o q] = FileOf(source, s, st, version, q)
    BY <1>2, PromotedByPath
  <2>2. PICK q \in Paths \ {<<>>} : q = ValuesIn(s)
    BY <1>3
  <2>3. new[<<s>> \o q] = FileOf(source, s, st, version, q)
    BY <1>4, <2>1, <2>2
  <2> QED
    BY <2>2, <2>3
<1>8. FileOf(source, s, st, version, ValuesIn(s)) = Labelled(merged, version)
  <2>1. MergedIn(source, s, st) = merged
    BY <1>5 DEF MergedIn
  <2>2. merged # NoFile
    BY <1>6 DEF NoFile
  <2> QED
    BY <2>1, <2>2 DEF FileOf
<1>9. Labelled(merged, version).values = merged.values
  BY <1>6 DEF Labelled
<1> QED
  BY <1>1, <1>3, <1>6, <1>7, <1>8, <1>9

Overlays(p) ==
  LET s  == request[p].service
      st == request[p].stage
      tree  == master[tags[ReleaseOf(p)]]
      base  == FileAt(tree, ValuesFile(Base(s), s))
      stage == FileAt(tree, ValuesFile(StageOf(st, s), s))
      files == Last(branch'[st]).files
  IN  /\ Len(branch'[st]) > Height(st)
      /\ Last(branch'[st]).by = p
      /\ files # Last(branch[st]).files
      /\ <<s, st>> \in Clear
      /\ "values" \in DOMAIN base \intersect DOMAIN stage
      => IsOverlay(files[ValuesFile(<<s>>, s)].values, stage.values, base.values)

LEMMA OverlaysStep ==
  ASSUME StageInv, PromotionInv', [Next]_vars, NEW p \in Promotions
  PROVE  Overlays(p)
<1>1. ShapeOK /\ ShapeOK'
  BY DEF StageInv, PromotionInv
<1>2. PICK st \in Stages : st = request[p].stage
  BY <1>1, StageOfRequest
<1>3. CASE branch' = branch
  <2>1. ~(Len(branch'[st]) > Height(st))
    <3>1. Len(branch[st]) \in Nat
      BY <1>1, LenIsNat DEF ShapeOK, BranchesOK
    <3> QED
      BY <1>3, <3>1 DEF Height
  <2> QED
    BY <1>2, <2>1 DEF Overlays
<1>4. ASSUME NEW q \in Promotions, Pushing(q)
      PROVE  Overlays(p)
  <2>1. PICK at \in Stages : at = request[q].stage
    BY <1>1, StageOfRequest
  <2>2. PICK new, n : new = [by |-> q, files |-> handler[q].files] /\ n = Len(branch[at])
    OBVIOUS
  <2>3. /\ \A other \in Stages \ {at} : branch'[other] = branch[other]
        /\ n \in Nat /\ Len(branch'[at]) = n + 1 /\ branch'[at][n + 1] = new
    <3>1. Pushed(q)
      BY <1>4 DEF Pushing
    <3> QED
      BY <1>1, <2>1, <2>2, <3>1, PushedGrows DEF Height
  <2>4. Last(branch'[at]) = new
    BY <2>3 DEF Last
  <2>5. CASE st # at
    <3>1. Len(branch[st]) \in Nat /\ branch'[st] = branch[st]
      BY <1>1, <2>3, <2>5, LenIsNat DEF ShapeOK, BranchesOK
    <3> QED
      BY <1>2, <3>1 DEF Overlays, Height
  <2>6. CASE st = at /\ p # q
    BY <1>2, <2>2, <2>4, <2>6 DEF Overlays
  <2>7. CASE p = q
    <3>1. st = at /\ Last(branch'[st]).files = handler[p].files
      BY <1>2, <2>1, <2>2, <2>4, <2>7
    <3>2. Last(branch[st]).files = branch[st][Len(branch[st])].files
      BY DEF Last
    <3> QED
      BY <1>2, <1>4, <2>7, <3>1, <3>2, PushOverlays DEF Overlays
  <2> QED
    BY <2>5, <2>6, <2>7
<1>5. branch' = branch \/ \E q \in Promotions : Pushing(q)
  BY OnlyPushes DEF Next, Deploy, Tag, Restart, vars, jobVars, handlerVars
<1> QED
  BY <1>3, <1>4, <1>5

(* Whichever release a promotion brings and whoever else pushes, the values it *)
(* leaves on the stage are the release's values for the stage over its base     *)
(* values, both as the release has them (githandler.go:111-130).               *)
THEOREM ValuesAreAlwaysOverlaid == Spec => ValuesAreOverlaid
<1>1. StageInv /\ PromotionInv' /\ [Next]_vars => [\A p \in Promotions : Overlays(p)]_vars
  BY OverlaysStep
<1>2. [\A p \in Promotions : Overlays(p)]_vars <=>
        [\A p \in Promotions :
           LET s  == request[p].service
               st == request[p].stage
               tree  == master[tags[ReleaseOf(p)]]
               base  == FileAt(tree, ValuesFile(Base(s), s))
               stage == FileAt(tree, ValuesFile(StageOf(st, s), s))
               files == Last(branch'[st]).files
           IN  /\ Len(branch'[st]) > Height(st)
               /\ Last(branch'[st]).by = p
               /\ files # Last(branch[st]).files
               /\ <<s, st>> \in Clear
               /\ "values" \in DOMAIN base \intersect DOMAIN stage
               => IsOverlay(files[ValuesFile(<<s>>, s)].values, stage.values, base.values)]_vars
  BY DEF Overlays
<1> QED
  BY <1>1, <1>2, StageInvariant, PromotionInvariant, PTL DEF Spec, ValuesAreOverlaid
================================================================================
