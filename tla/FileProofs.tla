------------------------------ MODULE FileProofs ------------------------------
(***************************************************************************)
(* Proofs about the files of the deployment repository in PromotionService.*)
(***************************************************************************)
EXTENDS PromotionProofs, SequenceTheorems, WellFoundedInduction

(* Paths and directories. *)

LEMMA PrefixByName ==
  ASSUME NEW d \in Paths, NEW p \in Paths
  PROVE  IsPrefix(d, p) <=> Len(d) <= Len(p) /\ \A i \in 1..Len(d) : d[i] = p[i]
<1>1. d \in Seq(Names) /\ p \in Seq(Names)
  BY DEF Paths
<1>2. ASSUME IsPrefix(d, p) PROVE Len(d) <= Len(p) /\ \A i \in 1..Len(d) : d[i] = p[i]
  <2>1. Len(d) <= Len(p) /\ SubSeq(d, 1, Len(d)) = SubSeq(p, 1, Len(d))
    BY <1>2 DEF IsPrefix
  <2> QED
    BY <1>1, <2>1
<1>3. ASSUME Len(d) <= Len(p), \A i \in 1..Len(d) : d[i] = p[i] PROVE IsPrefix(d, p)
  <2>1. SubSeq(d, 1, Len(d)) = SubSeq(p, 1, Len(d))
    BY <1>1, <1>3
  <2> QED
    BY <1>3, <2>1 DEF IsPrefix
<1> QED
  BY <1>2, <1>3

LEMMA PrefixSplits ==
  ASSUME NEW d \in Paths, NEW p \in Paths, IsPrefix(d, p)
  PROVE  /\ Inside(p, d) \in Paths
         /\ p = d \o Inside(p, d)
         /\ Inside(p, d) = <<>> <=> p = d
<1>1. d \in Seq(Names) /\ p \in Seq(Names) /\ Len(d) \in Nat /\ Len(p) \in Nat
  BY DEF Paths
<1>2. Len(d) <= Len(p) /\ \A i \in 1..Len(d) : d[i] = p[i]
  BY PrefixByName
<1>3. /\ Inside(p, d) \in Seq(Names)
      /\ Len(Inside(p, d)) = Len(p) - Len(d)
      /\ \A i \in 1..(Len(p) - Len(d)) : Inside(p, d)[i] = p[i + Len(d)]
  BY <1>1, <1>2 DEF Inside
<1>4. p = d \o Inside(p, d)
  <2> DEFINE whole == d \o Inside(p, d)
  <2>1. whole \in Seq(Names) /\ Len(whole) = Len(p)
    BY <1>1, <1>2, <1>3
  <2>2. \A i \in 1..Len(d) : whole[i] = d[i]
    BY <1>1, <1>3
  <2>3. \A i \in 1..(Len(p) - Len(d)) : whole[i + Len(d)] = Inside(p, d)[i]
    BY <1>1, <1>3
  <2>4. \A i \in 1..Len(p) : whole[i] = p[i]
    <3> HIDE DEF whole
    <3>1. TAKE i \in 1..Len(p)
    <3>2. CASE i <= Len(d)
      BY <1>1, <1>2, <2>2, <3>2
    <3>3. CASE i > Len(d)
      <4>1. i - Len(d) \in 1..(Len(p) - Len(d)) /\ (i - Len(d)) + Len(d) = i
        BY <1>1, <3>3
      <4> QED
        BY <1>3, <2>3, <4>1
    <3> QED
      BY <1>1, <3>2, <3>3
  <2> QED
    BY <1>1, <2>1, <2>4, SeqEqual
<1>5. Inside(p, d) = <<>> <=> Len(p) = Len(d)
  BY <1>1, <1>3
<1>6. Len(p) = Len(d) <=> p = d
  BY <1>1, <1>2
<1> QED
  BY <1>3, <1>4, <1>5, <1>6 DEF Paths

LEMMA PathJoins ==
  ASSUME NEW d \in Paths, NEW q \in Paths
  PROVE  /\ d \o q \in Paths
         /\ IsPrefix(d, d \o q)
         /\ Inside(d \o q, d) = q
         /\ d \o q = d <=> q = <<>>
<1>1. d \in Seq(Names) /\ q \in Seq(Names) /\ Len(d) \in Nat /\ Len(q) \in Nat
  BY DEF Paths
<1>2. /\ d \o q \in Seq(Names)
      /\ Len(d \o q) = Len(d) + Len(q)
      /\ \A i \in 1..Len(d) : (d \o q)[i] = d[i]
      /\ \A i \in 1..Len(q) : (d \o q)[i + Len(d)] = q[i]
  <2>1. \A i \in 1..(Len(d) + Len(q)) :
          (d \o q)[i] = IF i <= Len(d) THEN d[i] ELSE q[i - Len(d)]
    BY <1>1, ConcatProperties
  <2>2. ASSUME NEW i \in 1..Len(q) PROVE (d \o q)[i + Len(d)] = q[i]
    <3>1. i + Len(d) \in 1..(Len(d) + Len(q)) /\ ~(i + Len(d) <= Len(d)) /\ (i + Len(d)) - Len(d) = i
      BY <1>1
    <3> QED
      BY <2>1, <3>1
  <2>3. ASSUME NEW i \in 1..Len(d) PROVE (d \o q)[i] = d[i]
    BY <1>1, <2>1
  <2> QED
    BY <1>1, <2>2, <2>3
<1>3. d \o q \in Paths /\ IsPrefix(d, d \o q)
  <2>1. d \o q \in Paths
    BY <1>2 DEF Paths
  <2>2. Len(d) <= Len(d \o q) /\ \A i \in 1..Len(d) : d[i] = (d \o q)[i]
    BY <1>1, <1>2
  <2> QED
    BY <2>1, <2>2, PrefixByName
<1>4. Inside(d \o q, d) = q
  <2>1. /\ SubSeq(d \o q, Len(d) + 1, Len(d \o q)) \in Seq(Names)
        /\ Len(SubSeq(d \o q, Len(d) + 1, Len(d \o q))) = Len(q)
    BY <1>1, <1>2
  <2>2. \A i \in 1..Len(q) : SubSeq(d \o q, Len(d) + 1, Len(d \o q))[i] = (d \o q)[i + Len(d)]
    <3>1. TAKE i \in 1..Len(q)
    <3>2. SubSeq(d \o q, Len(d) + 1, Len(d \o q))[i] = (d \o q)[(Len(d) + 1) + i - 1]
      BY <1>1, <1>2
    <3>3. (Len(d) + 1) + i - 1 = i + Len(d)
      BY <1>1
    <3> QED
      BY <3>2, <3>3
  <2>3. \A i \in 1..Len(q) : SubSeq(d \o q, Len(d) + 1, Len(d \o q))[i] = q[i]
    BY <1>2, <2>2
  <2>4. SubSeq(d \o q, Len(d) + 1, Len(d \o q)) = q
    BY <1>1, <2>1, <2>3
  <2> QED
    BY <2>4 DEF Inside
<1>5. d \o q = d <=> q = <<>>
  BY <1>1, <1>2
<1> QED
  BY <1>3, <1>4, <1>5

LEMMA PrefixesNest ==
  ASSUME NEW a \in Paths, NEW b \in Paths, NEW p \in Paths, IsPrefix(a, p), IsPrefix(b, p)
  PROVE  IsPrefix(a, b) \/ IsPrefix(b, a)
<1>1. Len(a) \in Nat /\ Len(b) \in Nat
  BY DEF Paths
<1>2. /\ \A i \in 1..Len(a) : a[i] = p[i]
      /\ \A i \in 1..Len(b) : b[i] = p[i]
  BY PrefixByName
<1>3. CASE Len(a) <= Len(b)
  BY <1>1, <1>2, <1>3, PrefixByName
<1>4. CASE Len(b) <= Len(a)
  BY <1>1, <1>2, <1>4, PrefixByName
<1> QED
  BY <1>1, <1>3, <1>4

LEMMA PrefixIsTransitive ==
  ASSUME NEW a \in Paths, NEW b \in Paths, NEW p \in Paths, IsPrefix(a, b), IsPrefix(b, p)
  PROVE  IsPrefix(a, p)
<1>1. Len(a) \in Nat /\ Len(b) \in Nat /\ Len(p) \in Nat
  BY DEF Paths
<1> QED
  BY <1>1, PrefixByName

LEMMA PathIsItsPrefix ==
  ASSUME NEW p \in Paths
  PROVE  IsPrefix(p, p) /\ <<>> \in Paths /\ ~IsStrictPrefix(p, p)
  BY PrefixByName DEF Paths, IsStrictPrefix

--------------------------------------------------------------------------------
(* Trees. *)

LEMMA BelowByPath ==
  ASSUME NEW tree, DOMAIN tree \subseteq Paths, NEW dir \in Paths
  PROVE  /\ Below(tree, dir) = {p \in DOMAIN tree : IsPrefix(dir, p) /\ p # dir}
         /\ \A q \in Paths : dir \o q \in Below(tree, dir) <=> dir \o q \in DOMAIN tree /\ q # <<>>
         /\ \A p \in Below(tree, dir) :
              Inside(p, dir) \in Paths \ {<<>>} /\ p = dir \o Inside(p, dir)
<1>1. Below(tree, dir) = {p \in DOMAIN tree : IsPrefix(dir, p) /\ p # dir}
  BY DEF Below, IsStrictPrefix
<1>2. ASSUME NEW q \in Paths
      PROVE  dir \o q \in Below(tree, dir) <=> dir \o q \in DOMAIN tree /\ q # <<>>
  BY <1>1, PathJoins
<1>3. ASSUME NEW p \in Below(tree, dir)
      PROVE  Inside(p, dir) \in Paths \ {<<>>} /\ p = dir \o Inside(p, dir)
  BY <1>1, PrefixSplits
<1> QED
  BY <1>1, <1>2, <1>3

(* The files a directory holds. *)
LEMMA ContentsByPath ==
  ASSUME NEW tree, DOMAIN tree \subseteq Paths, NEW dir \in Paths
  PROVE  /\ DOMAIN Contents(tree, dir) = {q \in Paths \ {<<>>} : dir \o q \in DOMAIN tree}
         /\ \A q \in DOMAIN Contents(tree, dir) : Contents(tree, dir)[q] = tree[dir \o q]
<1>1. DOMAIN Contents(tree, dir) = {Inside(p, dir) : p \in Below(tree, dir)}
  BY DEF Contents
<1>2. ASSUME NEW q \in Paths \ {<<>>}, dir \o q \in DOMAIN tree
      PROVE  q \in {Inside(p, dir) : p \in Below(tree, dir)}
  <2>1. dir \o q \in Below(tree, dir) /\ Inside(dir \o q, dir) = q
    BY <1>2, BelowByPath, PathJoins
  <2> QED
    BY <2>1
<1>3. ASSUME NEW p \in Below(tree, dir)
      PROVE  Inside(p, dir) \in Paths \ {<<>>} /\ dir \o Inside(p, dir) \in DOMAIN tree
  <2>1. p \in DOMAIN tree
    BY DEF Below
  <2>2. Inside(p, dir) \in Paths \ {<<>>} /\ p = dir \o Inside(p, dir)
    BY BelowByPath
  <2> QED
    BY <2>1, <2>2
<1>4. DOMAIN Contents(tree, dir) = {q \in Paths \ {<<>>} : dir \o q \in DOMAIN tree}
  BY <1>1, <1>2, <1>3
<1>5. \A q \in DOMAIN Contents(tree, dir) : Contents(tree, dir)[q] = tree[dir \o q]
  BY DEF Contents
<1> QED
  BY <1>4, <1>5

(* A copy holds what was copied and, elsewhere, what was there. *)
LEMMA CopyByPath ==
  ASSUME NEW from, DOMAIN from \subseteq Paths, NEW src \in Paths,
         NEW to, DOMAIN to \subseteq Paths, NEW dst \in Paths,
         NEW new, new = CopyDir(from, src, to, dst)
  PROVE  /\ DOMAIN new \subseteq Paths
         /\ \A p \in Paths : ~IsPrefix(dst, p) \/ p = dst =>
              /\ p \in DOMAIN new <=> p \in DOMAIN to
              /\ p \in DOMAIN to => new[p] = to[p]
         /\ \A q \in Paths \ {<<>>} :
              /\ dst \o q \in DOMAIN new <=> src \o q \in DOMAIN from \/ dst \o q \in DOMAIN to
              /\ src \o q \in DOMAIN from => new[dst \o q] = from[src \o q]
              /\ src \o q \notin DOMAIN from /\ dst \o q \in DOMAIN to => new[dst \o q] = to[dst \o q]
<1> DEFINE placed == {dst \o Inside(p, src) : p \in Below(from, src)}
<1>1. DOMAIN new = placed \union DOMAIN to
  BY DEF CopyDir
<1>2. \A p \in DOMAIN new :
        new[p] = IF IsStrictPrefix(dst, p) /\ src \o Inside(p, dst) \in DOMAIN from
                   THEN from[src \o Inside(p, dst)] ELSE to[p]
  BY DEF CopyDir
<1>3. ASSUME NEW p \in placed
      PROVE  p \in Paths /\ IsPrefix(dst, p) /\ p # dst
  <2>1. PICK o \in Below(from, src) : p = dst \o Inside(o, src)
    BY <1>3
  <2>2. Inside(o, src) \in Paths \ {<<>>}
    BY <2>1, BelowByPath
  <2> QED
    BY <2>1, <2>2, PathJoins
<1>4. ASSUME NEW q \in Paths \ {<<>>}
      PROVE  dst \o q \in placed <=> src \o q \in DOMAIN from
  <2>1. ASSUME dst \o q \in placed PROVE src \o q \in DOMAIN from
    <3>1. PICK o \in Below(from, src) : dst \o q = dst \o Inside(o, src)
      BY <2>1
    <3>2. Inside(o, src) \in Paths /\ o = src \o Inside(o, src)
      BY BelowByPath
    <3>3. o \in DOMAIN from
      BY DEF Below
    <3>4. /\ Inside(dst \o q, dst) = q
          /\ Inside(dst \o Inside(o, src), dst) = Inside(o, src)
      BY <3>2, PathJoins
    <3>5. q = Inside(o, src)
      BY <3>1, <3>4
    <3> QED
      BY <3>2, <3>3, <3>5
  <2>2. ASSUME src \o q \in DOMAIN from PROVE dst \o q \in placed
    <3>1. src \o q \in Below(from, src) /\ Inside(src \o q, src) = q
      BY <2>2, BelowByPath, PathJoins
    <3> QED
      BY <3>1
  <2> QED
    BY <2>1, <2>2
<1>5. DOMAIN new \subseteq Paths
  BY <1>1, <1>3
<1>6. ASSUME NEW p \in Paths, ~IsPrefix(dst, p) \/ p = dst
      PROVE  /\ p \in DOMAIN new <=> p \in DOMAIN to
             /\ p \in DOMAIN to => new[p] = to[p]
  BY <1>1, <1>2, <1>3, <1>6 DEF IsStrictPrefix
<1>7. ASSUME NEW q \in Paths \ {<<>>}
      PROVE  /\ dst \o q \in DOMAIN new <=> src \o q \in DOMAIN from \/ dst \o q \in DOMAIN to
             /\ src \o q \in DOMAIN from => new[dst \o q] = from[src \o q]
             /\ src \o q \notin DOMAIN from /\ dst \o q \in DOMAIN to => new[dst \o q] = to[dst \o q]
  <2>1. IsStrictPrefix(dst, dst \o q) /\ Inside(dst \o q, dst) = q
    BY PathJoins DEF IsStrictPrefix
  <2> HIDE DEF placed
  <2> QED
    BY <1>1, <1>2, <1>4, <2>1
<1> QED
  BY <1>5, <1>6, <1>7

LEMMA WithoutByPath ==
  ASSUME NEW tree, NEW dirs, NEW new, new = Without(tree, dirs)
  PROVE  /\ DOMAIN new \subseteq DOMAIN tree
         /\ \A p : p \in DOMAIN new <=> p \in DOMAIN tree /\ \A dir \in dirs : ~IsPrefix(dir, p)
         /\ \A p \in DOMAIN new : new[p] = tree[p]
  BY DEF Without, Restrict

LEMMA RemoveAllByPath ==
  ASSUME NEW tree, NEW dir, NEW new, new = RemoveAll(tree, dir)
  PROVE  /\ DOMAIN new \subseteq DOMAIN tree
         /\ \A p : p \in DOMAIN new <=> p \in DOMAIN tree /\ ~IsPrefix(dir, p)
         /\ \A p \in DOMAIN new : new[p] = tree[p]
  BY DEF RemoveAll, Without, Restrict

--------------------------------------------------------------------------------
(* The directories of a service. *)

LEMMA FixedNames ==
  /\ "base" \in Names /\ "stages" \in Names /\ "helm" \in Names
  /\ "values.yaml" \in Names /\ "Chart.yaml" \in Names /\ "metadata" \in Names /\ "deployment.yaml" \in Names
  /\ ".keptn" \in Names /\ "config.yaml" \in Names /\ "shipyard.yaml" \in Names
  /\ "chart" \in Names /\ "temp_dir_master" \in Names
  /\ Services \subseteq Names /\ Stages \subseteq Names /\ Rest \in Names
  BY DEF Names

(* A directory of a directory, name by name. *)
LEMMA FourNames ==
  ASSUME NEW a \in Names, NEW b \in Names, NEW c \in Names, NEW e \in Names
  PROVE  <<a, b>> \o <<c, e>> = <<a, b, c, e>>
<1> DEFINE x == <<a, b>>  y == <<c, e>>  z == <<a, b, c, e>>
<1>1. z \in Seq(Names) /\ x \o y \in Seq(Names) /\ Len(x \o y) = 4 /\ Len(z) = 4
  OBVIOUS
<1>2. (x \o y)[1] = a /\ (x \o y)[2] = b /\ (x \o y)[3] = c /\ (x \o y)[4] = e
  OBVIOUS
<1>3. \A i \in 1..4 : (x \o y)[i] = z[i]
  BY <1>2
<1> QED
  BY <1>1, <1>3, SeqEqual

LEMMA DirsArePaths ==
  ASSUME NEW s \in Services
  PROVE  /\ Base(s) \in Paths
         /\ <<s>> \in Paths
         /\ ChartIn(Base(s), s) \in Paths
         /\ ChartIn(<<>>, s) \in Paths
         /\ Metadata(s) \in Paths
         /\ Config \in Paths
         /\ Shipyard \in Paths
         /\ \A st \in Stages : StageOf(st, s) \in Paths
<1>1. /\ Base(s) \in Seq(Names) /\ <<s>> \in Seq(Names)
      /\ <<"helm", s>> \in Seq(Names) /\ <<"metadata", "deployment.yaml">> \in Seq(Names)
      /\ Config \in Seq(Names) /\ Shipyard \in Seq(Names)
      /\ \A st \in Stages : StageOf(st, s) \in Seq(Names)
  BY FixedNames DEF Base, Config, Shipyard, StageOf
<1>2. ChartIn(Base(s), s) \in Seq(Names) /\ Metadata(s) \in Seq(Names)
  BY <1>1, ConcatProperties DEF ChartIn, Metadata
<1>3. ChartIn(<<>>, s) \in Seq(Names)
  BY <1>1, ConcatProperties DEF ChartIn
<1> QED
  BY <1>1, <1>2, <1>3 DEF Paths

LEMMA InBase ==
  ASSUME NEW s \in Services, NEW p \in Paths
  PROVE  IsPrefix(Base(s), p) <=> Len(p) >= 2 /\ p[1] = "base" /\ p[2] = s
<1>1. /\ Len(Base(s)) = 2
      /\ (\A i \in 1..2 : Base(s)[i] = p[i]) <=> p[1] = "base" /\ p[2] = s
  BY DEF Base
<1>2. Base(s) \in Paths
  BY DirsArePaths
<1>3. Len(p) \in Nat
  BY DEF Paths
<1>4. IsPrefix(Base(s), p) <=>
        Len(Base(s)) <= Len(p) /\ \A i \in 1..Len(Base(s)) : Base(s)[i] = p[i]
  BY <1>2, PrefixByName
<1> QED
  BY <1>1, <1>3, <1>4

LEMMA InStage ==
  ASSUME NEW s \in Services, NEW st \in Stages, NEW p \in Paths
  PROVE  IsPrefix(StageOf(st, s), p) <=>
           Len(p) >= 3 /\ p[1] = "stages" /\ p[2] = st /\ p[3] = s
<1>1. /\ Len(StageOf(st, s)) = 3
      /\ (\A i \in 1..3 : StageOf(st, s)[i] = p[i])
            <=> p[1] = "stages" /\ p[2] = st /\ p[3] = s
  BY DEF StageOf
<1>2. StageOf(st, s) \in Paths
  BY DirsArePaths
<1>3. Len(p) \in Nat
  BY DEF Paths
<1>4. IsPrefix(StageOf(st, s), p) <=>
        Len(StageOf(st, s)) <= Len(p) /\ \A i \in 1..Len(StageOf(st, s)) : StageOf(st, s)[i] = p[i]
  BY <1>2, PrefixByName
<1> QED
  BY <1>1, <1>3, <1>4

LEMMA HelmByName ==
  ASSUME NEW s \in Services
  PROVE  ChartIn(Base(s), s) = <<"base", s, "helm", s>>
<1>1. s \in Names /\ "base" \in Names /\ "helm" \in Names
  BY FixedNames
<1>2. <<"base", s>> \o <<"helm", s>> = <<"base", s, "helm", s>>
  BY <1>1, FourNames
<1> QED
  BY <1>2 DEF Base, ChartIn

LEMMA InHelm ==
  ASSUME NEW s \in Services, NEW p \in Paths
  PROVE  IsPrefix(ChartIn(Base(s), s), p) <=>
           Len(p) >= 4 /\ p[1] = "base" /\ p[2] = s /\ p[3] = "helm" /\ p[4] = s
<1>1. ChartIn(Base(s), s) = <<"base", s, "helm", s>>
  BY HelmByName
<1>2. ChartIn(Base(s), s) \in Paths
  BY DirsArePaths
<1>3. /\ Len(ChartIn(Base(s), s)) = 4
      /\ (\A i \in 1..4 : ChartIn(Base(s), s)[i] = p[i])
            <=> p[1] = "base" /\ p[2] = s /\ p[3] = "helm" /\ p[4] = s
  BY <1>1
<1>4. Len(p) \in Nat
  BY DEF Paths
<1>5. IsPrefix(ChartIn(Base(s), s), p) <=>
        Len(ChartIn(Base(s), s)) <= Len(p) /\ \A i \in 1..Len(ChartIn(Base(s), s)) : ChartIn(Base(s), s)[i] = p[i]
  BY <1>2, PrefixByName
<1> QED
  BY <1>1, <1>4, <1>3, <1>5

LEMMA FilesByName ==
  ASSUME NEW s \in Services
  PROVE  /\ Metadata(s) = <<"base", s, "metadata", "deployment.yaml">>
         /\ Metadata(s) = Base(s) \o <<"metadata", "deployment.yaml">>
         /\ \A dir \in OwnDirs(s) : ~IsPrefix(dir, Config) /\ ~IsPrefix(dir, Shipyard)
         /\ IsPrefix(Base(s), Metadata(s)) /\ Metadata(s) # Base(s)
         /\ Config # Shipyard /\ Metadata(s) # Config
<1>1. Metadata(s) = <<"base", s, "metadata", "deployment.yaml">>
  BY FourNames, FixedNames DEF Metadata, Base
<1>2. /\ Len(Config) = 2 /\ Config[1] = ".keptn"
      /\ Len(Shipyard) = 1
      /\ Config \in Paths /\ Shipyard \in Paths /\ Metadata(s) \in Paths
  BY DirsArePaths DEF Config, Shipyard
<1>3. ~IsPrefix(Base(s), Config) /\ ~IsPrefix(Base(s), Shipyard)
  BY <1>2, InBase
<1>4. \A st \in Stages : ~IsPrefix(StageOf(st, s), Config) /\ ~IsPrefix(StageOf(st, s), Shipyard)
  BY <1>2, InStage
<1>5. IsPrefix(Base(s), Metadata(s)) /\ Metadata(s) # Base(s)
  BY <1>1, <1>2, InBase DEF Base
<1>6. \A dir \in OwnDirs(s) : ~IsPrefix(dir, Config) /\ ~IsPrefix(dir, Shipyard)
  BY <1>3, <1>4 DEF OwnDirs, StageDirs
<1>7. Config # Shipyard /\ Metadata(s) # Config
  BY <1>1, <1>2
<1> QED
  BY <1>1, <1>5, <1>6, <1>7 DEF Metadata

LEMMA OwnDirsByPath ==
  ASSUME NEW s \in Services, NEW p \in Paths
  PROVE  /\ (\A dir \in OwnDirs(s) : ~IsPrefix(dir, p)) <=>
              ~IsPrefix(Base(s), p) /\ \A st \in Stages : ~IsPrefix(StageOf(st, s), p)
         /\ OwnDirs(s) \subseteq Paths
         /\ IsPrefix(Base(s), p) => \A st \in Stages : ~IsPrefix(StageOf(st, s), p)
         /\ \A st, other \in Stages :
              IsPrefix(StageOf(st, s), p) /\ IsPrefix(StageOf(other, s), p) => st = other
<1>1. /\ Base(s) \in Paths /\ \A st \in Stages : StageOf(st, s) \in Paths
  BY DirsArePaths
<1>2. IsPrefix(Base(s), p) => \A st \in Stages : ~IsPrefix(StageOf(st, s), p)
  BY InBase, InStage
<1>3. \A st, other \in Stages :
        IsPrefix(StageOf(st, s), p) /\ IsPrefix(StageOf(other, s), p) => st = other
  BY InStage
<1> QED
  BY <1>1, <1>2, <1>3 DEF OwnDirs, StageDirs

--------------------------------------------------------------------------------
(* What a run of trigger-deployment makes of the files, path by path. *)

(* The chart that is copied does not lie where it is copied to. *)
LEMMA ChartsApart ==
  ASSUME NEW w, DOMAIN w \subseteq Paths, NEW d \in Deployment, d.chart_base # <<>>,
         NEW helm, helm = ChartIn(Base(d.service), d.service),
         Exists(RemoveAll(w, helm), d.chart_base)
  PROVE  /\ d.chart_base \in Paths
         /\ \A q \in Paths : ~IsPrefix(helm, d.chart_base \o q)
<1>1. d.service \in Services /\ helm \in Paths
  BY DirsArePaths DEF Deployment
<1>2. d.chart_base = <<"chart">> \/ \E s \in Services : d.chart_base = ChartIn(Base(s), s)
  BY DEF Deployment
<1>3. CASE d.chart_base = <<"chart">>
  <2>1. d.chart_base \in Seq(Names) /\ Len(d.chart_base) = 1 /\ d.chart_base[1] = "chart"
    BY <1>3, FixedNames
  <2>2. ASSUME NEW q \in Paths PROVE ~IsPrefix(helm, d.chart_base \o q)
    <3>1. d.chart_base \o q \in Paths /\ (d.chart_base \o q)[1] = "chart"
      <4>1. q \in Seq(Names)
        BY DEF Paths
      <4> QED
        BY <2>1, <4>1 DEF Paths
    <3> QED
      BY <1>1, <3>1, InHelm
  <2> QED
    BY <2>1, <2>2 DEF Paths
<1>4. ASSUME NEW s \in Services, d.chart_base = ChartIn(Base(s), s)
      PROVE  /\ d.chart_base \in Paths
             /\ \A q \in Paths : ~IsPrefix(helm, d.chart_base \o q)
  <2>1. s # d.service
    <3>1. SUFFICES ASSUME s = d.service PROVE FALSE
      OBVIOUS
    <3>2. PICK p \in Below(RemoveAll(w, helm), d.chart_base) : TRUE
      BY DEF Exists
    <3>3. p \in DOMAIN RemoveAll(w, helm) /\ IsPrefix(d.chart_base, p)
      BY <3>2 DEF Below, IsStrictPrefix
    <3>4. ~IsPrefix(helm, p)
      BY <3>3, RemoveAllByPath
    <3> QED
      BY <1>4, <3>1, <3>3, <3>4
  <2>2. /\ d.chart_base \in Paths /\ Len(d.chart_base) = 4
        /\ d.chart_base[2] = s
    <3>1. d.chart_base \in Paths
      BY <1>4, DirsArePaths
    <3>2. d.chart_base = <<"base", s, "helm", s>>
      BY <1>4, HelmByName
    <3> QED
      BY <3>1, <3>2
  <2>3. ASSUME NEW q \in Paths PROVE ~IsPrefix(helm, d.chart_base \o q)
    <3>1. d.chart_base \o q \in Paths /\ (d.chart_base \o q)[2] = s
      <4>1. q \in Seq(Names) /\ d.chart_base \in Seq(Names)
        BY <2>2 DEF Paths
      <4> QED
        BY <2>2, <4>1 DEF Paths
    <3> QED
      BY <1>1, <2>1, <3>1, InHelm
  <2> QED
    BY <2>2, <2>3
<1> QED
  BY <1>2, <1>3, <1>4

LEMMA ChartedByPath ==
  ASSUME NEW w, DOMAIN w \subseteq Paths, NEW d \in Deployment, NEW tree,
         CanUpdate(tree, w, d), NEW charted, charted = copyHelmChart(w, d),
         NEW helm, helm = ChartIn(Base(d.service), d.service)
  PROVE  /\ DOMAIN charted \subseteq Paths
         /\ d.chart_base = <<>> => charted = w
         /\ \A p \in Paths : ~IsPrefix(helm, p) =>
              /\ p \in DOMAIN charted <=> p \in DOMAIN w
              /\ p \in DOMAIN w => charted[p] = w[p]
         /\ d.chart_base # <<>> => helm \notin DOMAIN charted
         /\ d.chart_base # <<>> => \A q \in Paths \ {<<>>} :
              /\ helm \o q \in DOMAIN charted <=> d.chart_base \o q \in DOMAIN w
              /\ d.chart_base \o q \in DOMAIN w => charted[helm \o q] = w[d.chart_base \o q]
<1>1. CASE d.chart_base = <<>>
  BY <1>1 DEF copyHelmChart
<1>2. CASE d.chart_base # <<>>
  <2> DEFINE left == RemoveAll(w, helm)
  <2>1. helm \in Paths
    BY DirsArePaths DEF Deployment
  <2>2. charted = CopyDir(left, d.chart_base, left, helm) /\ Exists(left, d.chart_base)
    BY <1>2 DEF copyHelmChart, CanUpdate, CanCopyDir
  <2>3. /\ d.chart_base \in Paths
        /\ \A q \in Paths : ~IsPrefix(helm, d.chart_base \o q)
    BY <1>2, <2>2, ChartsApart
  <2>4. /\ DOMAIN left \subseteq DOMAIN w
        /\ \A p : p \in DOMAIN left <=> p \in DOMAIN w /\ ~IsPrefix(helm, p)
        /\ \A p \in DOMAIN left : left[p] = w[p]
    BY RemoveAllByPath
  <2> HIDE DEF left
  <2>5. DOMAIN left \subseteq Paths
    BY <2>4
  <2>6. /\ DOMAIN charted \subseteq Paths
        /\ \A p \in Paths : ~IsPrefix(helm, p) \/ p = helm =>
             /\ p \in DOMAIN charted <=> p \in DOMAIN left
             /\ p \in DOMAIN left => charted[p] = left[p]
        /\ \A q \in Paths \ {<<>>} :
             /\ helm \o q \in DOMAIN charted <=> d.chart_base \o q \in DOMAIN left \/ helm \o q \in DOMAIN left
             /\ d.chart_base \o q \in DOMAIN left => charted[helm \o q] = left[d.chart_base \o q]
    BY <2>1, <2>2, <2>3, <2>5, CopyByPath
  <2>7. ASSUME NEW p \in Paths, ~IsPrefix(helm, p)
        PROVE  /\ p \in DOMAIN charted <=> p \in DOMAIN w
               /\ p \in DOMAIN w => charted[p] = w[p]
    BY <2>4, <2>6, <2>7
  <2>8. ASSUME NEW q \in Paths \ {<<>>}
        PROVE  /\ helm \o q \in DOMAIN charted <=> d.chart_base \o q \in DOMAIN w
               /\ d.chart_base \o q \in DOMAIN w => charted[helm \o q] = w[d.chart_base \o q]
    <3>1. helm \o q \notin DOMAIN left
      BY <2>1, <2>4, PathJoins
    <3>2. ~IsPrefix(helm, d.chart_base \o q)
      BY <2>3
    <3> QED
      BY <2>4, <2>6, <3>1, <3>2
  <2>9. helm \notin DOMAIN charted
    BY <2>1, <2>4, <2>6, PathIsItsPrefix
  <2> QED
    BY <1>2, <2>6, <2>7, <2>8, <2>9
<1> QED
  BY <1>1, <1>2

(* The base as it is in the workspace, and all the rest of the clone. *)
LEMMA BasedByPath ==
  ASSUME NEW tree, DOMAIN tree \subseteq Paths, NEW w, DOMAIN w \subseteq Paths,
         NEW s \in Services, NEW based, based = copyBase(tree, w, s)
  PROVE  /\ DOMAIN based \subseteq Paths
         /\ \A p \in Paths : ~IsPrefix(Base(s), p) =>
              /\ p \in DOMAIN based <=> p \in DOMAIN tree
              /\ p \in DOMAIN tree => based[p] = tree[p]
         /\ \A q \in Paths \ {<<>>} :
              /\ Base(s) \o q \in DOMAIN based <=> Base(s) \o q \in DOMAIN w
              /\ Base(s) \o q \in DOMAIN w => based[Base(s) \o q] = w[Base(s) \o q]
<1> DEFINE left == RemoveAll(tree, Base(s))
<1>1. Base(s) \in Paths
  BY DirsArePaths
<1>2. /\ DOMAIN left \subseteq DOMAIN tree
      /\ \A p : p \in DOMAIN left <=> p \in DOMAIN tree /\ ~IsPrefix(Base(s), p)
      /\ \A p \in DOMAIN left : left[p] = tree[p]
  BY RemoveAllByPath
<1>3. based = CopyDir(w, Base(s), left, Base(s))
  BY DEF copyBase
<1> HIDE DEF left
<1>4. DOMAIN left \subseteq Paths
  BY <1>2
<1>5. /\ DOMAIN based \subseteq Paths
      /\ \A p \in Paths : ~IsPrefix(Base(s), p) \/ p = Base(s) =>
           /\ p \in DOMAIN based <=> p \in DOMAIN left
           /\ p \in DOMAIN left => based[p] = left[p]
      /\ \A q \in Paths \ {<<>>} :
           /\ Base(s) \o q \in DOMAIN based <=> Base(s) \o q \in DOMAIN w \/ Base(s) \o q \in DOMAIN left
           /\ Base(s) \o q \in DOMAIN w => based[Base(s) \o q] = w[Base(s) \o q]
  BY <1>1, <1>3, <1>4, CopyByPath
<1>6. ASSUME NEW q \in Paths PROVE Base(s) \o q \notin DOMAIN left
  BY <1>1, <1>2, PathJoins
<1> QED
  BY <1>2, <1>5, <1>6

(* The stages that the workspace has, and all the rest of the clone. *)
LEMMA StagedByPath ==
  ASSUME NEW tree, DOMAIN tree \subseteq Paths, NEW w, DOMAIN w \subseteq Paths,
         NEW s \in Services, NEW staged, staged = copyStages(tree, w, s)
  PROVE  /\ DOMAIN staged \subseteq Paths
         /\ \A p \in Paths : (\A st \in Stages : ~IsPrefix(StageOf(st, s), p)) =>
              /\ p \in DOMAIN staged <=> p \in DOMAIN tree
              /\ p \in DOMAIN tree => staged[p] = tree[p]
         /\ \A st \in Stages, q \in Paths \ {<<>>} :
              LET p == StageOf(st, s) \o q IN
              IF Exists(w, StageOf(st, s))
                THEN /\ p \in DOMAIN staged <=> p \in DOMAIN w
                     /\ p \in DOMAIN w => staged[p] = w[p]
                ELSE /\ p \in DOMAIN staged <=> p \in DOMAIN tree
                     /\ p \in DOMAIN tree => staged[p] = tree[p]
<1> DEFINE brought == {dir \in StageDirs(s) : Exists(w, dir)}
           left == Without(tree, brought)
           files == Within(w, brought)
<1>1. brought \subseteq Paths /\ \A st \in Stages : StageOf(st, s) \in Paths
  BY DirsArePaths DEF StageDirs
<1>2. \A st \in Stages : StageOf(st, s) \in brought <=> Exists(w, StageOf(st, s))
  BY DEF StageDirs
<1>3. \A dir \in brought : \E st \in Stages : dir = StageOf(st, s)
  BY DEF StageDirs
<1>4. staged = [path \in DOMAIN files \union DOMAIN left |->
                  IF path \in DOMAIN files THEN files[path] ELSE left[path]]
  BY DEF copyStages, Over
<1>5. /\ DOMAIN left \subseteq DOMAIN tree
      /\ \A p : p \in DOMAIN left <=> p \in DOMAIN tree /\ \A dir \in brought : ~IsPrefix(dir, p)
      /\ \A p \in DOMAIN left : left[p] = tree[p]
  BY WithoutByPath
<1>6. files = [path \in UNION {Below(w, dir) : dir \in brought} |-> w[path]]
  BY DEF Within, Restrict
<1> HIDE DEF brought, left, files
<1>7. /\ \A p : p \in DOMAIN files <=> \E dir \in brought : p \in Below(w, dir)
      /\ \A p \in DOMAIN files : files[p] = w[p]
  BY <1>6
<1>8. \A p, dir : p \in Below(w, dir) <=> p \in DOMAIN w /\ IsPrefix(dir, p) /\ p # dir
  BY DEF Below, IsStrictPrefix
<1>9. DOMAIN staged = DOMAIN files \union DOMAIN left /\ DOMAIN staged \subseteq Paths
  BY <1>4, <1>5, <1>7, <1>8
<1>10. /\ \A p \in DOMAIN files : staged[p] = w[p]
       /\ \A p \in DOMAIN left : p \notin DOMAIN files => staged[p] = tree[p]
  BY <1>4, <1>5, <1>7
<1>11. ASSUME NEW p \in Paths, \A st \in Stages : ~IsPrefix(StageOf(st, s), p)
       PROVE  /\ p \in DOMAIN staged <=> p \in DOMAIN tree
              /\ p \in DOMAIN tree => staged[p] = tree[p]
  <2>1. \A dir \in brought : ~IsPrefix(dir, p)
    BY <1>3, <1>11
  <2>2. p \notin DOMAIN files /\ (p \in DOMAIN left <=> p \in DOMAIN tree)
    BY <1>5, <1>7, <1>8, <2>1
  <2> QED
    BY <1>9, <1>10, <2>2
<1>12. ASSUME NEW st \in Stages, NEW q \in Paths \ {<<>>},
              NEW p, p = StageOf(st, s) \o q
       PROVE  IF Exists(w, StageOf(st, s))
                THEN /\ p \in DOMAIN staged <=> p \in DOMAIN w
                     /\ p \in DOMAIN w => staged[p] = w[p]
                ELSE /\ p \in DOMAIN staged <=> p \in DOMAIN tree
                     /\ p \in DOMAIN tree => staged[p] = tree[p]
  <2>1. p \in Paths /\ IsPrefix(StageOf(st, s), p) /\ p # StageOf(st, s)
    BY <1>1, <1>12, PathJoins
  <2>2. \A other \in Stages : IsPrefix(StageOf(other, s), p) => other = st
    BY <2>1, OwnDirsByPath
  <2>3. CASE Exists(w, StageOf(st, s))
    <3>1. StageOf(st, s) \in brought
      BY <1>2, <2>3
    <3>2. p \notin DOMAIN left
      BY <1>5, <2>1, <3>1
    <3>3. p \in DOMAIN files <=> p \in DOMAIN w
      BY <1>7, <1>8, <2>1, <3>1
    <3> QED
      BY <1>9, <1>10, <2>3, <3>2, <3>3
  <2>4. CASE ~Exists(w, StageOf(st, s))
    <3>1. \A dir \in brought : ~IsPrefix(dir, p)
      BY <1>2, <1>3, <2>2, <2>4
    <3>2. p \notin DOMAIN files /\ (p \in DOMAIN left <=> p \in DOMAIN tree)
      BY <1>5, <1>7, <1>8, <3>1
    <3> QED
      BY <1>9, <1>10, <2>4, <3>2
  <2> QED
    BY <2>3, <2>4
<1> QED
  BY <1>9, <1>11, <1>12

(* What a run of trigger-deployment leaves of a clone, path by path, with the *)
(* files of a workspace whose chart is in its place.                          *)
IsUpdated(new, tree, charted, s, version) ==
  /\ \A p \in Paths \ {Config} : (\A dir \in OwnDirs(s) : ~IsPrefix(dir, p)) =>
       /\ p \in DOMAIN new <=> p \in DOMAIN tree
       /\ p \in DOMAIN tree => new[p] = tree[p]
  /\ \A q \in Paths \ {<<>>, <<"metadata", "deployment.yaml">>} :
       /\ Base(s) \o q \in DOMAIN new <=> Base(s) \o q \in DOMAIN charted
       /\ Base(s) \o q \in DOMAIN charted => new[Base(s) \o q] = charted[Base(s) \o q]
  /\ Metadata(s) \in DOMAIN new /\ new[Metadata(s)] = [metadata |-> version]
  /\ \A st \in Stages, q \in Paths \ {<<>>} :
       LET p == StageOf(st, s) \o q
           given == IF Exists(charted, StageOf(st, s)) THEN charted ELSE tree
       IN  /\ p \in DOMAIN new <=> p \in DOMAIN given
           /\ p \in DOMAIN given => new[p] = given[p]

(* A run of trigger-deployment for a service that ci_config.yaml lists. *)
LEMMA UpdatedByPath ==
  ASSUME NEW tree, DOMAIN tree \subseteq Paths, NEW w, DOMAIN w \subseteq Paths,
         NEW d \in Deployment, d.listed, NEW trigger,
         NEW u \in UpdateRepository(tree, w, d, trigger)
  PROVE  /\ DOMAIN u.tree \subseteq Paths
         /\ u.version \in getImageVersion(copyHelmChart(w, d), d)
         /\ CanUpdate(tree, w, d)
         /\ IsUpdated(u.tree, tree, copyHelmChart(w, d), d.service, u.version)
         /\ \E old : /\ readKeptnOperatorConfig(old) = readKeptnOperatorConfig(tree)
                     /\ u.tree = modifyOperatorConfig(old, d.service, trigger)
<1> DEFINE s       == d.service
           charted == copyHelmChart(w, d)
           based   == copyBase(tree, charted, s)
           copied == copyStages(based, charted, s)
           old    == createDeploymentMetadata(copied, s, u.version)
<1>1. s \in Services
  BY DEF Deployment
<1>2. CanUpdate(tree, w, d)
  BY DEF UpdateRepository
<1>3. /\ u.version \in getImageVersion(charted, d)
      /\ u.tree = modifyOperatorConfig(old, s, trigger)
  BY <1>2 DEF UpdateRepository
<1>4. DOMAIN charted \subseteq Paths
  BY <1>2, ChartedByPath
<1> HIDE DEF s, charted
<1>5. /\ DOMAIN based \subseteq Paths
      /\ \A p \in Paths : ~IsPrefix(Base(s), p) =>
           /\ p \in DOMAIN based <=> p \in DOMAIN tree
           /\ p \in DOMAIN tree => based[p] = tree[p]
      /\ \A q \in Paths \ {<<>>} :
           /\ Base(s) \o q \in DOMAIN based <=> Base(s) \o q \in DOMAIN charted
           /\ Base(s) \o q \in DOMAIN charted => based[Base(s) \o q] = charted[Base(s) \o q]
  BY <1>1, <1>4, BasedByPath
<1> HIDE DEF based
<1>6. /\ DOMAIN copied \subseteq Paths
      /\ \A p \in Paths : (\A st \in Stages : ~IsPrefix(StageOf(st, s), p)) =>
           /\ p \in DOMAIN copied <=> p \in DOMAIN based
           /\ p \in DOMAIN based => copied[p] = based[p]
      /\ \A st \in Stages, q \in Paths \ {<<>>} :
           LET p == StageOf(st, s) \o q IN
           IF Exists(charted, StageOf(st, s))
             THEN /\ p \in DOMAIN copied <=> p \in DOMAIN charted
                  /\ p \in DOMAIN charted => copied[p] = charted[p]
             ELSE /\ p \in DOMAIN copied <=> p \in DOMAIN based
                  /\ p \in DOMAIN based => copied[p] = based[p]
  BY <1>1, <1>4, <1>5, StagedByPath
<1> HIDE DEF copied
<1>7. old = Write(copied, Metadata(s), [metadata |-> u.version])
  BY DEF createDeploymentMetadata
<1> HIDE DEF old
<1>8. /\ DOMAIN old = DOMAIN copied \union {Metadata(s)}
      /\ old[Metadata(s)] = [metadata |-> u.version]
      /\ \A p \in DOMAIN copied \ {Metadata(s)} : old[p] = copied[p]
  BY <1>7 DEF Write
<1>9. /\ DOMAIN u.tree = DOMAIN old \union {Config}
      /\ \A p \in DOMAIN old \ {Config} : u.tree[p] = old[p]
  <2>1. PICK file : u.tree = Write(old, Config, file)
    BY <1>3 DEF modifyOperatorConfig
  <2> QED
    BY <2>1 DEF Write
<1>10. /\ Metadata(s) \in Paths /\ Config \in Paths /\ Base(s) \in Paths
       /\ \A st \in Stages : StageOf(st, s) \in Paths
       /\ Metadata(s) # Config /\ IsPrefix(Base(s), Metadata(s)) /\ Base(s) \in OwnDirs(s)
       /\ \A dir \in OwnDirs(s) : ~IsPrefix(dir, Config)
       /\ \A st \in Stages : StageOf(st, s) \in OwnDirs(s)
       /\ Metadata(s) = Base(s) \o <<"metadata", "deployment.yaml">>
  BY <1>1, DirsArePaths, FilesByName DEF OwnDirs, StageDirs
<1>11. DOMAIN u.tree \subseteq Paths
  BY <1>6, <1>8, <1>9, <1>10
<1>12. ASSUME NEW p \in Paths, \A dir \in OwnDirs(s) : ~IsPrefix(dir, p)
       PROVE  /\ p \in DOMAIN old <=> p \in DOMAIN tree
              /\ p \in DOMAIN tree => old[p] = tree[p]
  <2>1. p # Metadata(s)
    BY <1>10, <1>12
  <2> QED
    BY <1>5, <1>6, <1>8, <1>10, <1>12, <2>1
<1>13. readKeptnOperatorConfig(old) = readKeptnOperatorConfig(tree)
  BY <1>10, <1>12 DEF readKeptnOperatorConfig
<1>14. ASSUME NEW p \in Paths \ {Config}, \A dir \in OwnDirs(s) : ~IsPrefix(dir, p)
       PROVE  /\ p \in DOMAIN u.tree <=> p \in DOMAIN tree
              /\ p \in DOMAIN tree => u.tree[p] = tree[p]
  BY <1>9, <1>12, <1>14
<1>15. ASSUME NEW q \in Paths \ {<<>>, <<"metadata", "deployment.yaml">>}
       PROVE  /\ Base(s) \o q \in DOMAIN u.tree <=> Base(s) \o q \in DOMAIN charted
              /\ Base(s) \o q \in DOMAIN charted => u.tree[Base(s) \o q] = charted[Base(s) \o q]
  <2>1. Base(s) \o q \in Paths /\ IsPrefix(Base(s), Base(s) \o q)
    BY <1>10, PathJoins
  <2>2. Base(s) \o q # Config
    BY <1>10, <2>1
  <2>3. Base(s) \o q # Metadata(s)
    <3>1. <<"metadata", "deployment.yaml">> \in Paths
      BY FixedNames DEF Paths
    <3>2. /\ Inside(Base(s) \o q, Base(s)) = q
          /\ Inside(Metadata(s), Base(s)) = <<"metadata", "deployment.yaml">>
      BY <1>10, <3>1, PathJoins
    <3> QED
      BY <3>2
  <2>4. \A st \in Stages : ~IsPrefix(StageOf(st, s), Base(s) \o q)
    BY <1>1, <2>1, OwnDirsByPath
  <2>5. /\ Base(s) \o q \in DOMAIN copied <=> Base(s) \o q \in DOMAIN charted
        /\ Base(s) \o q \in DOMAIN charted => copied[Base(s) \o q] = charted[Base(s) \o q]
    BY <1>5, <1>6, <2>1, <2>4
  <2> QED
    BY <1>8, <1>9, <2>2, <2>3, <2>5
<1>16. Metadata(s) \in DOMAIN u.tree /\ u.tree[Metadata(s)] = [metadata |-> u.version]
  BY <1>8, <1>9, <1>10
<1>17. ASSUME NEW st \in Stages, NEW q \in Paths \ {<<>>}, NEW p, p = StageOf(st, s) \o q,
              NEW given, given = IF Exists(charted, StageOf(st, s)) THEN charted ELSE tree
       PROVE  /\ p \in DOMAIN u.tree <=> p \in DOMAIN given
              /\ p \in DOMAIN given => u.tree[p] = given[p]
  <2>1. p \in Paths /\ IsPrefix(StageOf(st, s), p)
    BY <1>10, <1>17, PathJoins
  <2>2. ~IsPrefix(Base(s), p)
    BY <1>1, <2>1, OwnDirsByPath
  <2>3. p # Metadata(s) /\ p # Config
    BY <1>10, <2>1, <2>2
  <2>4. /\ p \in DOMAIN copied <=> p \in DOMAIN given
        /\ p \in DOMAIN given => copied[p] = given[p]
    BY <1>5, <1>6, <1>17, <2>1, <2>2
  <2> QED
    BY <1>8, <1>9, <2>3, <2>4
<1>18. \A st \in Stages, q \in Paths \ {<<>>} :
         LET p == StageOf(st, s) \o q
             given == IF Exists(charted, StageOf(st, s)) THEN charted ELSE tree
         IN  /\ p \in DOMAIN u.tree <=> p \in DOMAIN given
             /\ p \in DOMAIN given => u.tree[p] = given[p]
  BY <1>17
<1>19. \E x : /\ readKeptnOperatorConfig(x) = readKeptnOperatorConfig(tree)
              /\ u.tree = modifyOperatorConfig(x, s, trigger)
  BY <1>3, <1>13
<1>20. IsUpdated(u.tree, tree, charted, s, u.version)
  BY <1>14, <1>15, <1>16, <1>18 DEF IsUpdated
<1> QED
  BY <1>2, <1>3, <1>11, <1>19, <1>20 DEF s, charted

--------------------------------------------------------------------------------
(* Induction, as a least element of a set of numbers. *)

Smaller == {pair \in Nat \X Nat : pair[1] < pair[2]}

LEMMA LeastOf ==
  ASSUME NEW T, T \subseteq Nat, T # {}
  PROVE  \E x \in T : \A y \in T : x <= y
<1>1. IsWellFoundedOn(Smaller, Nat)
  BY NatLessThanWellFounded DEF OpToRel, Smaller
<1>2. \E x \in T : \A y \in T : ~(<<y, x>> \in Smaller)
  BY WFMin, <1>1, Zenon
<1>3. PICK x \in T : \A y \in T : ~(<<y, x>> \in Smaller)
  BY <1>2
<1>4. ASSUME NEW y \in T PROVE x <= y
  <2>1. <<y, x>> \in Nat \X Nat /\ ~(<<y, x>> \in Smaller)
    BY <1>3
  <2> QED
    BY <2>1 DEF Smaller
<1> QED
  BY <1>4

--------------------------------------------------------------------------------
(* The entries of config.yaml. *)

Distinct(config) == \A i, k \in DOMAIN config : config[i].Name = config[k].Name => i = k

LEMMA EntryAtByName ==
  ASSUME NEW config \in Seq(ConfigEntry), NEW s, NEW i, i = EntryAt(config, s)
  PROVE  /\ i \in 0..Len(config)
         /\ i = 0 <=> \A k \in DOMAIN config : config[k].Name # s
         /\ i # 0 => i \in DOMAIN config /\ config[i].Name = s
<1> DEFINE I == {k \in 1..Len(config) : config[k].Name = s}
<1>1. i = IF I # {} THEN CHOOSE x \in I : \A y \in I : x <= y ELSE 0
  BY DEF EntryAt, SelectInSeq, Min
<1>2. DOMAIN config = 1..Len(config) /\ Len(config) \in Nat
  OBVIOUS
<1>3. CASE I = {}
  BY <1>1, <1>2, <1>3
<1>4. CASE I # {}
  <2>1. I \subseteq Nat
    OBVIOUS
  <2>2. \E x \in I : \A y \in I : x <= y
    BY <1>4, <2>1, LeastOf
  <2>3. i \in I
    BY <1>1, <1>4, <2>2
  <2> QED
    BY <1>2, <2>3
<1> QED
  BY <1>3, <1>4

(* A deployment gives its service an entry, and leaves the others'. *)
LEMMA EntryModified ==
  ASSUME NEW tree, NEW config \in Seq(ConfigEntry), config = readKeptnOperatorConfig(tree),
         Distinct(config), NEW s \in Services, NEW trigger \in Stages \X SequenceNames,
         NEW entry, entry = [Name |-> s, DeploymentTrigger |-> trigger],
         NEW i, i = EntryAt(config, s),
         NEW new, new = readKeptnOperatorConfig(modifyOperatorConfig(tree, s, trigger))
  PROVE  /\ new = IF i = 0 THEN Append(config, entry) ELSE [config EXCEPT ![i] = entry]
         /\ new \in Seq(ConfigEntry) /\ Distinct(new)
         /\ DOMAIN config \subseteq DOMAIN new
         /\ \A k \in DOMAIN config : k # i => new[k] = config[k]
         /\ \E k \in DOMAIN new : new[k] = entry /\ \A n \in DOMAIN new : n # k => n \in DOMAIN config /\ n # i
<1> DEFINE changed == IF i = 0 THEN Append(config, entry) ELSE [config EXCEPT ![i] = entry]
<1>1. /\ i \in 0..Len(config)
      /\ i = 0 <=> \A k \in DOMAIN config : config[k].Name # s
      /\ i # 0 => i \in DOMAIN config /\ config[i].Name = s
  BY EntryAtByName
<1>2. new = changed
  <2>1. modifyOperatorConfig(tree, s, trigger) = Write(tree, Config, [config |-> changed])
    BY DEF modifyOperatorConfig, ReplaceAt
  <2> HIDE DEF changed
  <2>2. /\ Config \in DOMAIN modifyOperatorConfig(tree, s, trigger)
        /\ modifyOperatorConfig(tree, s, trigger)[Config] = [config |-> changed]
    BY <2>1 DEF Write
  <2> QED
    BY <2>2 DEF readKeptnOperatorConfig
<1>3. entry \in ConfigEntry /\ entry.Name = s
  BY DEF ConfigEntry
<1>4. DOMAIN config = 1..Len(config) /\ Len(config) \in Nat
  OBVIOUS
<1>5. CASE i = 0
  <2>1. /\ new = Append(config, entry) /\ new \in Seq(ConfigEntry)
        /\ DOMAIN new = 1..(Len(config) + 1)
        /\ new[Len(config) + 1] = entry
        /\ \A k \in DOMAIN config : new[k] = config[k]
    BY <1>2, <1>3, <1>4, <1>5
  <2>2. Distinct(new)
    <3>1. SUFFICES ASSUME NEW m \in DOMAIN new, NEW k \in DOMAIN new, new[m].Name = new[k].Name
                   PROVE  m = k
      BY DEF Distinct
    <3>2. CASE m \in DOMAIN config /\ k \in DOMAIN config
      BY <2>1, <3>1, <3>2 DEF Distinct
    <3>3. \A n \in DOMAIN new \ DOMAIN config : n = Len(config) + 1 /\ new[n].Name = s
      BY <1>3, <1>4, <2>1
    <3> QED
      BY <1>1, <1>5, <2>1, <3>1, <3>2, <3>3
  <2>3. Len(config) + 1 \in DOMAIN new /\ \A n \in DOMAIN new : n # Len(config) + 1 => n \in DOMAIN config /\ n # i
    BY <1>4, <1>5, <2>1
  <2>4. DOMAIN config \subseteq DOMAIN new
    BY <1>4, <2>1
  <2> QED
    BY <1>2, <2>1, <2>2, <2>3, <2>4
<1>6. CASE i # 0
  <2>1. /\ new = [config EXCEPT ![i] = entry] /\ new \in Seq(ConfigEntry)
        /\ DOMAIN new = DOMAIN config
        /\ new[i] = entry
        /\ \A k \in DOMAIN config : k # i => new[k] = config[k]
    BY <1>1, <1>2, <1>3, <1>4, <1>6
  <2>2. \A k \in DOMAIN config : new[k].Name = config[k].Name
    BY <1>1, <1>3, <1>6, <2>1
  <2>3. Distinct(new)
    BY <2>1, <2>2 DEF Distinct
  <2> QED
    BY <1>1, <1>2, <1>6, <2>1, <2>3
<1> QED
  BY <1>5, <1>6

(* What is found are a stage and a sequence of the shipyard. *)
LEMMA TriggerType ==
  ASSUME NEW tree, readShipyard(tree) \in Seq(ShipyardStage), NEW d \in Deployment,
         NEW trigger, trigger = getStageAndSequence(tree, d), trigger # NoTrigger
  PROVE  trigger \in Stages \X SequenceNames
<1> DEFINE stages == readShipyard(tree)
           stage  == StageFor(stages, d.stage)
           sequence == SequenceFor(stages, stage, d.sequence)
<1>1. trigger = <<stage, sequence>> /\ stage # NoName /\ sequence # NoName
  BY DEF getStageAndSequence
<1>2. /\ DOMAIN stages = 1..Len(stages) /\ Len(stages) \in Nat
      /\ \A n \in DOMAIN stages : stages[n].name \in Stages /\ stages[n].sequences \in Seq(SequenceNames)
      /\ stages # <<>> => 1 \in DOMAIN stages
  <2>1. stages \in Seq(ShipyardStage)
    OBVIOUS
  <2> HIDE DEF stages
  <2>2. \A n \in DOMAIN stages : stages[n] \in ShipyardStage
    BY <2>1
  <2> QED
    BY <2>1, <2>2 DEF ShipyardStage
<1>3. d.stage \in Stages \union {NoName} /\ d.sequence \in SequenceNames \union {NoName}
  BY DEF Deployment
<1> HIDE DEF stages
<1>4. \E n \in DOMAIN stages : stages[n].name = stage
  BY <1>1, <1>2 DEF StageFor
<1>5. PICK m \in DOMAIN stages : stages[m].name = stage
  BY <1>4
<1>6. stage \in Stages /\ 1 \in DOMAIN stages
  BY <1>2, <1>5
<1>7. CASE d.sequence # NoName
  <2>1. sequence = d.sequence /\ sequence \in SequenceNames
    BY <1>1, <1>3, <1>7 DEF SequenceFor
  <2> QED
    BY <1>1, <1>6, <2>1
<1>8. CASE d.sequence = NoName
  <2>1. sequence = stages[1].sequences[1] /\ stages[1].sequences # <<>>
    BY <1>1, <1>8 DEF SequenceFor
  <2>2. sequence \in SequenceNames
    BY <1>2, <1>6, <2>1
  <2> QED
    BY <1>1, <1>6, <2>2
<1> QED
  BY <1>7, <1>8

--------------------------------------------------------------------------------
(* Every commit of the default branch is a repository that jobs can work on. *)

IsRepository(tree) ==
  /\ DOMAIN tree \subseteq Paths
  /\ readShipyard(tree) \in Seq(ShipyardStage)
  /\ readKeptnOperatorConfig(tree) \in Seq(ConfigEntry)
  /\ Distinct(readKeptnOperatorConfig(tree))

MasterInv ==
  /\ ShapeOK
  /\ master # <<>>
  /\ \A i \in DOMAIN master : IsRepository(master[i])

LEMMA GivenArePaths ==
  /\ DOMAIN Initial \subseteq Paths
  /\ \A w \in DOMAIN Workspaces : DOMAIN Workspaces[w] \subseteq Paths
  /\ \A st \in DOMAIN StageBranches : DOMAIN StageBranches[st] \subseteq Paths
<1>1. DOMAIN Initial \subseteq Given
  BY DEF Given
<1>2. ASSUME NEW w \in DOMAIN Workspaces PROVE DOMAIN Workspaces[w] \subseteq Given
  BY DEF Given
<1>3. ASSUME NEW st \in DOMAIN StageBranches PROVE DOMAIN StageBranches[st] \subseteq Given
  BY DEF Given
<1> QED
  BY <1>1, <1>2, <1>3, FilesAssumption

LEMMA InitialIsRepository == IsRepository(Initial)
  BY GivenArePaths, ContentsAssumption DEF IsRepository, Distinct

LEMMA UpdateKeepsRepository ==
  ASSUME NEW tree, IsRepository(tree), NEW w, DOMAIN w \subseteq Paths,
         NEW d \in Deployment, NEW trigger, trigger = getStageAndSequence(tree, d),
         trigger # NoTrigger, NEW u \in UpdateRepository(tree, w, d, trigger)
  PROVE  IsRepository(u.tree)
<1> DEFINE s == d.service
           stages == readShipyard(tree)
           config == readKeptnOperatorConfig(tree)
           entry  == [Name |-> s, DeploymentTrigger |-> trigger]
<1>1. CASE ~d.listed
  BY <1>1 DEF UpdateRepository
<1>2. CASE d.listed
  <2>1. DOMAIN tree \subseteq Paths
    BY DEF IsRepository
  <2>2. s \in Services /\ stages \in Seq(ShipyardStage) /\ config \in Seq(ConfigEntry) /\ Distinct(config)
    BY DEF Deployment, IsRepository
  <2>3. DOMAIN u.tree \subseteq Paths /\ IsUpdated(u.tree, tree, copyHelmChart(w, d), s, u.version)
    BY <1>2, <2>1, UpdatedByPath
  <2>4. \A p \in Paths \ {Config} : (\A dir \in OwnDirs(s) : ~IsPrefix(dir, p)) =>
          /\ p \in DOMAIN u.tree <=> p \in DOMAIN tree
          /\ p \in DOMAIN tree => u.tree[p] = tree[p]
    BY <2>3 DEF IsUpdated
  <2>5. PICK old : /\ readKeptnOperatorConfig(old) = readKeptnOperatorConfig(tree)
                   /\ u.tree = modifyOperatorConfig(old, s, trigger)
    BY <1>2, <2>1, UpdatedByPath
  <2>6. trigger \in Stages \X SequenceNames
    BY <2>2, TriggerType
  <2>7. readShipyard(u.tree) = stages
    <3>1. /\ Shipyard \in Paths \ {Config}
          /\ \A dir \in OwnDirs(s) : ~IsPrefix(dir, Shipyard)
      BY <2>2, DirsArePaths, FilesByName
    <3> QED
      BY <2>4, <3>1 DEF readShipyard
  <2> DEFINE new == readKeptnOperatorConfig(u.tree)
             i   == EntryAt(config, s)
  <2>8. /\ new \in Seq(ConfigEntry) /\ Distinct(new)
        /\ \A k \in DOMAIN config : k # i => new[k] = config[k]
        /\ \E k \in DOMAIN new : new[k] = entry /\ \A n \in DOMAIN new : n # k => n \in DOMAIN config /\ n # i
    BY <2>2, <2>5, <2>6, EntryModified
  <2> QED
    BY <2>2, <2>3, <2>7, <2>8 DEF IsRepository
<1> QED
  BY <1>1, <1>2

(* What a job that pushes does. *)
Publishes(j) ==
  LET tree == Last(master)
      trigger == getStageAndSequence(tree, call[j])
  IN  /\ trigger # NoTrigger
      /\ \E u \in UpdateRepository(tree, Workspaces[call[j].workspace], call[j], trigger) :
           /\ tags[<<call[j].service, u.version>>] = 0
           /\ master' = Append(master, u.tree)
           /\ job' = [job EXCEPT ![j] = [step |-> "tag", version |-> u.version,
                                         commit |-> Len(master) + 1]]

LEMMA DeployPublishes ==
  ASSUME NEW j \in Jobs, Deploy(j)
  PROVE  /\ UNCHANGED <<tags, call>>
         /\ job[j].step = "start"
         /\ Publishes(j) \/ (UNCHANGED master /\ job' = [job EXCEPT ![j].step = "failed"])
<1> DEFINE tree    == Last(master)
           trigger == getStageAndSequence(tree, call[j])
           all     == UpdateRepository(tree, Workspaces[call[j].workspace], call[j], trigger)
           updated == IF trigger = NoTrigger THEN {} ELSE all
           fresh   == {u \in updated : tags[<<call[j].service, u.version>>] = 0}
           Pushes(u) == /\ master' = Append(master, u.tree)
                        /\ job' = [job EXCEPT ![j] = [step |-> "tag", version |-> u.version,
                                                      commit |-> Len(master) + 1]]
<1>1. /\ UNCHANGED <<tags, call>>
      /\ job[j].step = "start"
      /\ (\E u \in fresh : Pushes(u)) \/ (UNCHANGED master /\ job' = [job EXCEPT ![j].step = "failed"])
  BY Zenon DEF Deploy
<1>2. ASSUME NEW u \in fresh, Pushes(u) PROVE Publishes(j)
  <2>1. trigger # NoTrigger /\ u \in all /\ tags[<<call[j].service, u.version>>] = 0
    OBVIOUS
  <2> QED
    BY <1>2, <2>1 DEF Publishes
<1> QED
  BY <1>1, <1>2

LEMMA CallOfJob ==
  ASSUME ShapeOK, NEW j \in Jobs
  PROVE  /\ call[j] \in Deployment
         /\ call[j].workspace \in DOMAIN Workspaces
         /\ call[j].service \in Services
         /\ DOMAIN Workspaces[call[j].workspace] \subseteq Paths
<1>1. [call |-> call, request |-> request] \in [call : [Jobs -> Deployment], request : [Promotions -> Request]]
  BY ServiceAssumption DEF ShapeOK, HandlersOK
<1>2. call \in [Jobs -> Deployment]
  BY <1>1
<1> QED
  BY <1>2, GivenArePaths DEF Deployment

LEMMA LastIsRepository ==
  ASSUME MasterInv
  PROVE  Len(master) \in Nat \ {0} /\ DOMAIN master = 1..Len(master) /\ IsRepository(Last(master))
<1>1. Len(master) \in Nat \ {0} /\ Last(master) = master[Len(master)]
  BY LastOfSeq DEF MasterInv, ShapeOK, MasterOK
<1>2. DOMAIN master = 1..Len(master)
  <2>1. PICK S : master \in Seq(S)
    BY DEF MasterInv, ShapeOK, MasterOK, IsSeq
  <2> QED
    BY <2>1
<1> QED
  BY <1>1, <1>2 DEF MasterInv

LEMMA AppendGrows ==
  ASSUME MasterInv, NEW tree, IsRepository(tree), master' = Append(master, tree), ShapeOK'
  PROVE  MasterInv' /\ Last(master') = tree
<1>1. PICK S : master \in Seq(S)
  BY DEF MasterInv, ShapeOK, MasterOK, IsSeq
<1>2. master \in Seq(S \union {tree}) /\ tree \in S \union {tree}
  BY <1>1
<1>3. /\ Len(master) \in Nat
      /\ DOMAIN master = 1..Len(master)
      /\ DOMAIN master' = 1..(Len(master) + 1)
      /\ Len(master') = Len(master) + 1
      /\ master'[Len(master) + 1] = tree
      /\ \A i \in DOMAIN master : master'[i] = master[i]
  BY <1>2
<1>4. \A i \in DOMAIN master' : IsRepository(master'[i])
  <2>1. TAKE i \in DOMAIN master'
  <2>2. i \in DOMAIN master \/ i = Len(master) + 1
    BY <1>3
  <2>3. CASE i \in DOMAIN master
    BY <1>3, <2>3 DEF MasterInv
  <2>4. CASE i = Len(master) + 1
    BY <1>3, <2>4
  <2> QED
    BY <2>2, <2>3, <2>4
<1>5. master' # <<>> /\ Last(master') = tree
  BY <1>3 DEF Last
<1> QED
  BY <1>4, <1>5 DEF MasterInv

LEMMA PublishedIsRepository ==
  ASSUME MasterInv, NEW j \in Jobs, NEW trigger, trigger = getStageAndSequence(Last(master), call[j]),
         trigger # NoTrigger,
         NEW u \in UpdateRepository(Last(master), Workspaces[call[j].workspace], call[j], trigger)
  PROVE  IsRepository(u.tree)
<1>1. IsRepository(Last(master))
  BY LastIsRepository
<1>2. call[j] \in Deployment /\ DOMAIN Workspaces[call[j].workspace] \subseteq Paths
  BY CallOfJob DEF MasterInv
<1> QED
  BY <1>1, <1>2, UpdateKeepsRepository

LEMMA MasterInit ==
  ASSUME Init
  PROVE  MasterInv
<1>1. ShapeOK
  BY InitShape
<1>2. master = <<Initial>> /\ master # <<>> /\ DOMAIN master = {1} /\ master[1] = Initial
  BY DEF Init
<1> QED
  BY <1>1, <1>2, InitialIsRepository DEF MasterInv

LEMMA MasterStays ==
  ASSUME MasterInv, ShapeOK', UNCHANGED master
  PROVE  MasterInv'
  BY DEF MasterInv

LEMMA MasterStep ==
  ASSUME MasterInv, PromotionInv', [Next]_vars
  PROVE  MasterInv'
<1>1. ShapeOK'
  BY DEF PromotionInv
<1>2. CASE UNCHANGED master
  BY <1>1, <1>2, MasterStays
<1>3. ASSUME NEW j \in Jobs, Publishes(j)
      PROVE  MasterInv'
  <2> DEFINE trigger == getStageAndSequence(Last(master), call[j])
             all     == UpdateRepository(Last(master), Workspaces[call[j].workspace], call[j], trigger)
  <2>1. trigger # NoTrigger /\ \E u \in all : master' = Append(master, u.tree)
    BY <1>3 DEF Publishes
  <2>2. PICK u \in all : master' = Append(master, u.tree)
    BY <2>1
  <2>3. IsRepository(u.tree)
    BY <2>1, PublishedIsRepository
  <2> QED
    BY <1>1, <2>2, <2>3, AppendGrows
<1>4. UNCHANGED master \/ \E j \in Jobs : Publishes(j)
  BY DeployPublishes DEF Next, Tag, Receive, Handle, GetGitSecret, CloneRelease, CloneStage,
     Push, Finish, Restart, vars, jobVars
<1> QED
  BY <1>2, <1>3, <1>4

LEMMA MasterInvariant == Spec => []MasterInv
  BY MasterInit, MasterStep, PromotionInvariant, PTL DEF Spec

--------------------------------------------------------------------------------
(* The entries of other services. *)

(* What the recursive function of EntriesWithout is to satisfy. *)
IsFilter(f, config, s) ==
  f = [k \in 0..Len(config) |->
         IF k = 0 THEN <<>>
         ELSE IF config[k].Name = s THEN f[k - 1] ELSE Append(f[k - 1], config[k])]

LEMMA FilterIsUnique ==
  ASSUME NEW config \in Seq(ConfigEntry), NEW s, NEW f, IsFilter(f, config, s),
         NEW g, IsFilter(g, config, s)
  PROVE  f[Len(config)] = g[Len(config)]
<1>1. Len(config) \in Nat
  OBVIOUS
<1> DEFINE T == {k \in 0..Len(config) : f[k] # g[k]}
<1>2. ASSUME T # {} PROVE FALSE
  <2>1. T \subseteq Nat
    BY <1>1
  <2>2. PICK k \in T : \A n \in T : k <= n
    BY <1>2, <2>1, LeastOf
  <2>3. k \in 0..Len(config) /\ f[k] # g[k]
    OBVIOUS
  <2>4. k # 0
    BY <2>3 DEF IsFilter
  <2>5. k - 1 \in 0..Len(config) /\ ~(k <= k - 1)
    BY <1>1, <2>3, <2>4
  <2>6. f[k - 1] = g[k - 1]
    BY <2>2, <2>5
  <2> QED
    BY <2>3, <2>4, <2>6 DEF IsFilter
<1> QED
  BY <1>1, <1>2

LEMMA EntriesWithoutIsFilter ==
  ASSUME NEW config, NEW s, \E f : IsFilter(f, config, s)
  PROVE  \E f : IsFilter(f, config, s) /\ EntriesWithout(config, s) = f[Len(config)]
<1> DEFINE first == CHOOSE f : IsFilter(f, config, s)
<1>1. IsFilter(first, config, s)
  OBVIOUS
<1>2. EntriesWithout(config, s) = first[Len(config)]
  BY DEF EntriesWithout, IsFilter
<1> QED
  BY <1>1, <1>2

LEMMA SubSeqGrows ==
  ASSUME NEW S, NEW config \in Seq(S), NEW m \in Nat \ {0}, NEW k \in Nat, k <= Len(config)
  PROVE  /\ SubSeq(config, m, k) \in Seq(S)
         /\ m > k => SubSeq(config, m, k) = <<>>
         /\ m <= k => /\ SubSeq(config, m, k - 1) \in Seq(S)
                      /\ SubSeq(config, m, k) = Append(SubSeq(config, m, k - 1), config[k])
<1>1. Len(config) \in Nat /\ DOMAIN config = 1..Len(config)
  OBVIOUS
<1>2. SubSeq(config, m, k) \in Seq(S)
  BY <1>1
<1>3. ASSUME m > k PROVE SubSeq(config, m, k) = <<>>
  BY <1>1, <1>3
<1>4. ASSUME m <= k
      PROVE  /\ SubSeq(config, m, k - 1) \in Seq(S)
             /\ SubSeq(config, m, k) = Append(SubSeq(config, m, k - 1), config[k])
  <2> DEFINE a == SubSeq(config, m, k)  c == SubSeq(config, m, k - 1)  b == Append(c, config[k])
  <2>1. a \in Seq(S) /\ Len(a) = k - m + 1 /\ \A n \in 1..(k - m + 1) : a[n] = config[m + n - 1]
    BY <1>1, <1>4
  <2>2. c \in Seq(S) /\ Len(c) = k - m /\ \A n \in 1..(k - m) : c[n] = config[m + n - 1]
    BY <1>1, <1>4
  <2>3. k \in DOMAIN config /\ config[k] \in S
    BY <1>1, <1>4
  <2> HIDE DEF a, c
  <2>4. /\ b \in Seq(S) /\ Len(b) = k - m + 1 /\ b[k - m + 1] = config[k]
        /\ \A n \in 1..(k - m) : b[n] = c[n]
    BY <1>4, <2>2, <2>3
  <2> HIDE DEF b
  <2>5. \A n \in 1..(k - m + 1) : b[n] = a[n]
    <3>1. TAKE n \in 1..(k - m + 1)
    <3>2. CASE n = k - m + 1
      <4>1. m + n - 1 = k
        BY <3>2
      <4> QED
        BY <2>1, <2>4, <3>2, <4>1
    <3>3. CASE n # k - m + 1
      <4>1. n \in 1..(k - m)
        BY <1>4, <3>3
      <4> QED
        BY <2>1, <2>2, <2>4, <4>1
    <3> QED
      BY <3>2, <3>3
  <2>6. a = b
    BY <1>4, <2>1, <2>4, <2>5, SeqEqual
  <2> QED
    BY <2>2, <2>6 DEF a, b, c
<1> QED
  BY <1>2, <1>3, <1>4

(* With one entry of the service at most, they are the sequence without it. *)
LEMMA EntriesOfOthers ==
  ASSUME NEW config \in Seq(ConfigEntry), Distinct(config), NEW s, NEW i, i = EntryAt(config, s)
  PROVE  EntriesWithout(config, s) = IF i = 0 THEN config ELSE RemoveAt(config, i)
<1> DEFINE before == SubSeq(config, 1, i - 1)
           g == [k \in 0..Len(config) |->
                   IF i = 0 \/ k < i THEN SubSeq(config, 1, k)
                   ELSE before \o SubSeq(config, i + 1, k)]
<1>1. /\ i \in 0..Len(config)
      /\ i = 0 <=> \A k \in DOMAIN config : config[k].Name # s
      /\ i # 0 => i \in DOMAIN config /\ config[i].Name = s
  BY EntryAtByName
<1>2. Len(config) \in Nat /\ DOMAIN config = 1..Len(config)
  OBVIOUS
<1>3. \A k \in DOMAIN config : config[k].Name = s <=> k = i /\ i # 0
  BY <1>1 DEF Distinct
<1>4. i # 0 => before \in Seq(ConfigEntry)
  BY <1>1, <1>2
<1>5. ASSUME NEW x \in Seq(ConfigEntry), NEW y \in Seq(ConfigEntry), NEW e \in ConfigEntry
      PROVE  x \o Append(y, e) = Append(x \o y, e) /\ x \o <<>> = x
  OBVIOUS
<1>6. IsFilter(g, config, s)
  <2>1. SUFFICES ASSUME NEW k \in 0..Len(config)
                 PROVE  g[k] = IF k = 0 THEN <<>>
                               ELSE IF config[k].Name = s THEN g[k - 1] ELSE Append(g[k - 1], config[k])
    BY DEF IsFilter
  <2>2. /\ i = 0 \/ k < i => g[k] = SubSeq(config, 1, k)
        /\ ~(i = 0 \/ k < i) => g[k] = before \o SubSeq(config, i + 1, k)
    OBVIOUS
  <2>3. ASSUME k # 0
        PROVE  /\ i = 0 \/ k - 1 < i => g[k - 1] = SubSeq(config, 1, k - 1)
               /\ ~(i = 0 \/ k - 1 < i) => g[k - 1] = before \o SubSeq(config, i + 1, k - 1)
    <3>1. k - 1 \in 0..Len(config)
      BY <1>2, <2>3
    <3> QED
      BY <3>1
  <2> HIDE DEF g
  <2>4. k \in Nat /\ k <= Len(config) /\ i \in Nat /\ i + 1 \in Nat \ {0} /\ 1 \in Nat \ {0}
    BY <1>1, <1>2
  <2>5. config \in Seq(ConfigEntry)
    OBVIOUS
  <2>6. CASE k = 0
    <3>1. SubSeq(config, 1, k) = <<>>
      BY <2>6, <2>4, <2>5, SubSeqGrows
    <3>2. i = 0 \/ k < i
      BY <2>6, <2>4
    <3> QED
      BY <2>2, <2>6, <3>1, <3>2
  <2>7. CASE k # 0 /\ config[k].Name = s
    <3>1. k = i /\ i # 0 /\ k \in DOMAIN config
      BY <1>2, <1>3, <2>7
    <3>2. g[k - 1] = before
      BY <2>3, <2>7, <2>4, <3>1
    <3>3. SubSeq(config, i + 1, k) = <<>>
      BY <2>4, <2>5, <3>1, SubSeqGrows
    <3>4. g[k] = before \o <<>>
      BY <2>2, <2>4, <3>1, <3>3
    <3>5. before \o <<>> = before
      BY <1>4, <3>1
    <3> QED
      BY <2>7, <3>2, <3>4, <3>5
  <2>8. CASE k # 0 /\ config[k].Name # s
    <3>1. k \in DOMAIN config /\ (i = 0 \/ k # i) /\ config[k] \in ConfigEntry
      BY <1>2, <1>3, <2>8
    <3>2. CASE i = 0 \/ k < i
      <4>1. g[k] = SubSeq(config, 1, k) /\ g[k - 1] = SubSeq(config, 1, k - 1)
        BY <2>2, <2>3, <2>8, <2>4, <3>2
      <4>2. SubSeq(config, 1, k) = Append(SubSeq(config, 1, k - 1), config[k])
        BY <2>8, <2>4, <2>5, SubSeqGrows
      <4> QED
        BY <2>8, <4>1, <4>2
    <3>3. CASE i # 0 /\ k > i
      <4>1. /\ SubSeq(config, i + 1, k) = Append(SubSeq(config, i + 1, k - 1), config[k])
            /\ SubSeq(config, i + 1, k - 1) \in Seq(ConfigEntry)
        <5>1. PICK m \in Nat \ {0} : m = i + 1
          BY <2>4
        <5>2. k \in Nat /\ k <= Len(config) /\ m <= k
          BY <2>4, <3>3, <5>1
        <5>3. /\ SubSeq(config, m, k) = Append(SubSeq(config, m, k - 1), config[k])
              /\ SubSeq(config, m, k - 1) \in Seq(ConfigEntry)
          BY <2>5, <5>2, SubSeqGrows
        <5> QED
          BY <5>1, <5>3
      <4>2. ~(i = 0 \/ k < i) /\ ~(i = 0 \/ k - 1 < i)
        BY <2>4, <3>3
      <4>3. g[k - 1] = before \o SubSeq(config, i + 1, k - 1)
        BY <2>3, <2>8, <4>2
      <4>4. g[k] = before \o SubSeq(config, i + 1, k)
        BY <2>2, <4>2
      <4> HIDE DEF before
      <4>5. before \in Seq(ConfigEntry)
        BY <1>4, <3>3
      <4>6. before \o Append(SubSeq(config, i + 1, k - 1), config[k])
              = Append(before \o SubSeq(config, i + 1, k - 1), config[k])
        BY <1>5, <3>1, <4>1, <4>5
      <4> QED
        BY <2>8, <4>1, <4>3, <4>4, <4>6
    <3> QED
      BY <1>1, <1>2, <3>1, <3>2, <3>3
  <2> QED
    BY <2>6, <2>7, <2>8
<1>7. g[Len(config)] = IF i = 0 THEN config ELSE RemoveAt(config, i)
  <2>1. Len(config) \in 0..Len(config) /\ (i # 0 => ~(Len(config) < i))
    BY <1>1, <1>2
  <2>2. SubSeq(config, 1, Len(config)) = config
    OBVIOUS
  <2> QED
    BY <2>1, <2>2 DEF RemoveAt
<1> HIDE DEF g
<1>8. PICK f : IsFilter(f, config, s) /\ EntriesWithout(config, s) = f[Len(config)]
  BY <1>6, EntriesWithoutIsFilter
<1> QED
  BY <1>6, <1>7, <1>8, FilterIsUnique

--------------------------------------------------------------------------------
(* All that is not the service's. *)

LEMMA OthersByPath ==
  ASSUME NEW a, DOMAIN a \subseteq Paths, NEW b, DOMAIN b \subseteq Paths, NEW s,
         \A p \in Paths \ {Config} : (\A dir \in OwnDirs(s) : ~IsPrefix(dir, p)) =>
           /\ p \in DOMAIN a <=> p \in DOMAIN b
           /\ p \in DOMAIN b => a[p] = b[p]
  PROVE  Others(a, s) = Others(b, s)
<1> DEFINE D(x) == {p \in DOMAIN x : p # Config /\ \A dir \in OwnDirs(s) : ~IsPrefix(dir, p)}
<1>1. ASSUME NEW x
      PROVE  Others(x, s) = [p \in D(x) |-> x[p]]
  <2> DEFINE rest == Without(x, OwnDirs(s))
  <2>1. /\ DOMAIN rest = {p \in DOMAIN x : \A dir \in OwnDirs(s) : ~IsPrefix(dir, p)}
        /\ \A p \in DOMAIN rest : rest[p] = x[p]
    BY DEF Without, Restrict
  <2>2. Others(x, s) = [p \in DOMAIN rest \ {Config} |-> rest[p]]
    BY DEF Others, Restrict
  <2> HIDE DEF rest
  <2>3. DOMAIN rest \ {Config} = D(x)
    BY <2>1
  <2> QED
    BY <2>1, <2>2, <2>3
<1>2. D(a) = D(b) /\ \A p \in D(b) : a[p] = b[p]
  OBVIOUS
<1> QED
  BY <1>1, <1>2

LEMMA DeletedByPath ==
  ASSUME NEW tree, DOMAIN tree \subseteq Paths, NEW s \in Services,
         NEW left, left = deleteStages(deleteBase(tree, s), s)
  PROVE  /\ DOMAIN left \subseteq DOMAIN tree
         /\ \A p \in DOMAIN left : left[p] = tree[p]
         /\ \A p \in DOMAIN tree : (\A dir \in OwnDirs(s) : ~IsPrefix(dir, p)) => p \in DOMAIN left
         /\ \A dir \in OwnDirs(s) : ~Exists(left, dir)
<1> DEFINE based == deleteBase(tree, s)
           gone  == {dir \in StageDirs(s) : Exists(based, dir)}
<1>1. /\ DOMAIN based \subseteq DOMAIN tree
      /\ \A p \in DOMAIN based : based[p] = tree[p]
      /\ \A p \in DOMAIN tree : ~IsPrefix(Base(s), p) => p \in DOMAIN based
      /\ ~Exists(based, Base(s))
  <2>1. CASE Exists(tree, Base(s))
    <3>1. based = RemoveAll(tree, Base(s))
      BY <2>1 DEF deleteBase, RemoveDir
    <3> HIDE DEF based
    <3>2. /\ DOMAIN based \subseteq DOMAIN tree
          /\ \A p : p \in DOMAIN based <=> p \in DOMAIN tree /\ ~IsPrefix(Base(s), p)
          /\ \A p \in DOMAIN based : based[p] = tree[p]
      BY <3>1, RemoveAllByPath
    <3> QED
      BY <3>2 DEF Exists, Below, IsStrictPrefix
  <2>2. CASE ~Exists(tree, Base(s))
    BY <2>2 DEF deleteBase
  <2> QED
    BY <2>1, <2>2
<1>2. left = Without(based, gone)
  BY DEF deleteStages
<1> HIDE DEF based, gone
<1>3. /\ DOMAIN left \subseteq DOMAIN based
      /\ \A p : p \in DOMAIN left <=> p \in DOMAIN based /\ \A dir \in gone : ~IsPrefix(dir, p)
      /\ \A p \in DOMAIN left : left[p] = based[p]
  BY <1>2, WithoutByPath
<1>4. ASSUME NEW p \in DOMAIN tree, \A dir \in OwnDirs(s) : ~IsPrefix(dir, p)
      PROVE  p \in DOMAIN left
  BY <1>1, <1>3, <1>4 DEF OwnDirs, gone
<1>5. ASSUME NEW dir \in OwnDirs(s), Exists(left, dir) PROVE FALSE
  <2>1. PICK p \in DOMAIN left : IsStrictPrefix(dir, p)
    BY <1>5 DEF Exists, Below
  <2>2. p \in DOMAIN based /\ Exists(based, dir)
    BY <1>3, <2>1 DEF Exists, Below
  <2>3. CASE dir = Base(s)
    BY <1>1, <2>2, <2>3
  <2>4. CASE dir \in StageDirs(s)
    BY <1>3, <2>1, <2>2, <2>4 DEF gone, IsStrictPrefix
  <2> QED
    BY <2>3, <2>4 DEF OwnDirs
<1> QED
  BY <1>1, <1>3, <1>4, <1>5

LEMMA DeletionUndoes ==
  ASSUME NEW tree, IsRepository(tree), NEW s \in Services,
         NEW left, left = DeleteConfiguration(tree, s)
  PROVE  /\ \A dir \in OwnDirs(s) : ~Exists(left, dir)
         /\ Others(left, s) = Others(tree, s)
         /\ readKeptnOperatorConfig(left) = OtherEntries(tree, s)
<1> DEFINE old == deleteStages(deleteBase(tree, s), s)
           config == readKeptnOperatorConfig(tree)
           i == EntryAt(config, s)
<1>1. DOMAIN tree \subseteq Paths /\ config \in Seq(ConfigEntry) /\ Distinct(config)
  BY DEF IsRepository
<1>2. /\ DOMAIN old \subseteq DOMAIN tree
      /\ \A p \in DOMAIN old : old[p] = tree[p]
      /\ \A p \in DOMAIN tree : (\A dir \in OwnDirs(s) : ~IsPrefix(dir, p)) => p \in DOMAIN old
      /\ \A dir \in OwnDirs(s) : ~Exists(old, dir)
  BY <1>1, DeletedByPath
<1>3. left = deleteServiceFromOperatorConfig(old, s)
  BY DEF DeleteConfiguration
<1> HIDE DEF old
<1>4. Config \in Paths /\ \A dir \in OwnDirs(s) : ~IsPrefix(dir, Config)
  BY DirsArePaths, FilesByName
<1>5. readKeptnOperatorConfig(old) = config
  BY <1>2, <1>4 DEF readKeptnOperatorConfig
<1>6. left = IF i = 0 THEN old ELSE Write(old, Config, [config |-> RemoveAt(config, i)])
  BY <1>3, <1>5 DEF deleteServiceFromOperatorConfig
<1>7. OtherEntries(tree, s) = IF i = 0 THEN config ELSE RemoveAt(config, i)
  BY <1>1, EntriesOfOthers DEF OtherEntries
<1> HIDE DEF config, i
<1>8. readKeptnOperatorConfig(left) = OtherEntries(tree, s)
  <2>1. CASE i = 0
    BY <1>5, <1>6, <1>7, <2>1
  <2>2. CASE i # 0
    <3>1. left = Write(old, Config, [config |-> RemoveAt(config, i)])
      BY <1>6, <2>2
    <3>2. Config \in DOMAIN left /\ left[Config] = [config |-> RemoveAt(config, i)]
      BY <3>1 DEF Write
    <3> QED
      BY <1>7, <2>2, <3>2 DEF readKeptnOperatorConfig
  <2> QED
    BY <2>1, <2>2
<1>9. /\ DOMAIN left \subseteq DOMAIN old \union {Config}
      /\ DOMAIN old \subseteq DOMAIN left
      /\ \A p \in DOMAIN old \ {Config} : left[p] = old[p]
  BY <1>6 DEF Write
<1>10. \A dir \in OwnDirs(s) : ~Exists(left, dir)
  BY <1>2, <1>4, <1>9 DEF Exists, Below, IsStrictPrefix
<1>11. Others(left, s) = Others(tree, s)
  <2>1. DOMAIN left \subseteq Paths
    BY <1>1, <1>2, <1>4, <1>9
  <2>2. \A p \in Paths \ {Config} : (\A dir \in OwnDirs(s) : ~IsPrefix(dir, p)) =>
          /\ p \in DOMAIN left <=> p \in DOMAIN tree
          /\ p \in DOMAIN tree => left[p] = tree[p]
    BY <1>2, <1>9
  <2> QED
    BY <1>1, <2>1, <2>2, OthersByPath
<1> QED
  BY <1>8, <1>10, <1>11

(* Whatever jobs have left, taking a service's configuration away takes away *)
(* all that they put there for it, and nothing else                          *)
(* (keptnciutils.go:252-323).                                                *)
THEOREM DeletionAlwaysUndoes == Spec => []DeletionUndoesDeployment
<1>1. MasterInv => DeletionUndoesDeployment
  BY LastIsRepository, DeletionUndoes DEF DeletionUndoesDeployment
<1> QED
  BY <1>1, MasterInvariant, PTL

--------------------------------------------------------------------------------
(* A deployment is whole. *)

LEMMA PathsAssociate ==
  ASSUME NEW a \in Paths, NEW b \in Paths, NEW c \in Paths
  PROVE  (a \o b) \o c = a \o (b \o c)
<1>1. a \in Seq(Names) /\ b \in Seq(Names) /\ c \in Seq(Names)
  BY DEF Paths
<1> QED
  BY <1>1, ConcatAssociative

LEMMA PrefixUnder ==
  ASSUME NEW d \in Paths, NEW a \in Paths, NEW q \in Paths
  PROVE  IsPrefix(d \o a, d \o q) <=> IsPrefix(a, q)
<1>1. d \o a \in Paths /\ d \o q \in Paths
  BY PathJoins
<1>2. ASSUME IsPrefix(a, q) PROVE IsPrefix(d \o a, d \o q)
  <2>1. PICK r \in Paths : q = a \o r
    BY <1>2, PrefixSplits
  <2>2. (d \o a) \o r = d \o (a \o r)
    BY PathsAssociate
  <2>3. d \o q = (d \o a) \o r
    BY <2>1, <2>2
  <2> QED
    BY <1>1, <2>3, PathJoins
<1>3. ASSUME IsPrefix(d \o a, d \o q) PROVE IsPrefix(a, q)
  <2>1. \E r \in Paths : d \o q = (d \o a) \o r
    <3> DEFINE x == d \o q  y == d \o a
    <3>1. x \in Paths /\ y \in Paths /\ IsPrefix(y, x)
      BY <1>1, <1>3
    <3> HIDE DEF x, y
    <3>2. Inside(x, y) \in Paths /\ x = y \o Inside(x, y)
      BY <3>1, PrefixSplits
    <3> QED
      BY <3>2 DEF x, y
  <2>2. PICK r \in Paths : d \o q = (d \o a) \o r
    BY <2>1
  <2>3. (d \o a) \o r = d \o (a \o r)
    BY PathsAssociate
  <2>4. a \o r \in Paths
    BY PathJoins
  <2>5. d \o q = d \o (a \o r) /\ a \o r \in Paths
    BY <2>2, <2>3, <2>4
  <2>6. Inside(d \o q, d) = q /\ Inside(d \o (a \o r), d) = a \o r
    BY <2>5, PathJoins
  <2>7. q = a \o r
    BY <2>5, <2>6
  <2> QED
    BY <2>2, <2>7, PathJoins
<1> QED
  BY <1>2, <1>3

LEMMA SameContents ==
  ASSUME NEW a, DOMAIN a \subseteq Paths, NEW b, DOMAIN b \subseteq Paths, NEW dir \in Paths,
         \A q \in Paths \ {<<>>} :
           /\ dir \o q \in DOMAIN a <=> dir \o q \in DOMAIN b
           /\ dir \o q \in DOMAIN b => a[dir \o q] = b[dir \o q]
  PROVE  Contents(a, dir) = Contents(b, dir)
<1> DEFINE D(x) == {q \in Paths \ {<<>>} : dir \o q \in DOMAIN x}
<1>1. ASSUME NEW x, DOMAIN x \subseteq Paths
      PROVE  Contents(x, dir) = [q \in D(x) |-> x[dir \o q]]
  <2>1. DOMAIN Contents(x, dir) = D(x)
    BY <1>1, ContentsByPath
  <2>2. Contents(x, dir) = [q \in DOMAIN Contents(x, dir) |-> x[dir \o q]]
    BY DEF Contents
  <2> QED
    BY <2>1, <2>2
<1>2. D(a) = D(b)
  OBVIOUS
<1>3. [q \in D(b) |-> a[dir \o q]] = [q \in D(b) |-> b[dir \o q]]
  OBVIOUS
<1>4. Contents(a, dir) = [q \in D(a) |-> a[dir \o q]] /\ Contents(b, dir) = [q \in D(b) |-> b[dir \o q]]
  BY <1>1
<1> QED
  BY <1>2, <1>3, <1>4, Zenon

LEMMA SameExists ==
  ASSUME NEW a, DOMAIN a \subseteq Paths, NEW b, DOMAIN b \subseteq Paths, NEW dir \in Paths,
         \A q \in Paths \ {<<>>} : dir \o q \in DOMAIN a <=> dir \o q \in DOMAIN b
  PROVE  Exists(a, dir) <=> Exists(b, dir)
<1>1. ASSUME NEW x, DOMAIN x \subseteq Paths
      PROVE  Exists(x, dir) <=> \E q \in Paths \ {<<>>} : dir \o q \in DOMAIN x
  <2>1. ASSUME NEW p \in Below(x, dir) PROVE \E q \in Paths \ {<<>>} : dir \o q \in DOMAIN x
    <3>1. Inside(p, dir) \in Paths \ {<<>>} /\ p = dir \o Inside(p, dir)
      BY <1>1, BelowByPath
    <3>2. p \in DOMAIN x
      BY DEF Below
    <3> QED
      BY <3>1, <3>2
  <2>2. ASSUME NEW q \in Paths \ {<<>>}, dir \o q \in DOMAIN x PROVE dir \o q \in Below(x, dir)
    BY <1>1, <2>2, BelowByPath
  <2> QED
    BY <2>1, <2>2 DEF Exists
<1> QED
  BY <1>1

LEMMA EntriesOfOthersKept ==
  ASSUME NEW tree, NEW config \in Seq(ConfigEntry), config = readKeptnOperatorConfig(tree),
         Distinct(config), NEW s \in Services, NEW trigger \in Stages \X SequenceNames,
         NEW new, new = modifyOperatorConfig(tree, s, trigger)
  PROVE  OtherEntries(new, s) = OtherEntries(tree, s)
<1> DEFINE changed == readKeptnOperatorConfig(new)
           entry   == [Name |-> s, DeploymentTrigger |-> trigger]
           i == EntryAt(config, s)
           k == EntryAt(changed, s)
<1>1. /\ changed = IF i = 0 THEN Append(config, entry) ELSE [config EXCEPT ![i] = entry]
      /\ changed \in Seq(ConfigEntry) /\ Distinct(changed)
  BY EntryModified
<1>2. entry \in ConfigEntry /\ entry.Name = s
  BY DEF ConfigEntry
<1> HIDE DEF changed, entry
<1>3. /\ i \in 0..Len(config)
      /\ i = 0 <=> \A n \in DOMAIN config : config[n].Name # s
      /\ i # 0 => i \in DOMAIN config /\ config[i].Name = s
  BY EntryAtByName
<1>4. /\ k \in 0..Len(changed)
      /\ k = 0 <=> \A n \in DOMAIN changed : changed[n].Name # s
      /\ k # 0 => k \in DOMAIN changed /\ changed[k].Name = s
  BY <1>1, EntryAtByName
<1>5. /\ OtherEntries(new, s) = IF k = 0 THEN changed ELSE RemoveAt(changed, k)
      /\ OtherEntries(tree, s) = IF i = 0 THEN config ELSE RemoveAt(config, i)
  BY <1>1, EntriesOfOthers DEF OtherEntries, changed
<1>6. Len(config) \in Nat /\ DOMAIN config = 1..Len(config)
  OBVIOUS
<1> HIDE DEF i, k
<1>7. CASE i = 0
  <2>1. /\ changed = Append(config, entry) /\ Len(changed) = Len(config) + 1
        /\ DOMAIN changed = 1..(Len(config) + 1)
        /\ changed[Len(config) + 1] = entry
        /\ \A n \in 1..Len(config) : changed[n] = config[n]
    BY <1>1, <1>2, <1>6, <1>7
  <2>2. k = Len(config) + 1
    <3>1. Len(config) + 1 \in DOMAIN changed /\ changed[Len(config) + 1].Name = s
      BY <1>2, <1>6, <2>1
    <3>2. k \in DOMAIN changed /\ changed[k].Name = s
      BY <1>4, <3>1
    <3> QED
      BY <1>1, <3>1, <3>2 DEF Distinct
  <2>3. k - 1 = Len(config) /\ k + 1 > Len(changed)
    BY <1>6, <2>1, <2>2
  <2>4. SubSeq(changed, 1, k - 1) = config
    <3>1. /\ SubSeq(changed, 1, Len(config)) \in Seq(ConfigEntry)
          /\ Len(SubSeq(changed, 1, Len(config))) = Len(config)
          /\ \A n \in 1..Len(config) : SubSeq(changed, 1, Len(config))[n] = config[n]
      <4>1. \A n \in 1..Len(config) : changed[n] \in ConfigEntry
        BY <1>6, <2>1
      <4>2. 1 \in Int /\ Len(config) \in Int /\ Len(config) - 1 + 1 = Len(config)
        BY <1>6
      <4>3. \A n \in 1..Len(config) : 1 + n - 1 = n
        OBVIOUS
      <4> QED
        BY <1>6, <2>1, <4>1, <4>2, <4>3, SubSeqProperties
    <3> QED
      BY <2>3, <3>1, SeqEqual
  <2>5. SubSeq(changed, k + 1, Len(changed)) = <<>>
    <3>1. k + 1 \in Int /\ Len(changed) \in Int /\ Len(changed) < k + 1
      BY <1>6, <2>1, <2>2
    <3> QED
      BY <3>1, SubSeqEmpty
  <2>6. RemoveAt(changed, k) = config
    <3>1. RemoveAt(changed, k) = config \o <<>>
      BY <2>4, <2>5 DEF RemoveAt
    <3>2. config \o <<>> = config
      OBVIOUS
    <3> QED
      BY <3>1, <3>2
  <2> QED
    BY <1>5, <1>6, <1>7, <2>2, <2>6
<1>8. CASE i # 0
  <2>1. /\ changed = [config EXCEPT ![i] = entry]
        /\ Len(changed) = Len(config) /\ DOMAIN changed = DOMAIN config
        /\ changed[i] = entry
        /\ \A n \in DOMAIN config : n # i => changed[n] = config[n]
    BY <1>1, <1>2, <1>3, <1>6, <1>8
  <2>2. k = i
    BY <1>1, <1>2, <1>3, <1>4, <1>8, <2>1 DEF Distinct
  <2>3. SubSeq(changed, 1, i - 1) = SubSeq(config, 1, i - 1)
    <3>1. /\ SubSeq(changed, 1, i - 1) \in Seq(ConfigEntry)
          /\ SubSeq(config, 1, i - 1) \in Seq(ConfigEntry)
          /\ Len(SubSeq(changed, 1, i - 1)) = Len(SubSeq(config, 1, i - 1))
          /\ \A n \in 1..Len(SubSeq(config, 1, i - 1)) :
               SubSeq(changed, 1, i - 1)[n] = SubSeq(config, 1, i - 1)[n]
      BY <1>1, <1>3, <1>6, <1>8, <2>1
    <3> QED
      BY <3>1, SeqEqual
  <2>4. SubSeq(changed, i + 1, Len(changed)) = SubSeq(config, i + 1, Len(config))
    <3>1. /\ SubSeq(changed, i + 1, Len(config)) \in Seq(ConfigEntry)
          /\ SubSeq(config, i + 1, Len(config)) \in Seq(ConfigEntry)
          /\ Len(SubSeq(changed, i + 1, Len(config))) = Len(SubSeq(config, i + 1, Len(config)))
          /\ \A n \in 1..Len(SubSeq(config, i + 1, Len(config))) :
               SubSeq(changed, i + 1, Len(config))[n] = SubSeq(config, i + 1, Len(config))[n]
      BY <1>1, <1>3, <1>6, <1>8, <2>1
    <3> QED
      BY <2>1, <3>1, SeqEqual
  <2> QED
    BY <1>5, <1>8, <2>2, <2>3, <2>4 DEF RemoveAt
<1> QED
  BY <1>7, <1>8

(* The base with the chart in its place, as a deployment is to have it. *)
ChartedFiles(w, d) ==
  LET helm  == ChartIn(<<>>, d.service)
      base  == Contents(w, Base(d.service))
      chart == Contents(w, d.chart_base)
  IN  IF d.chart_base = <<>> THEN base
      ELSE [path \in {x \in DOMAIN base : ~IsPrefix(helm, x)}
                       \union {helm \o x : x \in DOMAIN chart} |->
              IF IsPrefix(helm, path) THEN chart[Inside(path, helm)] ELSE base[path]]

LEMMA ChartedBase ==
  ASSUME NEW w, DOMAIN w \subseteq Paths, NEW d \in Deployment, NEW tree, CanUpdate(tree, w, d)
  PROVE  Contents(copyHelmChart(w, d), Base(d.service)) = ChartedFiles(w, d)
<1>1. PICK s : s = d.service
  OBVIOUS
<1>2. PICK helm : helm = ChartIn(<<>>, s)
  OBVIOUS
<1>3. PICK base : base = Contents(w, Base(s))
  OBVIOUS
<1>4. PICK chart : chart = Contents(w, d.chart_base)
  OBVIOUS
<1> DEFINE charted == copyHelmChart(w, d)
           whole   == ChartIn(Base(s), s)
           placed  == {helm \o x : x \in DOMAIN chart}
           X == {x \in DOMAIN base : ~IsPrefix(helm, x)} \union placed
           F == [path \in X |-> IF IsPrefix(helm, path) THEN chart[Inside(path, helm)] ELSE base[path]]
           D == {q \in Paths \ {<<>>} : Base(s) \o q \in DOMAIN charted}
<1>5. CASE d.chart_base = <<>>
  BY <1>5 DEF copyHelmChart, ChartedFiles
<1>6. CASE d.chart_base # <<>>
  <2>1. s \in Services
    BY <1>1 DEF Deployment
  <2>2. Base(s) \in Paths /\ helm \in Paths /\ whole \in Paths /\ whole = Base(s) \o helm
    <3>1. <<"helm", s>> \in Seq(Names)
      BY <2>1, FixedNames
    <3>2. <<>> \o <<"helm", s>> = <<"helm", s>>
      BY <3>1, ConcatEmptySeq
    <3> QED
      BY <1>2, <2>1, <3>2, DirsArePaths DEF ChartIn
  <2>3. d.chart_base \in Paths
    <3>1. Exists(RemoveAll(w, whole), d.chart_base)
      BY <1>6, <1>1 DEF CanUpdate, CanCopyDir
    <3> QED
      BY <1>6, <1>1, <3>1, ChartsApart
  <2>4. /\ DOMAIN charted \subseteq Paths
        /\ \A p \in Paths : ~IsPrefix(whole, p) =>
             /\ p \in DOMAIN charted <=> p \in DOMAIN w
             /\ p \in DOMAIN w => charted[p] = w[p]
        /\ whole \notin DOMAIN charted
        /\ \A q \in Paths \ {<<>>} :
             /\ whole \o q \in DOMAIN charted <=> d.chart_base \o q \in DOMAIN w
             /\ d.chart_base \o q \in DOMAIN w => charted[whole \o q] = w[d.chart_base \o q]
    BY <1>6, <1>1, ChartedByPath
  <2> HIDE DEF charted, whole
  <2>5. /\ DOMAIN base = {q \in Paths \ {<<>>} : Base(s) \o q \in DOMAIN w}
        /\ \A q \in DOMAIN base : base[q] = w[Base(s) \o q]
    <3>1. DOMAIN Contents(w, Base(s)) = {q \in Paths \ {<<>>} : Base(s) \o q \in DOMAIN w}
      BY <2>2, ContentsByPath
    <3>2. \A q \in DOMAIN Contents(w, Base(s)) : Contents(w, Base(s))[q] = w[Base(s) \o q]
      BY DEF Contents
    <3> QED
      BY <1>3, <3>1, <3>2
  <2>6. /\ DOMAIN chart = {q \in Paths \ {<<>>} : d.chart_base \o q \in DOMAIN w}
        /\ \A q \in DOMAIN chart : chart[q] = w[d.chart_base \o q]
    <3>1. DOMAIN Contents(w, d.chart_base) = {q \in Paths \ {<<>>} : d.chart_base \o q \in DOMAIN w}
      BY <2>3, ContentsByPath
    <3>2. \A q \in DOMAIN Contents(w, d.chart_base) : Contents(w, d.chart_base)[q] = w[d.chart_base \o q]
      BY <2>3, ContentsByPath
    <3> QED
      BY <1>4, <3>1, <3>2
  <2>7. placed \subseteq Paths \ {<<>>} /\ \A p \in placed : IsPrefix(helm, p) /\ p # helm
    <3>1. ASSUME NEW x \in DOMAIN chart
          PROVE  helm \o x \in Paths /\ IsPrefix(helm, helm \o x) /\ helm \o x # helm
      BY <2>2, <2>6, PathJoins
    <3>2. ~IsPrefix(helm, <<>>)
      <4>1. Len(helm) = 2 /\ <<>> \in Paths /\ Len(<<>>) = 0
        <5>1. <<"helm", s>> \in Seq(Names)
          BY <2>1, FixedNames
        <5>2. helm = <<"helm", s>>
          BY <1>2, <5>1, ConcatEmptySeq DEF ChartIn
        <5> QED
          BY <5>2 DEF Paths
      <4>2. IsPrefix(helm, <<>>) => Len(helm) <= Len(<<>>)
        BY <2>2, <4>1, PrefixByName
      <4> QED
        BY <4>1, <4>2
    <3> QED
      BY <3>1, <3>2
  <2>8. ASSUME NEW q \in Paths \ {<<>>}
        PROVE  /\ q \in X <=> Base(s) \o q \in DOMAIN charted
               /\ q \in X => F[q] = charted[Base(s) \o q]
    <3>1. IsPrefix(whole, Base(s) \o q) <=> IsPrefix(helm, q)
      BY <2>2, PrefixUnder
    <3>2. CASE ~IsPrefix(helm, q)
      <4>1. Base(s) \o q \in Paths
        BY <2>2, PathJoins
      <4>2. q \in X <=> Base(s) \o q \in DOMAIN w
        BY <2>5, <2>7, <3>2
      <4>3. q \in X => F[q] = w[Base(s) \o q]
        BY <2>5, <3>2, <4>2
      <4> QED
        BY <2>4, <3>1, <3>2, <4>1, <4>2, <4>3
    <3>3. CASE q = helm
      <4>1. q \notin X
        BY <2>2, <2>7, <3>3, PathIsItsPrefix
      <4> QED
        BY <2>2, <2>4, <3>3, <4>1
    <3>4. CASE IsPrefix(helm, q) /\ q # helm
      <4> DEFINE r == Inside(q, helm)
      <4>1. r \in Paths \ {<<>>} /\ q = helm \o r
        BY <2>2, <3>4, PrefixSplits
      <4>2. Base(s) \o q = whole \o r
        <5> HIDE DEF r
        <5>1. (Base(s) \o helm) \o r = Base(s) \o (helm \o r)
          BY <2>2, <4>1, PathsAssociate
        <5> QED
          BY <2>2, <4>1, <5>1
      <4>3. q \in X <=> r \in DOMAIN chart
        <5>1. ASSUME q \in X PROVE r \in DOMAIN chart
          <6>1. PICK x \in DOMAIN chart : q = helm \o x
            BY <3>4, <5>1
          <6>2. Inside(helm \o x, helm) = x
            BY <2>2, <2>6, PathJoins
          <6> QED
            BY <6>1, <6>2
        <5> QED
          BY <4>1, <5>1
      <4>4. r \in DOMAIN chart <=> d.chart_base \o r \in DOMAIN w
        BY <2>6, <4>1
      <4>5. q \in X => F[q] = chart[r]
        BY <3>4
      <4> HIDE DEF r, F, X
      <4> QED
        BY <2>4, <2>6, <4>1, <4>2, <4>3, <4>4, <4>5
    <3> QED
      BY <3>2, <3>3, <3>4
  <2>9. X \subseteq Paths \ {<<>>}
    BY <2>5, <2>7
  <2>10. D = X
    <3> HIDE DEF X
    <3> QED
      BY <2>8, <2>9
  <2>11. Contents(charted, Base(s)) = [q \in D |-> charted[Base(s) \o q]]
    <3>1. DOMAIN Contents(charted, Base(s)) = D
      BY <2>2, <2>4, ContentsByPath
    <3> QED
      BY <3>1 DEF Contents
  <2>12. Contents(charted, Base(s)) = F
    <3>1. F = [q \in X |-> F[q]]
      OBVIOUS
    <3> HIDE DEF F, X
    <3>2. \A q \in X : F[q] = charted[Base(s) \o q]
      BY <2>8, <2>9
    <3> QED
      BY <2>10, <2>11, <3>1, <3>2
  <2> QED
    BY <1>6, <1>1, <1>2, <1>3, <1>4, <2>12 DEF charted, ChartedFiles
<1> QED
  BY <1>5, <1>6

(* The files of a directory but for one. *)
Except(files, x) == Restrict(files, {path \in DOMAIN files : path # x})

LEMMA SamePlain ==
  ASSUME NEW a, DOMAIN a \subseteq Paths, NEW b, DOMAIN b \subseteq Paths, NEW dir \in Paths,
         NEW x, \A q \in Paths \ {<<>>, x} :
                  /\ dir \o q \in DOMAIN a <=> dir \o q \in DOMAIN b
                  /\ dir \o q \in DOMAIN b => a[dir \o q] = b[dir \o q]
  PROVE  Except(Contents(a, dir), x) = Except(Contents(b, dir), x)
<1> DEFINE Plain(files) == Except(files, x)
           D(c) == {q \in Paths \ {<<>>, x} : dir \o q \in DOMAIN c}
<1>1. ASSUME NEW c, DOMAIN c \subseteq Paths
      PROVE  Plain(Contents(c, dir)) = [q \in D(c) |-> c[dir \o q]]
  <2> DEFINE files == Contents(c, dir)
  <2>1. DOMAIN files = {q \in Paths \ {<<>>} : dir \o q \in DOMAIN c}
    BY <1>1, ContentsByPath
  <2>2. \A q \in DOMAIN files : files[q] = c[dir \o q]
    BY DEF Contents
  <2> HIDE DEF files
  <2>3. {path \in DOMAIN files : path # x} = D(c)
    BY <2>1
  <2>4. Plain(files) = [q \in D(c) |-> files[q]]
    BY <2>3 DEF Restrict, Except
  <2>5. \A q \in D(c) : files[q] = c[dir \o q]
    BY <2>2, <2>3
  <2> QED
    BY <2>4, <2>5 DEF files
<1>2. D(a) = D(b)
  OBVIOUS
<1>3. [q \in D(b) |-> a[dir \o q]] = [q \in D(b) |-> b[dir \o q]]
  OBVIOUS
<1>4. Plain(Contents(a, dir)) = [q \in D(a) |-> a[dir \o q]] /\ Plain(Contents(b, dir)) = [q \in D(b) |-> b[dir \o q]]
  BY <1>1
<1> QED
  BY <1>2, <1>3, <1>4, Zenon

LEMMA DeploymentIsWhole ==
  ASSUME NEW tree, IsRepository(tree), NEW w, DOMAIN w \subseteq Paths,
         NEW d \in Deployment, d.listed, NEW trigger, trigger = getStageAndSequence(tree, d),
         trigger # NoTrigger, NEW u \in UpdateRepository(tree, w, d, trigger)
  PROVE  IsDeployment(tree, u.tree, w, d)
<1> DEFINE s == d.service
           config  == readKeptnOperatorConfig(tree)
           charted == copyHelmChart(w, d)
           whole   == ChartIn(Base(s), s)
           written == <<"metadata", "deployment.yaml">>
<1>1. /\ s \in Services /\ DOMAIN tree \subseteq Paths /\ readShipyard(tree) \in Seq(ShipyardStage)
      /\ config \in Seq(ConfigEntry) /\ Distinct(config)
  BY DEF Deployment, IsRepository
<1>2. trigger \in Stages \X SequenceNames
  BY <1>1, TriggerType
<1>3. /\ DOMAIN u.tree \subseteq Paths
      /\ CanUpdate(tree, w, d)
      /\ IsUpdated(u.tree, tree, charted, s, u.version)
      /\ \E old : /\ readKeptnOperatorConfig(old) = readKeptnOperatorConfig(tree)
                  /\ u.tree = modifyOperatorConfig(old, s, trigger)
  BY <1>1, UpdatedByPath
<1>4. /\ DOMAIN charted \subseteq Paths
      /\ \A p \in Paths : ~IsPrefix(whole, p) =>
           /\ p \in DOMAIN charted <=> p \in DOMAIN w
           /\ p \in DOMAIN w => charted[p] = w[p]
  <2>1. /\ DOMAIN charted \subseteq Paths
        /\ d.chart_base = <<>> => charted = w
        /\ \A p \in Paths : ~IsPrefix(whole, p) =>
             /\ p \in DOMAIN charted <=> p \in DOMAIN w
             /\ p \in DOMAIN w => charted[p] = w[p]
    BY <1>3, ChartedByPath
  <2> QED
    BY <2>1
<1>5. Base(s) \in Paths /\ whole \in Paths /\ \A st \in Stages : StageOf(st, s) \in Paths
  BY <1>1, DirsArePaths
<1>6. Contents(charted, Base(s)) = ChartedFiles(w, d)
  BY <1>3, ChartedBase
<1> HIDE DEF charted
<1>7. Others(u.tree, s) = Others(tree, s)
  BY <1>1, <1>3, OthersByPath DEF IsUpdated
<1>8. OtherEntries(u.tree, s) = OtherEntries(tree, s)
  <2>1. PICK old : /\ readKeptnOperatorConfig(old) = readKeptnOperatorConfig(tree)
                   /\ u.tree = modifyOperatorConfig(old, s, trigger)
    BY <1>3
  <2>2. OtherEntries(u.tree, s) = OtherEntries(old, s)
    BY <1>1, <1>2, <2>1, EntriesOfOthersKept
  <2> QED
    BY <2>1, <2>2 DEF OtherEntries
<1>9. Except(Contents(u.tree, Base(s)), written) = Except(ChartedFiles(w, d), written)
  <2>1. \A q \in Paths \ {<<>>, written} :
          /\ Base(s) \o q \in DOMAIN u.tree <=> Base(s) \o q \in DOMAIN charted
          /\ Base(s) \o q \in DOMAIN charted => u.tree[Base(s) \o q] = charted[Base(s) \o q]
    BY <1>3 DEF IsUpdated
  <2> HIDE DEF written
  <2>2. Except(Contents(u.tree, Base(s)), written) = Except(Contents(charted, Base(s)), written)
    BY <1>3, <1>4, <1>5, <2>1, SamePlain
  <2> QED
    BY <1>6, <2>2
<1>10. ASSUME NEW st \in Stages, NEW dir, dir = StageOf(st, s)
       PROVE  Contents(u.tree, dir) = Contents(IF Exists(w, dir) THEN w ELSE tree, dir)
  <2> DEFINE given == IF Exists(charted, dir) THEN charted ELSE tree
  <2>1. dir \in Paths
    BY <1>5, <1>10
  <2>2. ASSUME NEW q \in Paths \ {<<>>}
        PROVE  /\ dir \o q \in DOMAIN charted <=> dir \o q \in DOMAIN w
               /\ dir \o q \in DOMAIN w => charted[dir \o q] = w[dir \o q]
    <3>1. dir \o q \in Paths /\ IsPrefix(dir, dir \o q)
      BY <2>1, PathJoins
    <3>2. ~IsPrefix(whole, dir \o q)
      BY <1>1, <1>10, <3>1, InHelm, InStage
    <3> QED
      BY <1>4, <3>1, <3>2
  <2>3. Exists(charted, dir) <=> Exists(w, dir)
    BY <1>4, <2>1, <2>2, SameExists
  <2>4. Contents(charted, dir) = Contents(w, dir)
    BY <1>4, <2>1, <2>2, SameContents
  <2>5. \A q \in Paths \ {<<>>} :
          /\ dir \o q \in DOMAIN u.tree <=> dir \o q \in DOMAIN given
          /\ dir \o q \in DOMAIN given => u.tree[dir \o q] = given[dir \o q]
    BY <1>3, <1>10 DEF IsUpdated
  <2>6. DOMAIN given \subseteq Paths
    BY <1>1, <1>4
  <2> HIDE DEF given
  <2>7. Contents(u.tree, dir) = Contents(given, dir)
    BY <1>3, <2>1, <2>5, <2>6, SameContents
  <2>8. CASE Exists(w, dir)
    BY <2>3, <2>4, <2>7, <2>8 DEF given
  <2>9. CASE ~Exists(w, dir)
    BY <2>3, <2>7, <2>9 DEF given
  <2> QED
    BY <2>8, <2>9
<1> QED
  BY <1>7, <1>8, <1>9, <1>10 DEF IsDeployment, Except, ChartedFiles

(* Whatever was in the clone and is in the service's repository, a job that    *)
(* pushes leaves the service as its repository has it, and all the rest as it  *)
(* was (keptnciutils.go:28-45, 150-197, fileutils.go:79-136).                  *)
THEOREM DeploymentsAreAlwaysWhole == Spec => DeploymentsAreWhole
<1> DEFINE Whole(j) ==
      job[j].step = "start" /\ job'[j].step = "tag" =>
        IF call[j].listed
          THEN IsDeployment(Last(master), Last(master'), Workspaces[call[j].workspace], call[j])
          ELSE Last(master') = Last(master)
<1>1. ASSUME PromotionInv, PromotionInv', MasterInv, Next, NEW j \in Jobs
      PROVE  Whole(j)
  <2>1. SUFFICES ASSUME job[j].step = "start", job'[j].step = "tag"
                 PROVE  IF call[j].listed
                          THEN IsDeployment(Last(master), Last(master'), Workspaces[call[j].workspace], call[j])
                          ELSE Last(master') = Last(master)
    OBVIOUS
  <2>2. Publishes(j)
    <3>1. DOMAIN job = Jobs
      BY <1>1 DEF MasterInv, ShapeOK, JobsOK
    <3>2. ASSUME NEW k \in Jobs, Tag(k) PROVE FALSE
      BY <2>1, <3>1, <3>2 DEF Tag
    <3>3. ASSUME NEW k \in Jobs, Deploy(k) PROVE Publishes(j)
      <4>1. CASE k = j
        <5>1. job' # [job EXCEPT ![j].step = "failed"]
          <6>1. DOMAIN job[j] = {"step", "version", "commit"}
            BY <1>1 DEF MasterInv, ShapeOK, JobsOK
          <6> QED
            BY <2>1, <3>1, <6>1
        <5>2. Publishes(k) \/ job' = [job EXCEPT ![k].step = "failed"]
          BY <3>3, DeployPublishes
        <5> QED
          BY <4>1, <5>1, <5>2
      <4>2. CASE k # j
        <5>1. job'[j] = job[j]
          BY <3>1, <3>3, <4>2, DeployPublishes DEF Publishes
        <5> QED
          BY <2>1, <5>1
      <4> QED
        BY <4>1, <4>2
    <3>4. job' # job
      BY <2>1
    <3> QED
      BY <1>1, <3>2, <3>3, <3>4 DEF Next, Receive, Handle, GetGitSecret, CloneRelease, CloneStage,
         Push, Finish, Restart, jobVars
  <2> DEFINE trigger == getStageAndSequence(Last(master), call[j])
             all     == UpdateRepository(Last(master), Workspaces[call[j].workspace], call[j], trigger)
  <2>3. trigger # NoTrigger /\ \E u \in all : master' = Append(master, u.tree)
    BY <2>2 DEF Publishes
  <2>4. PICK u \in all : master' = Append(master, u.tree)
    BY <2>3
  <2>5. IsRepository(u.tree)
    BY <1>1, <2>3, PublishedIsRepository
  <2>6. Last(master') = u.tree
    BY <1>1, <2>4, <2>5, AppendGrows DEF PromotionInv
  <2>7. CASE call[j].listed
    <3>1. IsDeployment(Last(master), u.tree, Workspaces[call[j].workspace], call[j])
      BY <1>1, <2>3, <2>7, LastIsRepository, CallOfJob, DeploymentIsWhole DEF MasterInv
    <3> QED
      BY <2>6, <2>7, <3>1
  <2>8. CASE ~call[j].listed
    <3>1. u.tree = Last(master)
      BY <2>8 DEF UpdateRepository
    <3> QED
      BY <2>6, <2>8, <3>1
  <2> QED
    BY <2>7, <2>8
<1>2. ASSUME PromotionInv, PromotionInv', MasterInv, [Next]_vars
      PROVE  [\A j \in Jobs : Whole(j)]_vars
  BY <1>1, <1>2
<1> QED
  BY <1>2, PromotionInvariant, MasterInvariant, PTL DEF Spec, DeploymentsAreWhole

--------------------------------------------------------------------------------
(* What the files come to is what CIConnect says of them. *)

VersionIn(tree, s) == IF Metadata(s) \in DOMAIN tree THEN tree[Metadata(s)].metadata ELSE NoVersion

TriggerIn(tree, s) ==
  LET config == readKeptnOperatorConfig(tree)
      i == EntryAt(config, s)
  IN  IF i = 0 THEN NoTrigger ELSE config[i].DeploymentTrigger

NoFlags == [stage |-> NoName, sequence |-> NoName]

LEMMA AbstractParts ==
  ASSUME NEW tree
  PROVE  Abstract(tree) =
           [version |-> [s \in Services |-> VersionIn(tree, s)],
            trigger |-> [s \in Services |-> TriggerIn(tree, s)],
            staged |-> {},
            shipyard |-> getStageAndSequence(tree, NoFlags)]
  BY DEF Abstract, VersionIn, TriggerIn, NoFlags

(* The chart of a workspace names the version, wherever it is copied from. *)
LEMMA LastOfPath ==
  ASSUME NEW d \in Paths, NEW q \in Paths \ {<<>>}
  PROVE  Last(d \o q) = Last(q)
<1>1. d \in Seq(Names) /\ q \in Seq(Names) /\ Len(d) \in Nat /\ Len(q) \in Nat \ {0}
  BY DEF Paths
<1>2. Len(d \o q) = Len(d) + Len(q)
      /\ \A i \in 1..(Len(d) + Len(q)) : (d \o q)[i] = IF i <= Len(d) THEN d[i] ELSE q[i - Len(d)]
  BY <1>1, ConcatProperties
<1>3. /\ Len(d) + Len(q) \in 1..(Len(d) + Len(q)) /\ ~(Len(d) + Len(q) <= Len(d))
      /\ (Len(d) + Len(q)) - Len(d) = Len(q)
  BY <1>1
<1> QED
  BY <1>2, <1>3 DEF Last

LEMMA VersionIsOne ==
  ASSUME NEW tree, NEW wd \in DOMAIN Workspaces, NEW w, w = Workspaces[wd],
         NEW d \in Deployment, CanUpdate(tree, w, d),
         NEW version \in getImageVersion(copyHelmChart(w, d), d)
  PROVE  version \in Versions \union {NoVersion}
<1> DEFINE s     == d.service
           whole == ChartIn(Base(s), s)
           charted == copyHelmChart(w, d)
           path  == whole \o <<"Chart.yaml">>
<1>1. /\ s \in Services /\ d.version \in Versions \union {NoVersion}
      /\ d.useChart \in {"appVersion", "version", "neither"}
  BY DEF Deployment
<1>2. CASE d.version # NoVersion
  BY <1>1, <1>2 DEF getImageVersion
<1>3. CASE d.version = NoVersion /\ d.useChart = "neither"
  BY <1>3 DEF getImageVersion
<1>4. CASE d.version = NoVersion /\ d.useChart # "neither"
  <2>1. path \in DOMAIN charted /\ version = charted[path].chart[d.useChart]
    BY <1>4 DEF getImageVersion
  <2>2. DOMAIN w \subseteq Paths
    BY GivenArePaths
  <2>3. whole \in Paths /\ <<"Chart.yaml">> \in Paths \ {<<>>}
    BY <1>1, DirsArePaths, FixedNames DEF Paths
  <2>4. Last(<<"Chart.yaml">>) = "Chart.yaml"
    BY DEF Last
  <2>5. path \in Paths /\ Last(path) = "Chart.yaml"
    BY <2>3, <2>4, PathJoins, LastOfPath
  <2>6. \E p \in DOMAIN w : Last(p) = "Chart.yaml" /\ w[p] = charted[path]
    <3>1. CASE d.chart_base = <<>>
      BY <2>1, <2>5, <3>1 DEF copyHelmChart
    <3>2. CASE d.chart_base # <<>>
      <4>1. /\ d.chart_base \o <<"Chart.yaml">> \in DOMAIN w
            /\ charted[path] = w[d.chart_base \o <<"Chart.yaml">>]
        BY <2>1, <2>2, <2>3, <3>2, ChartedByPath
      <4>2. d.chart_base \in Paths
        <5>1. Exists(RemoveAll(w, whole), d.chart_base)
          BY <3>2 DEF CanUpdate, CanCopyDir
        <5> QED
          BY <2>2, <3>2, <5>1, ChartsApart
      <4>3. Last(d.chart_base \o <<"Chart.yaml">>) = "Chart.yaml"
        BY <2>3, <2>4, <4>2, LastOfPath
      <4> QED
        BY <4>1, <4>3
    <3> QED
      BY <3>1, <3>2
  <2>7. charted[path].chart \in [version    : Versions \union {NoVersion},
                                 appVersion : Versions \union {NoVersion}]
    BY <2>6, ContentsAssumption
  <2> QED
    BY <1>1, <1>4, <2>1, <2>7
<1> QED
  BY <1>1, <1>2, <1>3, <1>4

(* A new entry is the trigger of its service, and no other's. *)
LEMMA TriggerModified ==
  ASSUME NEW tree, NEW config \in Seq(ConfigEntry), config = readKeptnOperatorConfig(tree),
         Distinct(config), NEW s \in Services, NEW trigger \in Stages \X SequenceNames,
         NEW new, new = modifyOperatorConfig(tree, s, trigger)
  PROVE  /\ TriggerIn(new, s) = trigger
         /\ \A other \in Services \ {s} : TriggerIn(new, other) = TriggerIn(tree, other)
<1> DEFINE changed == readKeptnOperatorConfig(new)
           entry   == [Name |-> s, DeploymentTrigger |-> trigger]
           i == EntryAt(config, s)
<1>1. /\ changed = IF i = 0 THEN Append(config, entry) ELSE [config EXCEPT ![i] = entry]
      /\ changed \in Seq(ConfigEntry) /\ Distinct(changed)
      /\ DOMAIN config \subseteq DOMAIN changed
      /\ \A k \in DOMAIN config : k # i => changed[k] = config[k]
      /\ \E k \in DOMAIN changed : changed[k] = entry /\ \A n \in DOMAIN changed : n # k => n \in DOMAIN config /\ n # i
  BY EntryModified
<1>2. entry.Name = s /\ entry.DeploymentTrigger = trigger
  OBVIOUS
<1>3. i # 0 => config[i].Name = s
  BY EntryAtByName
<1> HIDE DEF changed, entry, i
<1>4. PICK k \in DOMAIN changed :
        changed[k] = entry /\ \A n \in DOMAIN changed : n # k => n \in DOMAIN config /\ n # i
  BY <1>1
<1>5. TriggerIn(new, s) = trigger
  <2> DEFINE n == EntryAt(changed, s)
  <2>1. n # 0 /\ n \in DOMAIN changed /\ changed[n].Name = s
    <3>1. changed \in Seq(ConfigEntry)
      BY <1>1
    <3>2. /\ n \in 0..Len(changed)
          /\ n = 0 <=> \A x \in DOMAIN changed : changed[x].Name # s
          /\ n # 0 => n \in DOMAIN changed /\ changed[n].Name = s
      BY <3>1, EntryAtByName
    <3> QED
      BY <1>2, <1>4, <3>2
  <2>2. n = k
    BY <1>1, <1>2, <1>4, <2>1 DEF Distinct
  <2> HIDE DEF n
  <2>3. TriggerIn(new, s) = changed[n].DeploymentTrigger
    BY <2>1 DEF TriggerIn, changed, n
  <2> QED
    BY <1>2, <1>4, <2>2, <2>3
<1>6. ASSUME NEW other \in Services \ {s}
      PROVE  TriggerIn(new, other) = TriggerIn(tree, other)
  <2> DEFINE n == EntryAt(changed, other)
             m == EntryAt(config, other)
  <2>1. /\ n = 0 <=> \A x \in DOMAIN changed : changed[x].Name # other
        /\ n # 0 => n \in DOMAIN changed /\ changed[n].Name = other
    <3>1. changed \in Seq(ConfigEntry)
      BY <1>1
    <3> QED
      BY <3>1, EntryAtByName
  <2>2. /\ m = 0 <=> \A x \in DOMAIN config : config[x].Name # other
        /\ m # 0 => m \in DOMAIN config /\ config[m].Name = other
    BY EntryAtByName
  <2>3. /\ TriggerIn(new, other) = IF n = 0 THEN NoTrigger ELSE changed[n].DeploymentTrigger
        /\ TriggerIn(tree, other) = IF m = 0 THEN NoTrigger ELSE config[m].DeploymentTrigger
    BY DEF TriggerIn, changed
  <2> HIDE DEF n, m
  <2>4. CASE n = 0
    <3>1. m = 0
      <4>1. ASSUME m # 0 PROVE FALSE
        <5>1. m \in DOMAIN config /\ config[m].Name = other /\ m # i
          BY <1>3, <2>2, <4>1 DEF i
        <5>2. changed[m] = config[m] /\ m \in DOMAIN changed
          BY <1>1, <5>1
        <5> QED
          BY <2>1, <2>4, <5>1, <5>2
      <4> QED
        BY <4>1
    <3> QED
      BY <2>3, <2>4, <3>1
  <2>5. CASE n # 0
    <3>1. n \in DOMAIN changed /\ changed[n].Name = other /\ n # k
      BY <1>2, <1>4, <2>1, <2>5
    <3>2. n \in DOMAIN config /\ n # i /\ changed[n] = config[n]
      BY <1>1, <1>4, <3>1
    <3>3. m = n
      BY <2>2, <3>1, <3>2 DEF Distinct
    <3> QED
      BY <2>3, <2>5, <3>2, <3>3
  <2> QED
    BY <2>4, <2>5
<1> QED
  BY <1>5, <1>6

LEMMA VersionKept ==
  ASSUME NEW tree, NEW new, NEW s \in Services, NEW other \in Services \ {s},
         \A p \in Paths \ {Config} : (\A dir \in OwnDirs(s) : ~IsPrefix(dir, p)) =>
           /\ p \in DOMAIN new <=> p \in DOMAIN tree
           /\ p \in DOMAIN tree => new[p] = tree[p]
  PROVE  VersionIn(new, other) = VersionIn(tree, other)
<1>1. Metadata(other) \in Paths \ {Config} /\ Metadata(other) = <<"base", other, "metadata", "deployment.yaml">>
  BY DirsArePaths, FilesByName
<1>2. \A dir \in OwnDirs(s) : ~IsPrefix(dir, Metadata(other))
  <2>1. Metadata(other)[1] = "base" /\ Metadata(other)[2] = other
    BY <1>1
  <2>2. ~IsPrefix(Base(s), Metadata(other)) /\ \A st \in Stages : ~IsPrefix(StageOf(st, s), Metadata(other))
    BY <1>1, <2>1, InBase, InStage
  <2> QED
    BY <2>2 DEF OwnDirs, StageDirs
<1>3. /\ Metadata(other) \in DOMAIN new <=> Metadata(other) \in DOMAIN tree
      /\ Metadata(other) \in DOMAIN tree => new[Metadata(other)] = tree[Metadata(other)]
  BY <1>1, <1>2
<1> QED
  BY <1>3 DEF VersionIn

LEMMA DeployedParts ==
  ASSUME NEW V, NEW T, NEW S, NEW s, NEW v, NEW t
  PROVE  Log!Deployed([version |-> V, trigger |-> T, staged |-> {}, shipyard |-> S], s, v, t, {}) =
           [version |-> [V EXCEPT ![s] = v], trigger |-> [T EXCEPT ![s] = t], staged |-> {}, shipyard |-> S]
<1>1. PICK old : old = [version |-> V, trigger |-> T, staged |-> {}, shipyard |-> S]
  OBVIOUS
<1>2. old.version = V /\ old.trigger = T
  BY <1>1
<1>3. Log!Deployed(old, s, v, t, {}) =
        [old EXCEPT !.version = [V EXCEPT ![s] = v], !.trigger = [T EXCEPT ![s] = t], !.staged = {}]
  BY <1>2 DEF Log!Deployed
<1>4. ASSUME NEW a, NEW b
      PROVE  [old EXCEPT !.version = a, !.trigger = b, !.staged = {}] =
                [version |-> a, trigger |-> b, staged |-> {}, shipyard |-> S]
  <2>1. PICK x : x = [old EXCEPT !.version = a]
    OBVIOUS
  <2>2. x = [version |-> a, trigger |-> T, staged |-> {}, shipyard |-> S]
    BY <1>1, <2>1
  <2>3. PICK y : y = [x EXCEPT !.trigger = b]
    OBVIOUS
  <2>4. y = [version |-> a, trigger |-> b, staged |-> {}, shipyard |-> S]
    BY <2>2, <2>3
  <2>5. y = [y EXCEPT !.staged = {}]
    BY <2>4
  <2> QED
    BY <2>1, <2>3, <2>4, <2>5
<1> QED
  BY <1>1, <1>3, <1>4

(* A commit of a job is a deployment of ConfigurationLog. *)
LEMMA DeploymentIsAbstract ==
  ASSUME NEW tree, IsRepository(tree), NEW wd \in DOMAIN Workspaces, NEW w, w = Workspaces[wd],
         NEW d \in Deployment, d.listed, NEW trigger, trigger = getStageAndSequence(tree, d),
         trigger # NoTrigger, NEW u \in UpdateRepository(tree, w, d, trigger)
  PROVE  /\ u.version \in Versions \union {NoVersion}
         /\ VersionIn(u.tree, d.service) = u.version
         /\ Abstract(u.tree) = Log!Deployed(Abstract(tree), d.service, u.version, trigger, {})
         /\ trigger \in Stages \X SequenceNames
<1> DEFINE s == d.service
           config == readKeptnOperatorConfig(tree)
<1>1. /\ s \in Services /\ DOMAIN tree \subseteq Paths /\ readShipyard(tree) \in Seq(ShipyardStage)
      /\ config \in Seq(ConfigEntry) /\ Distinct(config)
  BY DEF Deployment, IsRepository
<1>2. trigger \in Stages \X SequenceNames
  BY <1>1, TriggerType
<1>3. DOMAIN w \subseteq Paths
  BY GivenArePaths
<1>4. /\ CanUpdate(tree, w, d)
      /\ u.version \in getImageVersion(copyHelmChart(w, d), d)
      /\ IsUpdated(u.tree, tree, copyHelmChart(w, d), s, u.version)
      /\ \E old : /\ readKeptnOperatorConfig(old) = readKeptnOperatorConfig(tree)
                  /\ u.tree = modifyOperatorConfig(old, s, trigger)
  BY <1>1, <1>3, UpdatedByPath
<1>5. u.version \in Versions \union {NoVersion}
  BY <1>4, VersionIsOne
<1>6. \A p \in Paths \ {Config} : (\A dir \in OwnDirs(s) : ~IsPrefix(dir, p)) =>
        /\ p \in DOMAIN u.tree <=> p \in DOMAIN tree
        /\ p \in DOMAIN tree => u.tree[p] = tree[p]
  BY <1>4 DEF IsUpdated
<1>7. VersionIn(u.tree, s) = u.version
  BY <1>4 DEF IsUpdated, VersionIn
<1>8. \A other \in Services \ {s} : VersionIn(u.tree, other) = VersionIn(tree, other)
  BY <1>1, <1>6, VersionKept
<1>9. readShipyard(u.tree) = readShipyard(tree)
  <2>1. /\ Shipyard \in Paths \ {Config}
        /\ \A dir \in OwnDirs(s) : ~IsPrefix(dir, Shipyard)
    BY <1>1, DirsArePaths, FilesByName
  <2> QED
    BY <1>6, <2>1 DEF readShipyard
<1>10. getStageAndSequence(u.tree, NoFlags) = getStageAndSequence(tree, NoFlags)
  BY <1>9 DEF getStageAndSequence
<1>11. /\ TriggerIn(u.tree, s) = trigger
       /\ \A other \in Services \ {s} : TriggerIn(u.tree, other) = TriggerIn(tree, other)
  <2>1. PICK old : /\ readKeptnOperatorConfig(old) = readKeptnOperatorConfig(tree)
                   /\ u.tree = modifyOperatorConfig(old, s, trigger)
    BY <1>4
  <2>2. /\ TriggerIn(u.tree, s) = trigger
        /\ \A other \in Services \ {s} : TriggerIn(u.tree, other) = TriggerIn(old, other)
    BY <1>1, <1>2, <2>1, TriggerModified
  <2>3. \A other : TriggerIn(old, other) = TriggerIn(tree, other)
    BY <2>1 DEF TriggerIn
  <2> QED
    BY <2>2, <2>3
<1>12. /\ [x \in Services |-> VersionIn(u.tree, x)] =
            [[x \in Services |-> VersionIn(tree, x)] EXCEPT ![s] = u.version]
       /\ [x \in Services |-> TriggerIn(u.tree, x)] =
            [[x \in Services |-> TriggerIn(tree, x)] EXCEPT ![s] = trigger]
  BY <1>1, <1>7, <1>8, <1>11
<1>13. Abstract(u.tree) = Log!Deployed(Abstract(tree), s, u.version, trigger, {})
  <2>1. Abstract(u.tree) =
          [version |-> [x \in Services |-> VersionIn(u.tree, x)],
           trigger |-> [x \in Services |-> TriggerIn(u.tree, x)],
           staged |-> {},
           shipyard |-> getStageAndSequence(u.tree, NoFlags)]
    BY AbstractParts
  <2>2. Abstract(tree) =
          [version |-> [x \in Services |-> VersionIn(tree, x)],
           trigger |-> [x \in Services |-> TriggerIn(tree, x)],
           staged |-> {},
           shipyard |-> getStageAndSequence(tree, NoFlags)]
    BY AbstractParts
  <2> DEFINE V == [x \in Services |-> VersionIn(tree, x)]
             T == [x \in Services |-> TriggerIn(tree, x)]
             S == getStageAndSequence(tree, NoFlags)
  <2>3. Abstract(u.tree) = [version |-> [V EXCEPT ![s] = u.version],
                            trigger |-> [T EXCEPT ![s] = trigger], staged |-> {}, shipyard |-> S]
    BY <1>10, <1>12, <2>1, Zenon
  <2>4. Abstract(tree) = [version |-> V, trigger |-> T, staged |-> {}, shipyard |-> S]
    BY <2>2
  <2> HIDE DEF s, V, T, S
  <2> QED
    BY <2>3, <2>4, DeployedParts
<1> QED
  BY <1>2, <1>5, <1>7, <1>13

(* What a job is about to tag holds its version, or changed nothing. *)
TagFits(j) ==
  job[j].step = "tag" =>
    LET i == job[j].commit IN
    /\ job[j].version \in Versions \union {NoVersion}
    /\ i \in DOMAIN master
    /\ \/ VersionIn(master[i], call[j].service) = job[j].version
       \/ i > 1 /\ master[i] = master[i - 1]

TagInv == MasterInv /\ \A j \in Jobs : TagFits(j)

LEMMA TagInit ==
  ASSUME Init
  PROVE  TagInv
  BY MasterInit DEF Init, TagInv, TagFits

(* What a job that pushes does to the log. *)
LEMMA PublishesAbstractly ==
  ASSUME TagInv, ShapeOK', NEW j \in Jobs, Publishes(j)
  PROVE  \E tree, version :
           /\ master' = Append(master, tree)
           /\ job' = [job EXCEPT ![j] = [step |-> "tag", version |-> version,
                                         commit |-> Len(master) + 1]]
           /\ version \in Versions \union {NoVersion}
           /\ VersionIn(tree, call[j].service) = version \/ tree = Last(master)
           /\ Abstract(tree) \in {Abstract(Last(master))} \union Log!Deployments(Abstract(Last(master)))
<1> DEFINE old == Last(master)
           w == Workspaces[call[j].workspace]
           trigger == getStageAndSequence(old, call[j])
<1>1. trigger # NoTrigger
  BY DEF Publishes
<1>2. PICK u \in UpdateRepository(old, w, call[j], trigger) :
        /\ master' = Append(master, u.tree)
        /\ job' = [job EXCEPT ![j] = [step |-> "tag", version |-> u.version,
                                      commit |-> Len(master) + 1]]
  BY DEF Publishes
<1>3. /\ call[j] \in Deployment /\ call[j].workspace \in DOMAIN Workspaces
      /\ call[j].service \in Services /\ call[j].version \in Versions \union {NoVersion}
  BY CallOfJob DEF TagInv, MasterInv, Deployment
<1>4. IsRepository(old)
  BY LastIsRepository DEF TagInv
<1>5. /\ u.version \in Versions \union {NoVersion}
      /\ VersionIn(u.tree, call[j].service) = u.version \/ u.tree = old
      /\ Abstract(u.tree) \in {Abstract(old)} \union Log!Deployments(Abstract(old))
  <2>1. CASE ~call[j].listed
    <3>1. u.tree = old /\ u.version = call[j].version
      BY <2>1 DEF UpdateRepository
    <3> QED
      BY <1>3, <3>1
  <2>2. CASE call[j].listed
    <3>1. /\ u.version \in Versions \union {NoVersion}
          /\ VersionIn(u.tree, call[j].service) = u.version
          /\ Abstract(u.tree) = Log!Deployed(Abstract(old), call[j].service, u.version, trigger, {})
          /\ trigger \in Stages \X SequenceNames
      BY <1>1, <1>3, <1>4, <2>2, DeploymentIsAbstract
    <3>2. {} \in SUBSET Abstract(old).staged
      OBVIOUS
    <3> HIDE DEF old, w, trigger
    <3>3. Abstract(u.tree) \in Log!Deployments(Abstract(old))
      BY <1>3, <3>1, <3>2 DEF Log!Deployments
    <3> QED
      BY <3>1, <3>3
  <2> QED
    BY <2>1, <2>2
<1> QED
  BY <1>2, <1>5

LEMMA DomainOfSeq ==
  ASSUME NEW s, IsSeq(s)
  PROVE  DOMAIN s = 1..Len(s)
  BY DEF IsSeq

LEMMA JobStays ==
  ASSUME TagInv, NEW j \in Jobs, UNCHANGED call, job'[j] = job[j],
         DOMAIN master \subseteq DOMAIN master',
         DOMAIN master \subseteq Nat \ {0},
         \A i \in DOMAIN master : i > 1 => i - 1 \in DOMAIN master,
         \A i \in DOMAIN master : master'[i] = master[i]
  PROVE  TagFits(j)'
<1>1. SUFFICES ASSUME job[j].step = "tag"
               PROVE  LET i == job[j].commit IN
                      /\ job[j].version \in Versions \union {NoVersion}
                      /\ i \in DOMAIN master'
                      /\ \/ VersionIn(master'[i], call[j].service) = job[j].version
                         \/ i > 1 /\ master'[i] = master'[i - 1]
  BY DEF TagFits
<1>2. TagFits(j)
  BY DEF TagInv
<1>3. /\ job[j].version \in Versions \union {NoVersion}
      /\ job[j].commit \in DOMAIN master
      /\ \/ VersionIn(master[job[j].commit], call[j].service) = job[j].version
         \/ job[j].commit > 1 /\ master[job[j].commit] = master[job[j].commit - 1]
  BY <1>1, <1>2 DEF TagFits
<1> QED
  BY <1>3

LEMMA TagStep ==
  ASSUME TagInv, PromotionInv', [Next]_vars
  PROVE  TagInv'
<1>1. MasterInv' /\ ShapeOK' /\ MasterInv
  BY MasterStep DEF TagInv, PromotionInv
<1>2. /\ DOMAIN master = 1..Len(master) /\ Len(master) \in Nat \ {0}
      /\ DOMAIN job = Jobs /\ \A j \in Jobs : DOMAIN job[j] = {"step", "version", "commit"}
  BY <1>1, LastIsRepository DEF MasterInv, ShapeOK, JobsOK
<1>3. /\ DOMAIN master \subseteq Nat \ {0}
      /\ \A i \in DOMAIN master : i > 1 => i - 1 \in DOMAIN master
  BY <1>2
<1>4. CASE UNCHANGED <<master, job, call>>
  <2>1. \A j \in Jobs : TagFits(j)'
    BY <1>3, <1>4, JobStays
  <2> QED
    BY <1>1, <2>1 DEF TagInv
<1>5. ASSUME NEW j \in Jobs, UNCHANGED <<master, call>>, NEW step, step # "tag",
             job' = [job EXCEPT ![j].step = step]
      PROVE  TagInv'
  <2>1. job'[j].step = step /\ \A k \in Jobs \ {j} : job'[k] = job[k]
    BY <1>2, <1>5
  <2>2. TagFits(j)'
    BY <1>5, <2>1 DEF TagFits
  <2>3. \A k \in Jobs \ {j} : TagFits(k)'
    BY <1>3, <1>5, <2>1, JobStays
  <2> QED
    BY <1>1, <2>2, <2>3 DEF TagInv
<1>6. ASSUME NEW j \in Jobs, UNCHANGED call, Publishes(j)
      PROVE  TagInv'
  <2>1. PICK tree, version :
          /\ master' = Append(master, tree)
          /\ job' = [job EXCEPT ![j] = [step |-> "tag", version |-> version,
                                        commit |-> Len(master) + 1]]
          /\ version \in Versions \union {NoVersion}
          /\ VersionIn(tree, call[j].service) = version \/ tree = Last(master)
    BY <1>1, <1>6, PublishesAbstractly
  <2>2. /\ Len(master) + 1 \in DOMAIN master'
        /\ DOMAIN master \subseteq DOMAIN master'
        /\ master'[Len(master) + 1] = tree
        /\ \A i \in DOMAIN master : master'[i] = master[i]
    <3>1. IsSeq(master)
      BY <1>1 DEF MasterInv, ShapeOK, MasterOK
    <3>2. /\ Len(master') = Len(master) + 1
          /\ master'[Len(master) + 1] = tree
          /\ \A i \in 1..Len(master) : master'[i] = master[i]
      BY <2>1, <3>1, AppendIsSeq
    <3>3. DOMAIN master' = 1..Len(master')
      BY <1>1, DomainOfSeq DEF MasterInv, ShapeOK, MasterOK
    <3> QED
      BY <1>2, <3>2, <3>3
  <2>3. /\ job'[j] = [step |-> "tag", version |-> version, commit |-> Len(master) + 1]
        /\ \A k \in Jobs \ {j} : job'[k] = job[k]
    BY <1>2, <2>1
  <2>4. TagFits(j)'
    <3>1. tree = Last(master) => master'[Len(master)] = tree /\ Len(master) + 1 > 1 /\ (Len(master) + 1) - 1 = Len(master)
      BY <1>1, <1>2, <2>2, LastOfSeq DEF MasterInv, ShapeOK, MasterOK
    <3> QED
      BY <1>6, <2>1, <2>2, <2>3, <3>1 DEF TagFits
  <2>5. \A k \in Jobs \ {j} : TagFits(k)'
    BY <1>3, <1>6, <2>2, <2>3, JobStays
  <2> QED
    BY <1>1, <2>4, <2>5 DEF TagInv
<1>7. ASSUME NEW j \in Jobs, Deploy(j) PROVE TagInv'
  <2>1. UNCHANGED call /\ (Publishes(j) \/ (UNCHANGED master /\ job' = [job EXCEPT ![j].step = "failed"]))
    BY <1>7, DeployPublishes
  <2> QED
    BY <1>5, <1>6, <2>1
<1>8. ASSUME NEW j \in Jobs, Tag(j) PROVE TagInv'
  BY <1>5, <1>8 DEF Tag
<1> QED
  BY <1>4, <1>7, <1>8 DEF Next, Receive, Handle, GetGitSecret, CloneRelease, CloneStage,
     Push, Finish, Restart, vars, jobVars

LEMMA TagInvariant == Spec => []TagInv
  BY TagInit, TagStep, PromotionInvariant, PTL DEF Spec

Records == [i \in 1..Len(master) |-> Abstract(master[i])]

LEMMA RecordsInit ==
  ASSUME Init
  PROVE  Log!LogInit
<1>1. master = <<Initial>> /\ tags = [r \in Release |-> 0]
  BY DEF Init
<1>2. Records = <<Abstract(Initial)>>
  <2>1. Len(master) = 1 /\ master[1] = Initial
    BY <1>1
  <2>2. Records = [i \in 1..1 |-> Abstract(Initial)]
    BY <2>1 DEF Records
  <2> QED
    BY <2>2
<1> QED
  BY <1>1, <1>2 DEF Log!LogInit, Log!Release, Release, Records

LEMMA RecordsAppend ==
  ASSUME IsSeq(master), NEW tree, master' = Append(master, tree)
  PROVE  /\ Records' = Append(Records, Abstract(tree))
         /\ Len(Records) = Len(master) /\ Len(Records') = Len(Records) + 1
<1>1. /\ Len(master) \in Nat
      /\ Len(master') = Len(master) + 1
      /\ master'[Len(master) + 1] = tree
      /\ \A i \in 1..Len(master) : master'[i] = master[i]
  BY AppendIsSeq
<1> DEFINE S == {Abstract(master[i]) : i \in 1..Len(master)} \union {Abstract(tree)}
<1>2. Records \in Seq(S) /\ Len(Records) = Len(master)
  BY <1>1 DEF Records
<1>3. Abstract(tree) \in S
  OBVIOUS
<1> HIDE DEF S
<1>4. /\ Len(Append(Records, Abstract(tree))) = Len(master) + 1
      /\ Append(Records, Abstract(tree)) \in Seq(S)
      /\ \A i \in 1..Len(master) : Append(Records, Abstract(tree))[i] = Records[i]
      /\ Append(Records, Abstract(tree))[Len(master) + 1] = Abstract(tree)
  BY <1>1, <1>2, <1>3
<1>5. /\ Records' = [i \in 1..(Len(master) + 1) |-> Abstract(master'[i])]
      /\ \A i \in 1..Len(master) : Records[i] = Abstract(master[i])
  BY <1>1 DEF Records
<1>6. Append(Records, Abstract(tree)) = [i \in 1..(Len(master) + 1) |-> Append(Records, Abstract(tree))[i]]
  BY <1>4, LenProperties
<1>7. \A i \in 1..(Len(master) + 1) : Append(Records, Abstract(tree))[i] = Abstract(master'[i])
  BY <1>1, <1>4, <1>5
<1>8. Records' = Append(Records, Abstract(tree))
  BY <1>5, <1>6, <1>7
<1> QED
  BY <1>2, <1>4, <1>8

LEMMA DeployRefines ==
  ASSUME TagInv, ShapeOK', NEW j \in Jobs, Deploy(j)
  PROVE  Log!Extend \/ UNCHANGED <<Records, tags>>
<1>1. UNCHANGED <<tags, call>> /\ (Publishes(j) \/ UNCHANGED master)
  BY DeployPublishes
<1>2. CASE UNCHANGED master
  BY <1>1, <1>2 DEF Records
<1>3. CASE Publishes(j)
  <2>1. PICK tree :
          /\ master' = Append(master, tree)
          /\ Abstract(tree) \in {Abstract(Last(master))} \union Log!Deployments(Abstract(Last(master)))
    BY <1>3, PublishesAbstractly
  <2>2. /\ Len(master) \in Nat \ {0} /\ IsSeq(master)
        /\ Last(master) = master[Len(master)]
    BY LastOfSeq DEF TagInv, MasterInv, ShapeOK, MasterOK
  <2>3. /\ Records' = Append(Records, Abstract(tree))
        /\ Len(Records) = Len(master) /\ Len(Records') = Len(Records) + 1
    BY <2>1, <2>2, RecordsAppend
  <2>4. Records[Len(Records)] = Abstract(Last(master))
    BY <2>2, <2>3 DEF Records
  <2> QED
    BY <1>1, <2>1, <2>3, <2>4 DEF Log!Extend, Log!Newest, Records
<1> QED
  BY <1>1, <1>2, <1>3

LEMMA TagRefines ==
  ASSUME TagInv, NEW j \in Jobs, Tag(j)
  PROVE  Log!Publish \/ UNCHANGED <<Records, tags>>
<1> DEFINE r == <<call[j].service, job[j].version>>
           i == job[j].commit
<1>1. /\ job[j].step = "tag" /\ UNCHANGED master
      /\ tags' = IF tags[r] = 0 THEN [tags EXCEPT ![r] = i] ELSE tags
  BY DEF Tag
<1>2. /\ job[j].version \in Versions \union {NoVersion}
      /\ i \in DOMAIN master
      /\ \/ VersionIn(master[i], call[j].service) = job[j].version
         \/ i > 1 /\ master[i] = master[i - 1]
  BY <1>1 DEF TagInv, TagFits
<1>3. /\ Len(master) \in Nat \ {0} /\ DOMAIN master = 1..Len(master)
      /\ call[j].service \in Services
  BY LastIsRepository, CallOfJob DEF TagInv, MasterInv
<1>4. r \in Release /\ r[1] = call[j].service /\ r[2] = job[j].version
  BY <1>2, <1>3 DEF Release
<1>5. \A k \in 1..Len(master) : Records[k] = Abstract(master[k])
  BY DEF Records
<1>6. Len(Records) = Len(master) /\ Records' = Records
  BY <1>1, <1>3 DEF Records
<1>7. \/ Records[i].version[r[1]] = r[2]
      \/ i > 1 /\ Records[i] = Records[i - 1]
  <2>1. CASE VersionIn(master[i], call[j].service) = job[j].version
    <3>1. Abstract(master[i]).version = [s \in Services |-> VersionIn(master[i], s)]
      BY AbstractParts
    <3> QED
      BY <1>2, <1>3, <1>4, <1>5, <2>1, <3>1
  <2>2. CASE i > 1 /\ master[i] = master[i - 1]
    <3>1. i - 1 \in 1..Len(master)
      BY <1>2, <1>3, <2>2
    <3> QED
      BY <1>2, <1>3, <1>5, <2>2, <3>1
  <2> QED
    BY <1>2, <2>1, <2>2
<1>8. CASE tags[r] # 0
  BY <1>1, <1>6, <1>8
<1>9. CASE tags[r] = 0
  <2> HIDE DEF r, i
  <2>1. tags' = [tags EXCEPT ![r] = i] /\ i \in 1..Len(Records)
    BY <1>1, <1>2, <1>3, <1>6, <1>9
  <2> QED
    BY <1>4, <1>6, <1>7, <1>9, <2>1 DEF Log!Publish, Log!Describes, Log!Release, Release, Records
<1> QED
  BY <1>8, <1>9

LEMMA RecordsStep ==
  ASSUME TagInv, PromotionInv', [Next]_vars
  PROVE  [Log!LogNext]_<<Records, tags>>
<1>1. ASSUME UNCHANGED <<master, tags>> PROVE UNCHANGED <<Records, tags>>
  BY <1>1 DEF Records
<1>2. ASSUME NEW j \in Jobs, Deploy(j) PROVE Log!LogNext \/ UNCHANGED <<Records, tags>>
  BY <1>2, DeployRefines DEF PromotionInv, Log!LogNext
<1>3. ASSUME NEW j \in Jobs, Tag(j) PROVE Log!LogNext \/ UNCHANGED <<Records, tags>>
  BY <1>3, TagRefines DEF Log!LogNext
<1> QED
  BY <1>1, <1>2, <1>3 DEF Next, Receive, Handle, GetGitSecret, CloneRelease, CloneStage,
     Push, Finish, Restart, vars, jobVars

(* The files that jobs copy, edit and tag, read as configurations, are the log *)
(* that CIConnect's jobs are proved to write: each commit is the one before it *)
(* with one service deployed, or the same again, and a tag is put on a commit  *)
(* that holds its version or changed nothing (keptnciutils.go:16-148).         *)
THEOREM FilesAlwaysFollowTheLog == Spec => FilesFollowTheLog
<1>1. [Log!LogNext]_<<Records, tags>> <=>
        [Log!LogNext]_<<[i \in 1..Len(master) |-> Abstract(master[i])], tags>>
  BY DEF Records
<1> QED
  BY <1>1, RecordsInit, RecordsStep, TagInvariant, PromotionInvariant, PTL
     DEF Spec, FilesFollowTheLog, Log!LogSpec
================================================================================
