----------------------------- MODULE TextProofs ----------------------------
(***************************************************************************)
(* The properties of names that the run checks on short ones, for names of *)
(* any length: a stored file is loaded under its path, and the URL made of *)
(* the path is the one it was stored for, or still has its vid.            *)
(***************************************************************************)
EXTENDS MCText, UrlTextProofs, PagesProofs, SequenceTheorems

(* The tokens of the host, and of a Sohu file its mark. *)
StartsAs(site, t) ==
    \/ /\ site = "youku" /\ 4 <= Len(t)
       /\ t[1] = "youku" /\ t[2] = "." /\ t[3] = "com" /\ t[4] = "/"
    \/ /\ site = "sohu" /\ 6 <= Len(t)
       /\ t[1] = "ip" /\ t[2] = "/" /\ t[3] = "ipad" /\ t[4] = "?" /\ t[5] = "file=" /\ t[6] = "/"

NameChar == NameToken \cup {"com", "ip"}

(* The inductive invariant: the name that grows keeps its beginning. *)
NameGrows ==
    job.kind = "name" =>
        job.site \in {"youku", "sohu"} /\ text \in Seq(NameChar) /\ StartsAs(job.site, text)

LEMMA SeqIsText ==
    ASSUME NEW t \in Seq(NameChar)
    PROVE  IsText(t)
BY DEF IsText

LEMMA NameInit == Init => NameGrows
<1> SUFFICES ASSUME Init, job.kind = "name"
             PROVE  job.site \in {"youku", "sohu"} /\ text \in Seq(NameChar) /\ StartsAs(job.site, text)
  BY DEF NameGrows
<1>1. PICK site \in DOMAIN NameStart :
         job = [kind |-> "name", site |-> site] /\ text = NameStart[site]
  BY DEF Init
<1>2. CASE site = "youku"
  <2>1. job.site = "youku" /\ text = <<"youku", ".", "com", "/">>
    BY <1>1, <1>2 DEF NameStart
  <2>2. text \in Seq(NameChar)
    BY <2>1 DEF NameChar, NameToken
  <2>3. StartsAs("youku", text)
    BY <2>1 DEF StartsAs
  <2> QED
    BY <2>1, <2>2, <2>3
<1>3. CASE site = "sohu"
  <2>1. job.site = "sohu" /\ text = <<"ip", "/", "ipad", "?", "file=", "/">>
    BY <1>1, <1>3 DEF NameStart
  <2>2. text \in Seq(NameChar)
    BY <2>1 DEF NameChar, NameToken
  <2>3. StartsAs("sohu", text)
    BY <2>1 DEF StartsAs
  <2> QED
    BY <2>1, <2>2, <2>3
<1>4. site \in {"youku", "sohu"}
  BY DEF NameStart
<1> QED
  BY <1>2, <1>3, <1>4

LEMMA NameStep == NameGrows /\ [Next]_vars => NameGrows'
<1> SUFFICES ASSUME NameGrows, [Next]_vars, job'.kind = "name"
             PROVE  job'.site \in {"youku", "sohu"} /\ text' \in Seq(NameChar) /\ StartsAs(job'.site, text')
  BY DEF NameGrows
<1>1. CASE GrowName
  <2>1. PICK t \in NameToken : text' = Append(text, t)
    BY <1>1 DEF GrowName
  <2>2. /\ job' = job /\ t \in NameChar /\ job.site \in {"youku", "sohu"}
        /\ text \in Seq(NameChar) /\ StartsAs(job.site, text)
    BY <1>1 DEF GrowName, NameChar, NameGrows
  <2>3. text' \in Seq(NameChar) /\ Len(text') = Len(text) + 1 /\ \A i \in 1 .. Len(text) : text'[i] = text[i]
    <3>1. PICK s \in Seq(NameChar) : s = text
      BY <2>2
    <3>2. /\ Append(s, t) \in Seq(NameChar) /\ Len(Append(s, t)) = Len(s) + 1
          /\ \A i \in 1 .. Len(s) : Append(s, t)[i] = s[i]
      BY <2>2, AppendProperties
    <3> QED
      BY <2>1, <3>1, <3>2
  <2>4. StartsAs(job.site, text')
    BY <2>2, <2>3 DEF StartsAs
  <2> QED
    BY <2>2, <2>3, <2>4
<1>2. CASE GrowLine
  BY <1>2 DEF GrowLine
<1>3. CASE GrowPage
  BY <1>3 DEF GrowPage
<1>4. CASE UNCHANGED vars
  BY <1>4 DEF vars, NameGrows
<1> QED
  BY <1>1, <1>2, <1>3, <1>4 DEF Next

LEMMA NameAlways == Spec => []NameGrows
BY NameInit, NameStep, PTL DEF Spec

-----------------------------------------------------------------------------
(* A URL without its parameters: the part before the first '?'. *)
LEMMA WithoutParaText ==
    ASSUME NEW u, IsText(u)
    PROVE  /\ IsText(WithoutPara(u)) /\ Len(WithoutPara(u)) <= Len(u)
           /\ \A i \in 1 .. Len(WithoutPara(u)) : WithoutPara(u)[i] = u[i] /\ u[i] # "?"
           /\ \A k \in 0 .. Len(u) : (\A i \in 1 .. k : u[i] # "?") => k <= Len(WithoutPara(u))
<1> DEFINE n == {i \in 0 .. Len(u) : \A j \in 1 .. i : u[j] # "?"}
           m == CHOOSE i \in n : \A j \in n : j <= i
           T == {Len(u) - i : i \in n}
<1>0. Len(u) \in Nat
  BY DEF IsText
<1>1. T \in SUBSET Nat /\ Len(u) - 0 \in T
  BY <1>0
<1>2. PICK k \in T : \A j \in T : k <= j
  BY <1>1, LeastNat
<1>3. PICK a \in n : k = Len(u) - a
  BY <1>2
<1>4. ASSUME NEW j \in n
      PROVE  j <= a
  <2>1. Len(u) - j \in T /\ j \in Int /\ a \in Int
    OBVIOUS
  <2>2. Len(u) - a <= Len(u) - j
    BY <1>2, <1>3, <2>1
  <2> QED
    BY <1>0, <2>1, <2>2
<1>5. m \in n /\ \A j \in n : j <= m
  BY <1>3, <1>4
<1>6. WithoutPara(u) = SubSeq(u, 1, m)
  BY DEF WithoutPara
<1> HIDE DEF m
<1>7. PICK s : s = SubSeq(u, 1, m)
  OBVIOUS
<1>8. s = [i \in 1 .. m |-> u[i]] /\ m \in 0 .. Len(u)
  BY <1>0, <1>5, <1>7
<1>9. IsText(s) /\ Len(s) = m
  BY <1>8, <1>0, FunIsText
<1> QED
  BY <1>0, <1>5, <1>6, <1>7, <1>8, <1>9

(* Letters that neither conversion changes, and where the '/' of a path is. *)
LEMMA LettersKept ==
    ASSUME NEW u, IsText(u), NEW i \in 1 .. Len(u)
    PROVE  /\ u[i] \notin {".", "/", "?"} => Flatten(u)[i] = u[i]
           /\ u[i] = "?" \/ (u[i] = "/" /\ ~InHost(u, i)) => Flatten(u)[i] = "_"
           /\ u[i] = "." => Flatten(u)[i] = (IF InHost(u, i) THEN "_" ELSE ".")
BY DEF Flatten

LEMMA LettersBack ==
    ASSUME NEW p, IsText(p), NEW i \in 1 .. Len(p)
    PROVE  /\ p[i] # "_" => Unflatten(p)[i] = p[i]
           /\ p[i] = "_" => Unflatten(p)[i] = (IF InHost(p, i) THEN "." ELSE "/")
           /\ Unflatten(p)[i] \notin {".", "/"} => p[i] = Unflatten(p)[i]
           /\ Unflatten(p)[i] = "/" => p[i] \in {"/", "_"}
BY DEF Unflatten

(* The name of a Youku file: its only '/' ends the host. *)
LEMMA YoukuStart ==
    ASSUME NEW w, IsText(w), StartsAs("youku", w), NEW p, p = Flatten(w)
    PROVE  /\ IsText(p) /\ Len(p) = Len(w) /\ 4 <= Len(p)
           /\ p[1] = "youku" /\ p[3] = "com"
           /\ \A i \in 1 .. Len(p) : p[i] = "/" => i = 4
<1>1. IsText(p) /\ Len(p) = Len(w) /\ Len(w) \in Nat
  BY FlattenKeeps DEF IsText
<1>2. 4 <= Len(w) /\ w[1] = "youku" /\ w[2] = "." /\ w[3] = "com" /\ w[4] = "/"
  BY DEF StartsAs
<1>3. p[1] = "youku" /\ p[3] = "com"
  <2>1. 1 \in 1 .. Len(w) /\ 3 \in 1 .. Len(w)
    BY <1>1, <1>2
  <2>2. w[1] \notin {".", "/", "?"} /\ w[3] \notin {".", "/", "?"}
    BY <1>2
  <2> QED
    BY <1>2, <2>1, <2>2, LettersKept
<1>4. ASSUME NEW i \in 1 .. Len(p), p[i] = "/"
      PROVE  i = 4
  <2>1. w[i] = "/" /\ InHost(w, i)
    BY <1>1, <1>4, FlattenKeeps
  <2>2. i \notin {1, 2, 3}
    BY <1>2, <2>1
  <2>3. ~(i > 4)
    BY <1>1, <1>2, <2>1 DEF InHost
  <2> QED
    BY <1>1, <2>2, <2>3
<1> QED
  BY <1>1, <1>2, <1>3, <1>4

(* The mark of a Sohu file in the URL recovered from the path of a Youku   *)
(* file was already in the path.                                           *)
LEMMA NoMarkMade ==
    ASSUME NEW w, IsText(w), StartsAs("youku", w), NEW p, p = Flatten(w), ~IsSohuPath(p)
    PROVE  ~Occurs(Unflatten(p), SohuTag)
<1>1. /\ IsText(p) /\ Len(p) = Len(w) /\ 4 <= Len(p) /\ p[1] = "youku" /\ p[3] = "com"
      /\ \A i \in 1 .. Len(p) : p[i] = "/" => i = 4
  BY YoukuStart
<1>2. PICK g : g = Unflatten(p)
  OBVIOUS
<1>3. Len(g) = Len(p) /\ Len(p) \in Nat
  <2>1. Len(Unflatten(p)) = Len(p)
    BY <1>1, UnflattenKeeps
  <2>2. Len(p) \in Nat
    BY <1>1 DEF IsText
  <2> QED
    BY <1>2, <2>1, <2>2
<1>4. \A i \in 1 .. Len(p) : (g[i] \notin {".", "/"} => p[i] = g[i]) /\ (g[i] = "/" => p[i] \in {"/", "_"})
  BY <1>1, <1>2, LettersBack
<1> SUFFICES ASSUME NEW i \in 1 .. Len(g) + 1, At(g, SohuTag, i)
             PROVE  FALSE
  BY <1>2 DEF Occurs
<1>5. /\ i + 3 <= Len(p) /\ i \in 1 .. Len(p)
      /\ g[i] = "ipad" /\ g[i + 1] = "/" /\ g[i + 2] = "file=" /\ g[i + 3] = "/"
  <2>1. Len(SohuTag) = 4 /\ SohuTag[1] = "ipad" /\ SohuTag[2] = "/" /\ SohuTag[3] = "file=" /\ SohuTag[4] = "/"
    BY DEF SohuTag
  <2>2. i + 3 <= Len(g) /\ \A j \in 1 .. 4 : g[i + j - 1] = SohuTag[j]
    BY <1>3, <2>1 DEF At
  <2>3. g[i + 1 - 1] = "ipad" /\ g[i + 2 - 1] = "/" /\ g[i + 3 - 1] = "file=" /\ g[i + 4 - 1] = "/"
    BY <2>1, <2>2
  <2>4. i + 1 - 1 = i /\ i + 2 - 1 = i + 1 /\ i + 3 - 1 = i + 2 /\ i + 4 - 1 = i + 3
    OBVIOUS
  <2> QED
    BY <1>3, <2>2, <2>3, <2>4
<1>6. p[i] = "ipad" /\ p[i + 2] = "file=" /\ p[i + 1] \in {"/", "_"} /\ p[i + 3] \in {"/", "_"}
  <2>1. i + 1 \in 1 .. Len(p) /\ i + 2 \in 1 .. Len(p) /\ i + 3 \in 1 .. Len(p)
    BY <1>3, <1>5
  <2> QED
    BY <1>4, <1>5, <2>1
<1>7. p[i + 1] = "_"
  <2>1. SUFFICES ASSUME p[i + 1] = "/"
                 PROVE  FALSE
    BY <1>6
  <2>2. i = 3
    BY <1>1, <1>3, <1>5, <2>1
  <2> QED
    BY <1>1, <1>6, <2>2
<1>8. p[i + 3] = "_"
  <2>1. SUFFICES ASSUME p[i + 3] = "/"
                 PROVE  FALSE
    BY <1>6
  <2>2. i = 1
    BY <1>1, <1>3, <1>5, <2>1
  <2> QED
    BY <1>1, <1>6, <2>2
<1>9. At(p, <<"_", "file=", "_">>, i + 1)
  <2>1. PICK t : t = <<"_", "file=", "_">>
    OBVIOUS
  <2>2. Len(t) = 3 /\ t[1] = "_" /\ t[2] = "file=" /\ t[3] = "_"
    BY <2>1
  <2>3. i + 1 + 1 - 1 = i + 1 /\ i + 1 + 2 - 1 = i + 2 /\ i + 1 + 3 - 1 = i + 3
    OBVIOUS
  <2>4. \A j \in 1 .. 3 : p[i + 1 + j - 1] = t[j]
    <3>1. ASSUME NEW j \in 1 .. 3
          PROVE  p[i + 1 + j - 1] = t[j]
      <4>1. j = 1 \/ j = 2 \/ j = 3
        OBVIOUS
      <4> QED
        BY <1>6, <1>7, <1>8, <2>2, <2>3, <4>1
    <3> QED
      BY <3>1
  <2>5. i + 1 + 3 - 1 <= Len(p)
    BY <1>3, <1>5
  <2> QED
    BY <2>1, <2>2, <2>4, <2>5 DEF At
<1>10. i + 1 \in 1 .. Len(p) + 1
  BY <1>3, <1>5
<1> QED
  BY <1>9, <1>10 DEF IsSohuPath, Occurs

(* What sc_ld_file_process loads when the path made of the recovered URL   *)
(* is the one of the file.                                                 *)
LEMMA LoadedOne ==
    ASSUME NEW p, LoadSite(p) # "none", NEW v, v = RecoverUrlOf(p), v # NoText, Len(v) < UrlMax,
           Len(v) \in Nat, IsYk(v) \/ IsFileUrl(v), GenLocalPath(LoadSite(p), v) = p, p # NoText
    PROVE  {l.path : l \in LoadedOf(p)} = {p}
<1>1. ~(Len(v) >= UrlMax)
  BY LengthAssumption
<1>2. LoadedOf(p) = {[url |-> v, path |-> q] : q \in {p}}
  BY <1>1 DEF LoadedOf
<1>3. LoadedOf(p) = {[url |-> v, path |-> p]}
  BY <1>2
<1>4. [url |-> v, path |-> p].path = p
  OBVIOUS
<1> QED
  BY <1>3, <1>4

LEMMA LongerThanNoText ==
    ASSUME NEW t, NEW n \in Nat, n = Len(t), 2 <= n
    PROVE  t # NoText
<1>1. Len(NoText) = 1
  BY DEF NoText
<1>2. n # 1
  OBVIOUS
<1> QED
  BY <1>1, <1>2, Zenon

(* A Youku file is loaded with its path. *)
LEMMA YoukuLoaded ==
    ASSUME NEW u, IsText(u), StartsAs("youku", u), NEW p, p = GenLocalPath("youku", u), p # NoText,
           ~(IsYkPath(p) /\ IsSohuPath(p)), LoadSite(p) = "youku", Len(p) < UrlMax
    PROVE  {l.path : l \in LoadedOf(p)} = {p}
<1>1. PICK w : w = WithoutPara(u)
  OBVIOUS
<1>2. p = Flatten(w) /\ ~(PathMax <= Len(u))
  BY <1>1 DEF GenLocalPath, DefaultPath
<1>3. /\ IsText(w) /\ Len(w) <= Len(u)
      /\ \A i \in 1 .. Len(w) : w[i] = u[i]
      /\ \A k \in 0 .. Len(u) : (\A i \in 1 .. k : u[i] # "?") => k <= Len(w)
  BY <1>1, WithoutParaText
<1>4. Len(w) \in Nat /\ Len(u) \in Nat
  BY <1>3 DEF IsText
<1>5. StartsAs("youku", w)
  <2>1. 4 <= Len(u) /\ u[1] = "youku" /\ u[2] = "." /\ u[3] = "com" /\ u[4] = "/"
    BY DEF StartsAs
  <2>2. ASSUME NEW i \in 1 .. 4
        PROVE  u[i] # "?"
    <3>1. i = 1 \/ i = 2 \/ i = 3 \/ i = 4
      OBVIOUS
    <3> QED
      BY <2>1, <3>1
  <2>3. 4 <= Len(w)
    BY <1>3, <1>4, <2>1, <2>2
  <2>4. w[1] = u[1] /\ w[2] = u[2] /\ w[3] = u[3] /\ w[4] = u[4]
    BY <1>3, <1>4, <2>3
  <2> QED
    BY <2>1, <2>3, <2>4 DEF StartsAs
<1>6. IsYkPath(p) /\ ~IsSohuPath(p)
  BY DEF LoadSite
<1>7. IsText(p) /\ Len(p) = Len(w) /\ 4 <= Len(p) /\ p[1] = "youku"
  BY <1>2, <1>3, <1>5, YoukuStart
<1>8. ~Occurs(Unflatten(p), SohuTag)
  BY <1>2, <1>3, <1>5, <1>6, NoMarkMade
<1>9. Len(p) < PathMax
  BY <1>2, <1>3, <1>4, <1>7, LengthAssumption
<1>10. DefaultPath(RecoverUrlOf(p)) = p
  BY <1>2, <1>3, <1>8, <1>9, YoukuPathKept
<1>11. PICK v : v = Unflatten(p)
  OBVIOUS
<1>12. RecoverUrlOf(p) = v
  BY <1>4, <1>7, <1>8, <1>11, LengthAssumption DEF RecoverUrlOf, MarkFile
<1>13. Len(v) = Len(p)
  BY <1>7, <1>11, UnflattenKeeps
<1>14. IsYk(v)
  <2>0. 1 \in 1 .. Len(p)
    BY <1>4, <1>7
  <2>1. p[1] # "_"
    BY <1>7
  <2>2. v[1] = "youku"
    BY <1>7, <1>11, <2>0, <2>1, LettersBack
  <2>3. PICK t : t = <<"youku">>
    OBVIOUS
  <2>4. Len(t) = 1 /\ t[1] = "youku"
    BY <2>3
  <2>5. At(v, t, 1)
    BY <1>4, <1>7, <1>13, <2>2, <2>4 DEF At
  <2> QED
    BY <1>4, <1>7, <1>13, <2>3, <2>5 DEF IsYk, Occurs
<1>15. v # NoText
  BY <1>4, <1>7, <1>13, LongerThanNoText
<1> QED
  BY <1>4, <1>7, <1>10, <1>12, <1>13, <1>14, <1>15, LoadedOne DEF GenLocalPath

(* The path of a Sohu file, and the mark in the URL recovered from it. *)
LEMMA SohuStart ==
    ASSUME NEW u, IsText(u), StartsAs("sohu", u), NEW p, p = Flatten(u), NEW g, g = Unflatten(p)
    PROVE  /\ IsText(p) /\ Len(p) = Len(u) /\ 6 <= Len(p)
           /\ IsText(g) /\ Len(g) = Len(u)
           /\ \A i \in 3 .. Len(u) : ~InHost(p, i)
           /\ At(g, SohuTag, 3)
           /\ ~At(g, SohuTag, 1) /\ ~At(g, SohuTag, 2)
<1>1. IsText(p) /\ Len(p) = Len(u)
  BY FlattenKeeps
<1>2. Len(u) \in Nat
  BY DEF IsText
<1>3. IsText(g) /\ Len(g) = Len(u)
  BY <1>1, UnflattenKeeps
<1>4. /\ 6 <= Len(u) /\ u[1] = "ip" /\ u[2] = "/" /\ u[3] = "ipad"
      /\ u[4] = "?" /\ u[5] = "file=" /\ u[6] = "/"
  BY DEF StartsAs
<1>5. /\ 1 \in 1 .. Len(u) /\ 2 \in 1 .. Len(u) /\ 3 \in 1 .. Len(u)
      /\ 4 \in 1 .. Len(u) /\ 5 \in 1 .. Len(u) /\ 6 \in 1 .. Len(u)
  BY <1>2, <1>4
<1>6. \A i \in 3 .. Len(u) : ~InHost(u, i)
  BY <1>2, <1>4 DEF InHost
<1>7. InHost(u, 2)
  <2>1. ASSUME NEW j \in 1 .. 2 - 1
        PROVE  u[j] # "/"
    <3>1. j = 1
      OBVIOUS
    <3> QED
      BY <1>4, <3>1
  <2> QED
    BY <2>1 DEF InHost
<1>8. p[1] = "ip" /\ p[3] = "ipad" /\ p[5] = "file="
  <2>1. u[1] \notin {".", "/", "?"} /\ u[3] \notin {".", "/", "?"} /\ u[5] \notin {".", "/", "?"}
    BY <1>4
  <2> QED
    BY <1>4, <1>5, <2>1, LettersKept
<1>9. p[2] = "/"
  BY <1>4, <1>5, <1>7, FlattenKeeps
<1>10. p[4] = "_" /\ p[6] = "_"
  <2>1. ~InHost(u, 6)
    BY <1>2, <1>4, <1>6
  <2> QED
    BY <1>4, <1>5, <2>1, LettersKept
<1>11. \A i \in 3 .. Len(u) : ~InHost(p, i)
  BY <1>1, <1>2, <1>9 DEF InHost
<1>12. g[1] = "ip" /\ g[2] = "/" /\ g[3] = "ipad" /\ g[5] = "file="
  <2>1. p[1] # "_" /\ p[2] # "_" /\ p[3] # "_" /\ p[5] # "_"
    BY <1>8, <1>9
  <2>2. 1 \in 1 .. Len(p) /\ 2 \in 1 .. Len(p) /\ 3 \in 1 .. Len(p) /\ 5 \in 1 .. Len(p)
    BY <1>1, <1>5
  <2>3. g[1] = p[1] /\ g[2] = p[2] /\ g[3] = p[3] /\ g[5] = p[5]
    BY <1>1, <2>1, <2>2, LettersBack
  <2> QED
    BY <1>8, <1>9, <2>3
<1>13. g[4] = "/" /\ g[6] = "/"
  <2>1. ~InHost(p, 4) /\ ~InHost(p, 6)
    BY <1>2, <1>4, <1>11
  <2> QED
    BY <1>1, <1>5, <1>10, <2>1, LettersBack
<1>14. Len(SohuTag) = 4 /\ SohuTag[1] = "ipad" /\ SohuTag[2] = "/" /\ SohuTag[3] = "file=" /\ SohuTag[4] = "/"
  BY DEF SohuTag
<1>15. At(g, SohuTag, 3)
  <2>1. ASSUME NEW j \in 1 .. 4
        PROVE  g[3 + j - 1] = SohuTag[j]
    <3>1. j = 1 \/ j = 2 \/ j = 3 \/ j = 4
      OBVIOUS
    <3>2. 3 + 1 - 1 = 3 /\ 3 + 2 - 1 = 4 /\ 3 + 3 - 1 = 5 /\ 3 + 4 - 1 = 6
      OBVIOUS
    <3> QED
      BY <1>12, <1>13, <1>14, <3>1, <3>2
  <2>2. 3 + 4 - 1 <= Len(g)
    BY <1>2, <1>3, <1>4
  <2> QED
    BY <1>14, <2>1, <2>2 DEF At
<1>16. ~At(g, SohuTag, 1) /\ ~At(g, SohuTag, 2)
  <2>1. At(g, SohuTag, 1) => g[1 + 1 - 1] = SohuTag[1]
    BY <1>14 DEF At
  <2>2. At(g, SohuTag, 2) => g[2 + 1 - 1] = SohuTag[1]
    BY <1>14 DEF At
  <2>3. 1 + 1 - 1 = 1 /\ 2 + 1 - 1 = 2
    OBVIOUS
  <2> QED
    BY <1>12, <1>14, <2>1, <2>2, <2>3
<1> QED
  BY <1>1, <1>3, <1>4, <1>11, <1>15, <1>16

(* MarkFile puts the '?' after the first "ipad" of the mark. *)
LEMMA SohuMark ==
    ASSUME NEW u, IsText(u), StartsAs("sohu", u), NEW g, g = Unflatten(Flatten(u))
    PROVE  Occurs(g, SohuTag) /\ MarkFile(g) = [g EXCEPT ![4] = "?"]
<1>1. PICK p : p = Flatten(u)
  OBVIOUS
<1>2. /\ IsText(g) /\ Len(g) = Len(u) /\ 6 <= Len(g)
      /\ At(g, SohuTag, 3) /\ ~At(g, SohuTag, 1) /\ ~At(g, SohuTag, 2)
  BY <1>1, SohuStart
<1>3. Len(g) \in Nat
  BY <1>2 DEF IsText
<1>4. 3 \in 1 .. Len(g) /\ 3 \in 1 .. Len(g) + 1
  BY <1>2, <1>3
<1>5. Occurs(g, SohuTag)
  BY <1>2, <1>4 DEF Occurs
<1>6. PICK k \in 1 .. Len(g) - 3 :
         /\ At(g, SohuTag, k) /\ MarkFile(g) = [g EXCEPT ![k + 1] = "?"]
         /\ \A j \in 1 .. Len(g) : At(g, SohuTag, j) => k <= j
  BY <1>2, <1>5, MarkFileAt
<1>7. k <= 3
  BY <1>2, <1>4, <1>6
<1>8. k # 1 /\ k # 2
  BY <1>2, <1>6
<1>9. k = 3
  BY <1>3, <1>7, <1>8
<1>10. k + 1 = 4
  BY <1>9
<1> QED
  BY <1>5, <1>6, <1>10

(* A Sohu file is loaded with its path. *)
LEMMA SohuLoaded ==
    ASSUME NEW u, IsText(u), StartsAs("sohu", u), NEW p, p = GenLocalPath("sohu", u), p # NoText,
           LoadSite(p) = "sohu", Len(p) < UrlMax
    PROVE  {l.path : l \in LoadedOf(p)} = {p}
<1>1. p = Flatten(u) /\ ~(PathMax <= Len(u))
  BY DEF GenLocalPath, SohuPath
<1>2. PICK g : g = Unflatten(p)
  OBVIOUS
<1>3. /\ IsText(p) /\ Len(p) = Len(u) /\ 6 <= Len(p) /\ IsText(g) /\ Len(g) = Len(u)
      /\ \A i \in 3 .. Len(u) : ~InHost(p, i)
      /\ ~At(g, SohuTag, 1) /\ ~At(g, SohuTag, 2)
  BY <1>1, <1>2, SohuStart
<1>4. Len(u) \in Nat
  BY DEF IsText
<1>5. Occurs(g, SohuTag) /\ MarkFile(g) = [g EXCEPT ![4] = "?"]
  BY <1>1, <1>2, SohuMark
<1>6. ASSUME NEW i \in 1 .. Len(p), At(g, SohuTag, i)
      PROVE  ~InHost(p, i)
  <2>1. i # 1 /\ i # 2
    BY <1>3, <1>6
  <2>2. i \in 3 .. Len(u)
    BY <1>3, <1>4, <2>1
  <2> QED
    BY <1>3, <2>2
<1>7. Len(p) < PathMax
  BY <1>1, <1>3, <1>4, LengthAssumption
<1>8. SohuPath(RecoverUrlOf(p)) = p
  BY <1>1, <1>2, <1>5, <1>6, <1>7, SohuPathKept
<1>9. PICK v : v = RecoverUrlOf(p)
  OBVIOUS
<1>10. v = MarkFile(g)
  BY <1>2, <1>3, <1>4, <1>9, LengthAssumption DEF RecoverUrlOf
<1>11. Len(v) = Len(p)
  <2>1. g = [i \in 1 .. Len(u) |-> g[i]]
    BY <1>3 DEF IsText
  <2>2. [g EXCEPT ![4] = "?"] = [i \in 1 .. Len(u) |-> [g EXCEPT ![4] = "?"][i]]
    BY <2>1
  <2>3. v = [i \in 1 .. Len(u) |-> v[i]]
    BY <1>5, <1>10, <2>2
  <2> QED
    BY <1>3, <1>4, <2>3, FunIsText
<1>12. IsFileUrl(v)
  BY <1>8, <1>9 DEF SohuPath
<1>13. v # NoText
  BY <1>3, <1>4, <1>11, LongerThanNoText
<1>14. GenLocalPath(LoadSite(p), v) = p /\ LoadSite(p) # "none"
  BY <1>8, <1>9 DEF GenLocalPath
<1>15. Len(v) \in Nat /\ Len(v) < UrlMax
  BY <1>3, <1>4, <1>11
<1> QED
  BY <1>9, <1>12, <1>13, <1>14, <1>15, LoadedOne

-----------------------------------------------------------------------------
(* A file stored under the path of a content, of any length, is loaded at  *)
(* the next start with that path (sc_ld_file_process).  The exceptions of  *)
(* LoadedKeepsPath are those of the code: marks of both sites, and paths   *)
(* too long for a URL.                                                     *)
THEOREM FilesKeepPaths == Spec => []LoadedKeepsPath
<1>1. NameGrows => LoadedKeepsPath
  <2> SUFFICES ASSUME NameGrows, job.kind = "name", NEW p, p = GenLocalPath(job.site, text),
                      p # NoText, ~(IsYkPath(p) /\ IsSohuPath(p)), LoadSite(p) = job.site, Len(p) < UrlMax
               PROVE  {l.path : l \in LoadedOf(p)} = {p}
    BY DEF LoadedKeepsPath
  <2>1. job.site \in {"youku", "sohu"} /\ text \in Seq(NameChar) /\ StartsAs(job.site, text)
    BY DEF NameGrows
  <2>2. IsText(text)
    BY <2>1, SeqIsText
  <2>3. PICK u : u = text
    OBVIOUS
  <2>4. CASE job.site = "youku"
    BY <2>1, <2>2, <2>3, <2>4, YoukuLoaded
  <2>5. CASE job.site = "sohu"
    BY <2>1, <2>2, <2>3, <2>5, SohuLoaded
  <2> QED
    BY <2>1, <2>4, <2>5
<1> QED
  BY <1>1, NameAlways, PTL

-----------------------------------------------------------------------------
(* A URL without '_' comes back, but for its '?'. *)
Lost(c) == c \in {"_", "?"}

LEMMA LetterComesBack ==
    ASSUME NEW u, IsText(u), NEW i \in 1 .. Len(u), ~Lost(u[i])
    PROVE  Unflatten(Flatten(u))[i] = u[i]
<1>1. PICK p : p = Flatten(u)
  OBVIOUS
<1>2. IsText(p) /\ Len(p) = Len(u) /\ (InHost(p, i) <=> InHost(u, i))
  <2>1. Len(u) \in Nat
    BY DEF IsText
  <2>2. i \in 1 .. Len(u) + 1
    BY <2>1
  <2> QED
    BY <1>1, <2>2, FlattenKeeps
<1>3. i \in 1 .. Len(p)
  BY <1>2
<1>4. CASE u[i] = "."
  <2>1. p[i] = (IF InHost(u, i) THEN "_" ELSE ".")
    BY <1>1, <1>4, LettersKept
  <2> QED
    BY <1>1, <1>2, <1>3, <1>4, <2>1, LettersBack
<1>5. CASE u[i] = "/"
  <2>1. CASE InHost(u, i)
    <3>1. p[i] = "/"
      BY <1>1, <1>5, <2>1, FlattenKeeps
    <3> QED
      BY <1>1, <1>2, <1>3, <1>5, <3>1, LettersBack
  <2>2. CASE ~InHost(u, i)
    <3>1. p[i] = "_"
      BY <1>1, <1>5, <2>2, LettersKept
    <3> QED
      BY <1>1, <1>2, <1>3, <1>5, <2>2, <3>1, LettersBack
  <2> QED
    BY <2>1, <2>2
<1>6. CASE u[i] \notin {".", "/", "?"}
  <2>1. p[i] = u[i]
    BY <1>1, <1>6, LettersKept
  <2>2. p[i] # "_"
    BY <2>1 DEF Lost
  <2> QED
    BY <1>1, <1>2, <1>3, <2>1, <2>2, LettersBack
<1>7. u[i] # "?"
  BY DEF Lost
<1> QED
  BY <1>4, <1>5, <1>6, <1>7

LEMMA SameText ==
    ASSUME NEW s, IsText(s), NEW t, IsText(t), Len(s) = Len(t), \A i \in 1 .. Len(s) : s[i] = t[i]
    PROVE  s = t
<1>1. PICK n \in Nat : n = Len(s) /\ n = Len(t)
  BY DEF IsText
<1>2. s = [i \in 1 .. n |-> s[i]] /\ t = [i \in 1 .. n |-> t[i]]
  BY <1>1 DEF IsText
<1>3. [i \in 1 .. n |-> s[i]] = [i \in 1 .. n |-> t[i]]
  BY <1>1
<1> QED
  BY <1>2, <1>3, Zenon

(* A Youku URL comes back without its parameters. *)
LEMMA YoukuComesBack ==
    ASSUME NEW u, IsText(u), NEW p, p = GenLocalPath("youku", u), p # NoText,
           Recoverable("youku", u)
    PROVE  RecoverUrlOf(p) \in {NoText, WithoutPara(u)}
<1>1. PICK w : w = WithoutPara(u)
  OBVIOUS
<1>2. p = Flatten(w)
  BY <1>1 DEF GenLocalPath, DefaultPath
<1>3. /\ IsText(w) /\ Len(w) <= Len(u)
      /\ \A i \in 1 .. Len(w) : w[i] = u[i] /\ u[i] # "?"
  BY <1>1, WithoutParaText
<1>4. Len(w) \in Nat /\ Len(u) \in Nat
  BY <1>3 DEF IsText
<1>5. ASSUME NEW i \in 1 .. Len(w)
      PROVE  Unflatten(p)[i] = w[i]
  <2>1. i \in 1 .. Len(u)
    BY <1>3, <1>4
  <2>2. DOMAIN u = 1 .. Len(u)
    BY DEF IsText
  <2>3. ~Lost(w[i])
    BY <1>3, <2>1, <2>2 DEF Recoverable, Lost
  <2> QED
    BY <1>2, <1>3, <2>3, LetterComesBack
<1>6. Unflatten(p) = w
  <2>1. IsText(p) /\ Len(p) = Len(w)
    BY <1>2, <1>3, FlattenKeeps
  <2>2. IsText(Unflatten(p)) /\ Len(Unflatten(p)) = Len(w)
    BY <2>1, UnflattenKeeps
  <2> QED
    BY <1>3, <1>5, <2>2, SameText
<1>7. ~Occurs(w, SohuTag)
  <2> SUFFICES ASSUME NEW k \in 1 .. Len(w) + 1, At(w, SohuTag, k)
               PROVE  FALSE
    BY DEF Occurs
  <2>1. Len(SohuTag) = 4
    BY DEF SohuTag
  <2>2. k + 4 - 1 <= Len(w) /\ \A j \in 1 .. 4 : w[k + j - 1] = SohuTag[j]
    BY <2>1 DEF At
  <2>3. \A j \in 1 .. 4 : k + j - 1 \in 1 .. Len(w)
    BY <1>4, <2>2
  <2>4. \A j \in 1 .. 4 : u[k + j - 1] = SohuTag[j]
    BY <1>3, <2>2, <2>3
  <2>5. k + 4 - 1 <= Len(u) /\ k \in 1 .. Len(u) + 1
    BY <1>3, <1>4, <2>2
  <2>6. At(u, SohuTag, k)
    BY <2>1, <2>4, <2>5 DEF At
  <2> QED
    BY <2>5, <2>6 DEF Occurs, Recoverable
<1> QED
  BY <1>1, <1>6, <1>7 DEF RecoverUrlOf, MarkFile

(* A Sohu URL comes back: its one '?' is the one MarkFile restores. *)
LEMMA SohuComesBack ==
    ASSUME NEW u, IsText(u), StartsAs("sohu", u), NEW p, p = GenLocalPath("sohu", u), p # NoText,
           Recoverable("sohu", u)
    PROVE  RecoverUrlOf(p) \in {NoText, u}
<1>1. p = Flatten(u)
  BY DEF GenLocalPath, SohuPath
<1>2. PICK g : g = Unflatten(p)
  OBVIOUS
<1>3. IsText(g) /\ Len(g) = Len(u) /\ 6 <= Len(u)
  BY <1>1, <1>2, SohuStart
<1>4. PICK n \in Nat : n = Len(u) /\ DOMAIN u = 1 .. n
  BY DEF IsText
<1>5. u[4] = "?" /\ 4 \in 1 .. n
  <2>1. 4 \in 1 .. n
    BY <1>3, <1>4
  <2> QED
    BY <2>1 DEF StartsAs
<1>6. \A i \in 1 .. n : u[i] = "?" => i = 4
  <2> DEFINE Q == {i \in DOMAIN u : u[i] = "?"}
  <2>1. IsFiniteSet(1 .. n)
    BY FS_Interval
  <2>2. IsFiniteSet(Q)
    BY <1>4, <2>1, FS_Subset
  <2>3. PICK x : Q = {x}
    BY <2>2, FS_Singleton DEF Recoverable
  <2>4. 4 \in Q /\ \A i \in 1 .. n : u[i] = "?" => i \in Q
    BY <1>4, <1>5
  <2> QED
    BY <2>3, <2>4
<1>7. MarkFile(g) = [g EXCEPT ![4] = "?"]
  BY <1>1, <1>2, SohuMark
<1>8. PICK v : v = MarkFile(g)
  OBVIOUS
<1>9. IsText(v) /\ Len(v) = Len(u)
  <2>1. g = [i \in 1 .. Len(u) |-> g[i]]
    BY <1>3 DEF IsText
  <2>2. [g EXCEPT ![4] = "?"] = [i \in 1 .. Len(u) |-> [g EXCEPT ![4] = "?"][i]]
    BY <2>1
  <2>3. v = [i \in 1 .. Len(u) |-> v[i]]
    BY <1>7, <1>8, <2>2
  <2> QED
    BY <1>4, <2>3, FunIsText
<1>10. ASSUME NEW i \in 1 .. Len(u)
       PROVE  v[i] = u[i]
  <2>0. g = [j \in 1 .. Len(u) |-> g[j]]
    BY <1>3 DEF IsText
  <2>1. CASE i = 4
    BY <1>5, <1>7, <1>8, <2>0, <2>1
  <2>2. CASE i # 4
    <3>1. v[i] = g[i]
      BY <1>7, <1>8, <2>0, <2>2
    <3>2. ~Lost(u[i])
      BY <1>4, <1>6, <2>2 DEF Recoverable, Lost
    <3> QED
      BY <1>1, <1>2, <3>1, <3>2, LetterComesBack
  <2> QED
    BY <2>1, <2>2
<1>11. v = u
  BY <1>9, <1>10, SameText
<1> QED
  BY <1>2, <1>8, <1>11 DEF RecoverUrlOf

(* The URL recovered from a path is the one the path was made of, for URLs *)
(* of any length without the letters a path loses                          *)
(* (sc_res_recover_url_from_local_path).                                   *)
THEOREM UrlsComeBack == Spec => []RecoveredUrl
<1>1. NameGrows => RecoveredUrl
  <2> SUFFICES ASSUME NameGrows, job.kind = "name", NEW p, p = GenLocalPath(job.site, text),
                      p # NoText, Recoverable(job.site, text)
               PROVE  RecoverUrlOf(p) \in {NoText, IF job.site = "youku" THEN WithoutPara(text) ELSE text}
    BY DEF RecoveredUrl
  <2>1. job.site \in {"youku", "sohu"} /\ text \in Seq(NameChar) /\ StartsAs(job.site, text)
    BY DEF NameGrows
  <2>2. IsText(text)
    BY <2>1, SeqIsText
  <2>3. PICK u : u = text
    OBVIOUS
  <2>4. CASE job.site = "youku"
    BY <2>1, <2>2, <2>3, <2>4, YoukuComesBack
  <2>5. CASE job.site = "sohu"
    BY <2>1, <2>2, <2>3, <2>5, SohuComesBack
  <2> QED
    BY <2>1, <2>4, <2>5
<1> QED
  BY <1>1, NameAlways, PTL

-----------------------------------------------------------------------------
LEMMA LastSlash ==
    ASSUME NEW u, NEW n \in Nat, NEW i \in 1 .. n, u[i] = "/"
    PROVE  \E k \in 1 .. n : u[k] = "/" /\ \A j \in 1 .. n : u[j] = "/" => j <= k
<1> DEFINE at == {j \in 1 .. n : u[j] = "/"}
           T == {n - j : j \in at}
<1>1. T \in SUBSET Nat /\ n - i \in T
  OBVIOUS
<1>2. PICK d \in T : \A e \in T : d <= e
  BY <1>1, LeastNat
<1>3. PICK k \in at : d = n - k
  BY <1>2
<1>4. ASSUME NEW j \in at
      PROVE  j <= k
  <2>1. n - j \in T /\ j \in Int /\ k \in Int
    OBVIOUS
  <2>2. n - k <= n - j
    BY <1>2, <1>3, <2>1
  <2> QED
    BY <2>1, <2>2
<1> QED
  BY <1>3, <1>4

(* MarkFile changes nothing but a '/'. *)
LEMMA MarkFileKeeps ==
    ASSUME NEW g, IsText(g)
    PROVE  /\ IsText(MarkFile(g)) /\ Len(MarkFile(g)) = Len(g)
           /\ \A i \in 1 .. Len(g) : g[i] # "/" => MarkFile(g)[i] = g[i]
<1>1. CASE ~Occurs(g, SohuTag)
  <2>1. MarkFile(g) = g
    BY <1>1 DEF MarkFile
  <2> QED
    BY <2>1
<1>2. CASE Occurs(g, SohuTag)
  <2>1. PICK k \in 1 .. Len(g) - 3 : At(g, SohuTag, k) /\ MarkFile(g) = [g EXCEPT ![k + 1] = "?"]
    BY <1>2, MarkFileAt
  <2>2. PICK m : m = MarkFile(g)
    OBVIOUS
  <2>3. PICK n \in Nat : n = Len(g) /\ g = [i \in 1 .. n |-> g[i]]
    BY DEF IsText
  <2>4. g[k + 1] = "/"
    <3>1. Len(SohuTag) = 4 /\ SohuTag[2] = "/"
      BY DEF SohuTag
    <3>2. g[k + 2 - 1] = "/"
      BY <2>1, <3>1 DEF At
    <3>3. k + 2 - 1 = k + 1
      OBVIOUS
    <3> QED
      BY <3>2, <3>3
  <2>5. m = [i \in 1 .. n |-> m[i]] /\ \A i \in 1 .. n : i # k + 1 => m[i] = g[i]
    BY <2>1, <2>2, <2>3
  <2>6. IsText(m) /\ Len(m) = n
    BY <2>5, FunIsText
  <2> QED
    BY <2>2, <2>3, <2>4, <2>5, <2>6
<1> QED
  BY <1>1, <1>2

(* The vid of a URL: what follows its last '/'. *)
PlainVid(u) == \A v \in After(u, "/") : \A i \in DOMAIN v : ~Lost(v[i])

(* A vid that loses no letter is in the URL recovered. *)
LEMMA VidComesBack ==
    ASSUME NEW u, IsText(u), NEW n \in Nat, n = Len(u), NEW s \in 1 .. n, u[s] = "/", PlainVid(u)
    PROVE  HasVidText(MarkFile(Unflatten(Flatten(u))), u)
<1>1. PICK k \in 1 .. n : u[k] = "/" /\ \A j \in 1 .. n : u[j] = "/" => j <= k
  BY LastSlash
<1>2. PICK vid : vid = SubSeq(u, k + 1, n)
  OBVIOUS
<1>3. vid \in After(u, "/")
  BY <1>1, <1>2 DEF After
<1>4. vid = [j \in 1 .. n - k |-> u[k + j]]
  <2>1. u = [j \in 1 .. n |-> u[j]]
    BY DEF IsText
  <2> QED
    BY <1>2, <2>1
<1>5. Len(vid) = n - k /\ DOMAIN vid = 1 .. n - k
  <2>1. n - k \in Nat
    OBVIOUS
  <2>2. vid = [j \in 1 .. n - k |-> vid[j]]
    BY <1>4
  <2>3. Len(vid) = n - k
    BY <2>1, <2>2, FunIsText
  <2> QED
    BY <1>4, <2>3
<1>6. PICK g : g = Unflatten(Flatten(u))
  OBVIOUS
<1>7. PICK m : m = MarkFile(g)
  OBVIOUS
<1>8. IsText(g) /\ Len(g) = n
  <2>1. IsText(Flatten(u)) /\ Len(Flatten(u)) = n
    BY FlattenKeeps
  <2> QED
    BY <1>6, <2>1, UnflattenKeeps
<1>9. Len(m) = n
  BY <1>7, <1>8, MarkFileKeeps
<1>10. ASSUME NEW j \in 1 .. n - k
       PROVE  m[k + j] = vid[j]
  <2>1. k + j \in 1 .. n /\ k + j > k
    OBVIOUS
  <2>2. vid[j] = u[k + j]
    BY <1>4
  <2>3. ~Lost(u[k + j])
    BY <1>3, <1>5, <2>2 DEF PlainVid
  <2>4. u[k + j] # "/"
    BY <1>1, <2>1
  <2>5. g[k + j] = u[k + j]
    BY <1>6, <2>1, <2>3, LetterComesBack
  <2>6. m[k + j] = g[k + j]
    BY <1>7, <1>8, <2>1, <2>4, <2>5, MarkFileKeeps
  <2> QED
    BY <2>2, <2>5, <2>6
<1>11. At(m, vid, k + 1)
  <2>1. ASSUME NEW j \in 1 .. n - k
        PROVE  m[k + 1 + j - 1] = vid[j]
    <3>1. k + 1 + j - 1 = k + j
      OBVIOUS
    <3> QED
      BY <1>10, <3>1
  <2>2. k + 1 + (n - k) - 1 <= n
    OBVIOUS
  <2> QED
    BY <1>5, <1>9, <2>1, <2>2 DEF At
<1>12. k + 1 \in 1 .. n + 1
  OBVIOUS
<1>13. Occurs(m, vid)
  BY <1>9, <1>11, <1>12 DEF Occurs
<1> QED
  BY <1>3, <1>6, <1>7, <1>13 DEF HasVidText

(* A file of any name is found again by its vid after a restart            *)
(* (sc_res_info_handle_cached), unless the vid has letters a path loses.   *)
THEOREM FilesFoundAgain == Spec => []FoundAgain
<1>1. NameGrows => FoundAgain
  <2> SUFFICES ASSUME NameGrows, job.kind = "name", NEW p, p = GenLocalPath(job.site, text), p # NoText,
                      job.site = "youku" => text = WithoutPara(text), PlainVid(text),
                      NEW l \in LoadedOf(p)
               PROVE  HasVidText(l.url, text)
    BY DEF FoundAgain, PlainVid, Lost
  <2>1. job.site \in {"youku", "sohu"} /\ text \in Seq(NameChar) /\ StartsAs(job.site, text)
    BY DEF NameGrows
  <2>2. IsText(text)
    BY <2>1, SeqIsText
  <2>3. p = Flatten(text)
    BY <2>1 DEF GenLocalPath, DefaultPath, SohuPath
  <2>4. PICK u : u = text
    OBVIOUS
  <2>5. PICK n \in Nat : n = Len(u)
    BY <2>2, <2>4 DEF IsText
  <2>6. \E s \in 1 .. n : u[s] = "/"
    <3>1. CASE job.site = "youku"
      <4>1. 4 <= n /\ u[4] = "/"
        BY <2>1, <2>4, <2>5, <3>1 DEF StartsAs
      <4> QED
        BY <4>1
    <3>2. CASE job.site = "sohu"
      <4>1. 6 <= n /\ u[2] = "/"
        BY <2>1, <2>4, <2>5, <3>2 DEF StartsAs
      <4> QED
        BY <4>1
    <3> QED
      BY <2>1, <3>1, <3>2
  <2>7. HasVidText(MarkFile(Unflatten(Flatten(u))), u)
    BY <2>2, <2>4, <2>5, <2>6, VidComesBack
  <2>8. l.url = RecoverUrlOf(p) /\ RecoverUrlOf(p) # NoText
    BY DEF LoadedOf
  <2>9. l.url = MarkFile(Unflatten(p))
    BY <2>8 DEF RecoverUrlOf
  <2> QED
    BY <2>3, <2>4, <2>7, <2>9
<1> QED
  BY <1>1, NameAlways, PTL

-----------------------------------------------------------------------------
(* The keyframes of a file, in the order of their times; those after the   *)
(* first are not at its beginning.                                         *)
InOrder(kf, n) ==
    /\ kf \in [1 .. n -> [time : Nat, pos : Nat]]
    /\ \A i, j \in 1 .. n : i < j => kf[i].time <= kf[j].time
    /\ n >= 2 /\ kf[2].pos > 0

(* The times as they are compared, cut to whole seconds, and as they are. *)
LEMMA CutOff ==
    ASSUME NEW t \in Nat, NEW s \in Nat
    PROVE  s < WholeSeconds(t) <=> ~BegunBy(t, s)
  BY SMT DEF WholeSeconds, BegunBy

LEMMA EarlierBegun ==
    ASSUME NEW t \in Nat, NEW v \in Nat, v <= t, NEW s \in Nat, BegunBy(t, s)
    PROVE  BegunBy(v, s)
  BY SMT DEF BegunBy

(* The loop over the times stops at the right keyframe. *)
LEMMA KeyframeRight ==
    ASSUME NEW n \in Nat, NEW kf, InOrder(kf, n), NEW start \in Nat
    PROVE  \E i \in 1 .. n :
              /\ StartKeyframe(kf, start) = i
              /\ i = 1 \/ BegunBy(kf[i].time, start)
              /\ \A j \in 1 .. n : BegunBy(kf[j].time, start) => j <= i
<1>0. /\ kf \in [1 .. n -> [time : Nat, pos : Nat]] /\ n >= 2
      /\ \A i, j \in 1 .. n : i < j => kf[i].time <= kf[j].time
  BY DEF InOrder
<1>1. Len(kf) = n /\ DOMAIN kf = 1 .. n
  <2>1. kf = [i \in 1 .. n |-> kf[i]]
    BY <1>0
  <2> QED
    BY <1>0, <2>1, FunIsText
<1>2. \A i \in 1 .. n : start < WholeSeconds(kf[i].time) <=> ~BegunBy(kf[i].time, start)
  BY <1>0, CutOff
<1> DEFINE past == {i \in 1 .. n : start < WholeSeconds(kf[i].time)}
<1>3. CASE past = {}
  <2>1. StartKeyframe(kf, start) = IF n + 1 = 1 THEN 1 ELSE n + 1 - 1
    BY <1>1, <1>3 DEF StartKeyframe
  <2>2. StartKeyframe(kf, start) = n
    BY <2>1, <1>0
  <2>3. n \in 1 .. n /\ \A j \in 1 .. n : j <= n
    BY <1>0
  <2>4. ~(start < WholeSeconds(kf[n].time))
    BY <1>3, <2>3
  <2>5. BegunBy(kf[n].time, start)
    BY <1>2, <2>3, <2>4
  <2> QED
    BY <2>2, <2>3, <2>5
<1>4. CASE past # {}
  <2>1. PICK stop : stop = CHOOSE i \in past : \A j \in past : i <= j
    OBVIOUS
  <2>2. stop \in past /\ \A j \in past : stop <= j
    <3>1. past \in SUBSET Nat
      OBVIOUS
    <3>2. \E i \in past : \A j \in past : i <= j
      BY <1>4, <3>1, LeastNat
    <3> HIDE DEF past
    <3> QED
      BY <2>1, <3>2
  <2>3. StartKeyframe(kf, start) = IF stop = 1 THEN 1 ELSE stop - 1
    BY <1>1, <1>4, <2>1 DEF StartKeyframe
  <2>4. stop \in 1 .. n /\ start < WholeSeconds(kf[stop].time)
    BY <2>2
  <2>5. ASSUME NEW j \in 1 .. n, BegunBy(kf[j].time, start)
        PROVE  j < stop
    <3>1. j # stop
      BY <1>2, <2>4, <2>5
    <3>2. stop < j => kf[stop].time <= kf[j].time /\ kf[stop].time \in Nat /\ kf[j].time \in Nat
      BY <1>0, <2>4
    <3>3. stop < j => BegunBy(kf[stop].time, start)
      BY <2>5, <3>2, EarlierBegun
    <3>4. ~(stop < j)
      BY <1>2, <2>4, <3>3
    <3> QED
      BY <2>4, <3>1, <3>4
  <2>6. CASE stop = 1
    <3>1. \A j \in 1 .. n : BegunBy(kf[j].time, start) => j <= 1
      BY <2>5, <2>6
    <3>2. StartKeyframe(kf, start) = 1 /\ 1 \in 1 .. n
      BY <1>0, <2>3, <2>6
    <3> QED
      BY <3>1, <3>2
  <2>7. CASE stop # 1
    <3>1. StartKeyframe(kf, start) = stop - 1 /\ stop - 1 \in 1 .. n
      BY <2>3, <2>4, <2>7
    <3>2. stop - 1 \notin past
      BY <2>2, <2>4
    <3>3. BegunBy(kf[stop - 1].time, start)
      BY <1>2, <3>1, <3>2
    <3>4. \A j \in 1 .. n : BegunBy(kf[j].time, start) => j <= stop - 1
      BY <2>4, <2>5
    <3> QED
      BY <3>1, <3>3, <3>4
  <2> QED
    BY <2>6, <2>7
<1> QED
  BY <1>3, <1>4

(* ngx_http_flv_handler: for a file of any size with any keyframes in      *)
(* order, or with none, and any argument, the Content-Length is the number *)
(* of bytes sent, and the seek ends at the keyframe it should.             *)
THEOREM FlvAnswersRight ==
    ASSUME NEW size \in Nat, NEW kf, NEW n \in Nat, InOrder(kf, n) \/ kf = <<>>, NEW arg \in Nat
    PROVE  AnswerRight(size, kf, arg)
<1> DEFINE start == IF arg >= size THEN 0 ELSE arg
<1>1. start \in Nat /\ (start # 0 => start = arg)
  OBVIOUS
<1>2. PICK a : a = FlvAnswer(size, kf, arg)
  OBVIOUS
<1>3. CASE start = 0
  <2>1. a = [length |-> size, body |-> <<FileChunk(0, size)>>]
    BY <1>2, <1>3 DEF FlvAnswer
  <2>2. a.length = size /\ Len(a.body) = 1 /\ a.body[1] = FileChunk(0, size)
    BY <2>1
  <2>3. a.body[1].to - a.body[1].from = size
    BY <2>2 DEF FileChunk
  <2> QED
    BY <1>2, <2>2, <2>3 DEF AnswerRight
<1>4. CASE start # 0 /\ kf = <<>>
  <2>1. TimeToOffset(kf, start) = {}
    BY <1>4 DEF TimeToOffset
  <2>2. a = [length |-> FlvHeaderLen + size - start, body |-> <<HeaderChunk, FileChunk(start, size)>>]
    BY <1>2, <1>4, <2>1 DEF FlvAnswer
  <2>3. /\ a.length = FlvHeaderLen + size - start /\ Len(a.body) = 2
        /\ a.body[1] = HeaderChunk /\ a.body[2] = FileChunk(start, size)
    BY <2>2
  <2>4. a.body[1].to - a.body[1].from = FlvHeaderLen - 0 /\ a.body[2].to - a.body[2].from = size - start
    BY <2>3 DEF FileChunk, HeaderChunk
  <2>5. FlvHeaderLen + size - start = (FlvHeaderLen - 0) + (size - start)
    BY <1>1, FlvHeaderAssumption
  <2> QED
    BY <1>2, <1>4, <2>3, <2>4, <2>5 DEF AnswerRight
<1>5. CASE start # 0 /\ kf # <<>>
  <2>1. InOrder(kf, n) /\ start = arg
    BY <1>1, <1>5
  <2>2. PICK i \in 1 .. n :
           /\ StartKeyframe(kf, start) = i
           /\ i = 1 \/ BegunBy(kf[i].time, start)
           /\ \A j \in 1 .. n : BegunBy(kf[j].time, start) => j <= i
    BY <1>1, <2>1, KeyframeRight
  <2>3. /\ kf \in [1 .. n -> [time : Nat, pos : Nat]] /\ DOMAIN kf = 1 .. n
        /\ n >= 2 /\ kf[2].pos > 0
    BY <2>1 DEF InOrder
  <2>4. PICK o \in Nat, e \in Nat : o = kf[i].pos /\ e = kf[2].pos /\ e # 0
    <3>1. 2 \in 1 .. n
      BY <2>3
    <3>2. kf[i].pos \in Nat /\ kf[2].pos \in Nat
      BY <2>3, <3>1
    <3> QED
      BY <2>3, <3>2
  <2>5. TimeToOffset(kf, start) = {[offset |-> o, kf2 |-> e]}
    BY <1>5, <2>2, <2>4 DEF TimeToOffset
  <2>6. PICK t : t = [offset |-> o, kf2 |-> e]
    OBVIOUS
  <2>7. t.offset = o /\ t.kf2 = e
    BY <2>6
  <2>8. (CHOOSE r \in TimeToOffset(kf, start) : TRUE) = t /\ TimeToOffset(kf, start) # {}
    <3>1. TimeToOffset(kf, start) = {t}
      BY <2>5, <2>6
    <3> QED
      BY <3>1
  <2>9. a = [length |-> size - t.offset + t.kf2,
             body |-> <<IF t.kf2 = 0 THEN HeaderChunk ELSE FileChunk(0, t.kf2), FileChunk(t.offset, size)>>]
    BY <1>2, <1>5, <2>8, Zenon DEF FlvAnswer
  <2>10. a = [length |-> size - o + e, body |-> <<FileChunk(0, e), FileChunk(o, size)>>]
    BY <2>4, <2>7, <2>9
  <2>11. /\ a.length = size - o + e /\ Len(a.body) = 2
         /\ a.body[1] = FileChunk(0, e) /\ a.body[2] = FileChunk(o, size)
    BY <2>10
  <2>12. /\ a.body[1].to - a.body[1].from = e - 0 /\ a.body[2].to - a.body[2].from = size - o
         /\ a.body[2].from = o
    BY <2>11 DEF FileChunk
  <2>13. size - o + e = (e - 0) + (size - o)
    OBVIOUS
  <2>14. \E k \in DOMAIN kf :
            /\ kf[k].pos = a.body[2].from
            /\ k = 1 \/ BegunBy(kf[k].time, arg)
            /\ \A j \in DOMAIN kf : BegunBy(kf[j].time, arg) => j <= k
    BY <2>1, <2>2, <2>3, <2>4, <2>12
  <2> QED
    BY <1>2, <2>11, <2>12, <2>13, <2>14 DEF AnswerRight
<1> QED
  BY <1>3, <1>4, <1>5

(* The answers of the FLV module that the run looks at are among those. *)
THEOREM FlvAlwaysServed == Spec => []FlvServed
<1> DEFINE FlvJob == job.kind = "flv" => job.kf \in Keyframes /\ job.arg \in Nat
<1>1. Init => FlvJob
  BY DEF Init
<1>2. FlvJob /\ [Next]_vars => FlvJob'
  BY DEF Next, GrowName, GrowLine, GrowPage, vars
<1>3. ASSUME NEW kf \in Keyframes
      PROVE  \E n \in Nat : InOrder(kf, n) \/ kf = <<>>
  <2>1. CASE kf = <<>>
    BY <2>1
  <2>2. CASE kf # <<>>
    <3>1. PICK n \in 2 .. 3 : /\ kf \in [1 .. n -> [time : FlvTime, pos : 1 .. 5]]
                              /\ \A i, j \in DOMAIN kf :
                                    i < j => kf[i].time <= kf[j].time /\ kf[i].pos < kf[j].pos
      BY <2>2 DEF Keyframes
    <3>2. \A i \in 1 .. n : kf[i] \in [time : Nat, pos : Nat] /\ kf[i].pos > 0
      BY <3>1, SMT DEF FlvTime
    <3>3. 2 \in 1 .. n /\ n >= 2 /\ n \in Nat
      BY <3>1
    <3>4. kf \in [1 .. n -> [time : Nat, pos : Nat]] /\ DOMAIN kf = 1 .. n
      BY <3>1, <3>2
    <3> QED
      BY <3>1, <3>2, <3>3, <3>4 DEF InOrder
  <2> QED
    BY <2>1, <2>2
<1>4. FlvJob => FlvServed
  <2> SUFFICES ASSUME FlvJob, job.kind = "flv"
               PROVE  AnswerRight(FlvSize, job.kf, job.arg)
    BY DEF FlvServed
  <2>1. PICK kf \in Keyframes, arg \in Nat : kf = job.kf /\ arg = job.arg
    OBVIOUS
  <2>2. PICK n \in Nat : InOrder(kf, n) \/ kf = <<>>
    BY <1>3
  <2>3. FlvSize \in Nat
    BY DEF FlvSize
  <2>4. AnswerRight(FlvSize, kf, arg)
    BY <2>2, <2>3, FlvAnswersRight
  <2> QED
    BY <2>1, <2>4
<1> QED
  BY <1>1, <1>2, <1>4, PTL DEF Spec

-----------------------------------------------------------------------------
(* The status the client takes from an answer is the one its status line   *)
(* has: http_parse_status_line reads every answer of any length right.     *)
THEOREM StatusAlwaysRead == Spec => []StatusLineRead
<1> DEFINE LineText == job.kind = "line" => text \in Seq(LineChar)
<1>1. Init => LineText
  <2> SUFFICES ASSUME Init, job.kind = "line"
               PROVE  text \in Seq(LineChar)
    OBVIOUS
  <2>1. text = <<>>
    BY DEF Init
  <2> QED
    BY <2>1
<1>2. LineText /\ [Next]_vars => LineText'
  <2> SUFFICES ASSUME LineText, [Next]_vars, job'.kind = "line"
               PROVE  text' \in Seq(LineChar)
    OBVIOUS
  <2>1. CASE GrowLine
    <3>1. PICK c \in LineChar : text' = Append(text, c)
      BY <2>1 DEF GrowLine
    <3>2. PICK s \in Seq(LineChar) : s = text
      BY <2>1 DEF GrowLine
    <3>3. Append(s, c) \in Seq(LineChar)
      OBVIOUS
    <3> QED
      BY <3>1, <3>2, <3>3
  <2>2. CASE GrowName \/ GrowPage
    BY <2>2 DEF GrowName, GrowPage
  <2>3. CASE UNCHANGED vars
    BY <2>3 DEF vars
  <2> QED
    BY <2>1, <2>2, <2>3 DEF Next
<1>3. LineText => StatusLineRead
  <2> SUFFICES ASSUME LineText, job.kind = "line"
               PROVE  ParseStatusLine(text) = StatusOf(text)
    BY DEF StatusLineRead
  <2>1. PICK s \in Seq(LineChar) : s = text
    OBVIOUS
  <2>2. Len(s) \in Nat
    OBVIOUS
  <2>3. ParseStatusLine(s) = StatusOf(s)
    BY <2>2, StatusLineParsed, SMTT(30)
  <2> QED
    BY <2>1, <2>3
<1> QED
  BY <1>1, <1>2, <1>3, PTL DEF Spec

-----------------------------------------------------------------------------
(* The tables of the file ids, as the theorems about any tables need them. *)
LettersCount == 68
IdsCount == 66

LEMMA LettersTable == Len(Letters) = LettersCount /\ Letters \in Seq(Range(Letters)) /\ Distinct(Letters)
<1>1. Len(Letters) = 68
  BY SMT DEF Letters
<1>2. Letters = [i \in 1 .. 68 |-> Letters[i]]
  BY SMT DEF Letters
<1>3. Letters \in Seq(Range(Letters))
  BY <1>1, <1>2, SMT DEF Range
<1>4. \A i, j \in 1 .. 68 : Letters[i] = Letters[j] => i = j
  BY SMTT(60) DEF Letters
<1> QED
  BY <1>1, <1>3, <1>4, SMT DEF Distinct, LettersCount

LEMMA HexTable == Apart(HexDigit, 16)
  BY SMT DEF Apart, HexDigit

LEMMA IdsTable == ExampleIds \in Fields(IdsCount, LettersCount)
<1>1. ExampleIds = [i \in 1 .. 66 |-> ExampleIds[i]]
  BY SMT DEF ExampleIds
<1>2. \A i \in 1 .. 66 : ExampleIds[i] \in 0 .. 67
  BY SMT DEF ExampleIds
<1>3. ExampleIds \in [1 .. 66 -> 0 .. 67]
  BY <1>1, <1>2, SMT
<1> QED
  BY <1>3, SMT DEF Fields, IdsCount, LettersCount

(* The shuffle of the run's tables keeps every letter, and its file ids    *)
(* tell the segments apart, for every seed the run could try.              *)
THEOREM FileIdsAlwaysDiffer == Spec => []FileIdsDiffer
<1> DEFINE No == {0, 1, 9, 10, 15, 16, 62}
           Job == job.kind = "fileid" => job.seed \in Nat /\ job.no \in No
<1>1. Init => Job
  <2> SUFFICES ASSUME Init, job.kind = "fileid"
               PROVE  job.seed \in Nat /\ job.no \in No
    OBVIOUS
  <2>1. job \in [kind : {"fileid"}, seed : Seeds, no : {0, 9, 15, 16, 62}]
    BY SMT DEF Init
  <2>2. job.seed \in Seeds /\ job.no \in {0, 9, 15, 16, 62}
    BY <2>1, SMT
  <2>3. job.seed \in Nat
    BY <2>2, SeedsAssumption
  <2>4. job.no \in No
    BY <2>2, SMT
  <2> QED
    BY <2>3, <2>4
<1>2. Job /\ [Next]_vars => Job'
  <2>1. [Next]_vars => job' = job
    BY DEF Next, GrowName, GrowLine, GrowPage, vars
  <2> HIDE DEF No
  <2> QED
    BY <2>1
<1>3. Job => FileIdsDiffer
  <2> SUFFICES ASSUME job.seed \in Nat, job.no \in No
               PROVE  /\ IsInjective(Shuffle(Letters, job.seed))
                      /\ Range(Shuffle(Letters, job.seed)) = Range(Letters)
                      /\ \A n \in {0, 1, 10, 16, 62} \ {job.no} :
                            FileId(Letters, HexDigit, ExampleIds, n, job.seed)
                              # FileId(Letters, HexDigit, ExampleIds, job.no, job.seed)
    BY DEF FileIdsDiffer
  <2>1. PICK seed \in Nat : seed = job.seed
    OBVIOUS
  <2>2. PICK no \in No : no = job.no
    OBVIOUS
  <2>3. PICK C : C = Range(Letters)
    OBVIOUS
  <2>4. Letters \in Seq(C) /\ Letters # <<>> /\ Distinct(Letters)
    <3>1. LettersCount # 0
      BY SMT DEF LettersCount
    <3> QED
      BY <2>3, <3>1, LettersTable
  <2>5. PICK m : m = Shuffle(Letters, seed)
    OBVIOUS
  <2>6. Mixes(m, Letters)
    BY <2>4, <2>5, LettersMixed
  <2>7. IsInjective(m)
    BY <2>6 DEF Mixes, IsInjective, Apart
  <2>8. Range(m) = Range(Letters)
    <3>1. DOMAIN Letters = 1 .. Len(Letters)
      BY <2>4
    <3> QED
      BY <2>6, <3>1, Zenon DEF Mixes, Range, Vals
  <2>9. ASSUME NEW n \in No, n # no,
               FileId(Letters, HexDigit, ExampleIds, n, seed) = FileId(Letters, HexDigit, ExampleIds, no, seed)
        PROVE  FALSE
    <3>1. n \in Byte /\ no \in Byte
      BY SMT DEF Byte
    <3>2. PICK k \in Nat : k = IdsCount /\ k >= 10
      BY SMT DEF IdsCount
    <3>3. ExampleIds \in Fields(k, Len(Letters))
      BY <3>2, LettersTable, IdsTable
    <3> HIDE DEF No
    <3> QED
      BY <2>4, <2>9, <3>1, <3>2, <3>3, HexTable, FileIdsApart
  <2>10. ASSUME NEW n \in {0, 1, 10, 16, 62} \ {job.no}
         PROVE  FileId(Letters, HexDigit, ExampleIds, n, job.seed)
                  # FileId(Letters, HexDigit, ExampleIds, job.no, job.seed)
    <3>1. n \in No /\ n # no
      BY <2>2, SMT
    <3> HIDE DEF No
    <3> QED
      BY <2>1, <2>2, <2>9, <3>1
  <2> QED
    BY <2>1, <2>5, <2>7, <2>8, <2>10, Zenon
<1> QED
  BY <1>1, <1>2, <1>3, PTL DEF Spec

-----------------------------------------------------------------------------
(* Of every part of an m3u8 list of any length the first file is asked     *)
(* for, in the order of the list (sohu_parse_m3u8_response and its loop).  *)
THEOREM M3u8AlwaysAsked == Spec => []M3u8FilesAsked
<1> DEFINE PageText == job.kind = "page" => text \in Seq(PageToken)
<1>1. Init => PageText
  <2> SUFFICES ASSUME Init, job.kind = "page"
               PROVE  text \in Seq(PageToken)
    OBVIOUS
  <2>1. text = <<>>
    BY DEF Init
  <2> QED
    BY <2>1
<1>2. PageText /\ [Next]_vars => PageText'
  <2> SUFFICES ASSUME PageText, [Next]_vars, job'.kind = "page"
               PROVE  text' \in Seq(PageToken)
    OBVIOUS
  <2>1. CASE GrowPage
    <3>1. PICK t \in PageToken : text' = Append(text, t)
      BY <2>1 DEF GrowPage
    <3>2. PICK s \in Seq(PageToken) : s = text
      BY <2>1 DEF GrowPage
    <3>3. Append(s, t) \in Seq(PageToken)
      OBVIOUS
    <3> QED
      BY <3>1, <3>2, <3>3
  <2>2. CASE GrowName \/ GrowLine
    BY <2>2 DEF GrowName, GrowLine
  <2>3. CASE UNCHANGED vars
    BY <2>3 DEF vars
  <2> QED
    BY <2>1, <2>2, <2>3 DEF Next
<1>3. PageText => M3u8FilesAsked
  <2> SUFFICES ASSUME PageText, job.kind = "page", \A b \in PartStart(text) : PartUrl(text, b) # {}
               PROVE  M3u8Right(text)
    BY DEF M3u8FilesAsked
  <2>1. PICK s \in Seq(PageToken) : s = text
    OBVIOUS
  <2>2. \A b \in PartStart(s) : PartUrl(s, b) # {}
    BY <2>1, Zenon
  <2>3. M3u8Right(s)
    BY <2>2, M3u8PartsAsked
  <2> QED
    BY <2>1, <2>3
<1> QED
  BY <1>1, <1>2, <1>3, PTL DEF Spec

-----------------------------------------------------------------------------
(* The playlists of the run are among those of PlaylistParsed. *)
LEMMA PlaylistShape ==
    ASSUME NEW pl \in Playlist
    PROVE  PlaylistRight(pl)
<1> DEFINE T == StreamType \cup {"3gp"}
           Nos == {[i \in 1 .. n |-> i - 1] : n \in 0 .. StreamSegsMax + 1}
           G == [type : {"mp4", "flv", "hd2"}, nos : Nos]
<1>1. PICK ids \in {s \in SeqsUpTo(StreamType \cup {"3gp"}, 3) : IsInjective(s)} : ids = pl.ids
  BY DEF Playlist
<1>2. PICK segs \in {s \in SeqsUpTo(G, 2) : \A i, j \in DOMAIN s : s[i].type = s[j].type => i = j} : segs = pl.segs
  BY Zenon DEF Playlist
<1>3. PICK n \in 0 .. 3 : ids \in [1 .. n -> StreamType \cup {"3gp"}]
  BY <1>1 DEF SeqsUpTo
<1>4. PICK m \in 0 .. 2 : segs \in [1 .. m -> G]
  <2> HIDE DEF G
  <2> QED
    BY <1>2 DEF SeqsUpTo
<1>5. n \in Nat /\ m \in Nat /\ n <= StreamTypeTotal
  BY StreamAssumption
<1>6. pl.ids \in [1 .. n -> T]
  BY <1>1, <1>3
<1>7. Apart(pl.ids, n)
  BY <1>1, <1>3 DEF Apart, IsInjective
<1>8. ASSUME NEW g \in G
      PROVE  g \in Group(T, Int)
  <2>1. PICK k \in 0 .. StreamSegsMax + 1 : g.nos = [i \in 1 .. k |-> i - 1]
    OBVIOUS
  <2>2. k \in Nat
    BY StreamAssumption
  <2>3. g.nos \in Seq(Int)
    BY <2>1, <2>2
  <2> QED
    BY <2>3 DEF Group, StreamType
<1> HIDE DEF T, G
<1>9. pl.segs \in [1 .. m -> Group(T, Int)] /\ m = Len(pl.segs)
  BY <1>2, <1>4, <1>5, <1>8
<1>10. OneGroup(pl.segs, m)
  BY <1>2, <1>4 DEF OneGroup
<1> QED
  BY <1>5, <1>6, <1>7, <1>9, <1>10, PlaylistParsed

(* Every playlist of the run is downloaded as it should be.                *)
THEOREM PlaylistAlwaysRead == Spec => []PlaylistRead
<1> DEFINE Job == job.kind = "playlist" => job.pl \in Playlist
<1>1. Init => Job
  BY DEF Init
<1>2. Job /\ [Next]_vars => Job'
  BY DEF Next, GrowName, GrowLine, GrowPage, vars
<1>3. Job => PlaylistRead
  <2> SUFFICES ASSUME job.pl \in Playlist
               PROVE  PlaylistRight(job.pl)
    BY DEF PlaylistRead
  <2>1. PICK pl \in Playlist : pl = job.pl
    OBVIOUS
  <2>2. PlaylistRight(pl)
    BY PlaylistShape
  <2> QED
    BY <2>1, <2>2
<1> QED
  BY <1>1, <1>2, <1>3, PTL DEF Spec
=============================================================================
