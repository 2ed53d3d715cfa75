--------------------------- MODULE UrlTextProofs ---------------------------
(***************************************************************************)
(* The names of stored files, for URLs of any length: recovering a URL     *)
(* from a path and making a path of it again gives the same path.  The     *)
(* argument is about the first '/': both conversions leave it where it is, *)
(* so that they agree on where the host ends.                              *)
(***************************************************************************)
EXTENDS UrlText, ListProofs

(* A text of any characters, and what a function on 1 .. n is. *)
IsText(t) == Len(t) \in Nat /\ t = [i \in 1 .. Len(t) |-> t[i]]

LEMMA FunIsText ==
    ASSUME NEW n \in Nat, NEW t, t = [i \in 1 .. n |-> t[i]]
    PROVE  IsText(t) /\ Len(t) = n
<1>1. Len(t) = n
  BY SMT
<1> QED
  BY <1>1 DEF IsText

(* Where a '/' precedes a position, a first one does. *)
LEMMA FirstSlash ==
    ASSUME NEW s, IsText(s), NEW i \in 1 .. Len(s) + 1, ~InHost(s, i)
    PROVE  \E k \in 1 .. i - 1 : s[k] = "/" /\ InHost(s, k)
<1> DEFINE T == {j \in 1 .. i - 1 : s[j] = "/"}
<1>1. T \in SUBSET Nat /\ T # {}
  BY DEF InHost
<1>2. PICK k \in T : \A j \in T : k <= j
  BY <1>1, LeastNat
<1>3. k \in 1 .. i - 1 /\ s[k] = "/"
  BY <1>2
<1>4. InHost(s, k)
  BY <1>2, <1>3 DEF InHost
<1> QED
  BY <1>3, <1>4

(* Flatten leaves the first '/' and the characters of the path. *)
LEMMA FlattenKeeps ==
    ASSUME NEW u, IsText(u)
    PROVE  /\ IsText(Flatten(u))
           /\ Len(Flatten(u)) = Len(u)
           /\ \A i \in 1 .. Len(u) :
                 /\ Flatten(u)[i] = "/" <=> u[i] = "/" /\ InHost(u, i)
                 /\ Flatten(u)[i] # "?"
                 /\ Flatten(u)[i] = "." => ~InHost(u, i)
           /\ \A i \in 1 .. Len(u) + 1 : InHost(Flatten(u), i) <=> InHost(u, i)
<1> DEFINE f == Flatten(u)
<1>1. IsText(f) /\ Len(f) = Len(u)
  <2>1. f = [i \in 1 .. Len(u) |-> f[i]]
    BY DEF Flatten
  <2> QED
    BY <2>1, FunIsText DEF IsText
<1>2. ASSUME NEW i \in 1 .. Len(u)
      PROVE  /\ f[i] = "/" <=> u[i] = "/" /\ InHost(u, i)
             /\ f[i] # "?"
             /\ f[i] = "." => ~InHost(u, i)
  BY DEF Flatten
<1>3. ASSUME NEW i \in 1 .. Len(u) + 1
      PROVE  InHost(f, i) <=> InHost(u, i)
  <2>1. ASSUME InHost(u, i)
        PROVE  InHost(f, i)
    BY <2>1, <1>2 DEF InHost
  <2>2. ASSUME ~InHost(u, i)
        PROVE  ~InHost(f, i)
    <3>1. PICK k \in 1 .. i - 1 : u[k] = "/" /\ InHost(u, k)
      BY <2>2, FirstSlash
    <3>2. f[k] = "/"
      BY <3>1, <1>2
    <3> QED
      BY <3>2 DEF InHost
  <2> QED
    BY <2>1, <2>2
<1> QED
  BY <1>1, <1>2, <1>3

(* So does the loop of the recovery. *)
LEMMA UnflattenKeeps ==
    ASSUME NEW p, IsText(p)
    PROVE  /\ IsText(Unflatten(p))
           /\ Len(Unflatten(p)) = Len(p)
           /\ \A i \in 1 .. Len(p) : Unflatten(p)[i] =
                 IF p[i] # "_" THEN p[i] ELSE IF InHost(p, i) THEN "." ELSE "/"
           /\ \A i \in 1 .. Len(p) + 1 : InHost(Unflatten(p), i) <=> InHost(p, i)
<1> DEFINE g == Unflatten(p)
<1>1. IsText(g) /\ Len(g) = Len(p)
  <2>1. g = [i \in 1 .. Len(p) |-> g[i]]
    BY DEF Unflatten
  <2> QED
    BY <2>1, FunIsText DEF IsText
<1>2. ASSUME NEW i \in 1 .. Len(p)
      PROVE  g[i] = IF p[i] # "_" THEN p[i] ELSE IF InHost(p, i) THEN "." ELSE "/"
  BY DEF Unflatten
<1> HIDE DEF g
<1>3. ASSUME NEW i \in 1 .. Len(p) + 1
      PROVE  InHost(g, i) <=> InHost(p, i)
  <2>1. ASSUME InHost(g, i)
        PROVE  InHost(p, i)
    <3>1. ASSUME NEW j \in 1 .. i - 1
          PROVE  p[j] # "/"
      <4>1. j \in 1 .. Len(p) /\ g[j] # "/"
        BY <2>1 DEF InHost
      <4> QED
        BY <4>1, <1>2
    <3> QED
      BY <3>1 DEF InHost
  <2>2. ASSUME InHost(p, i), NEW j \in 1 .. i - 1
        PROVE  g[j] # "/"
    <3>1. j \in 1 .. Len(p) /\ p[j] # "/" /\ InHost(p, j)
      BY <2>2 DEF InHost
    <3>2. g[j] = IF p[j] # "_" THEN p[j] ELSE "."
      BY <3>1, <1>2
    <3> QED
      BY <3>1, <3>2
  <2> QED
    BY <2>1, <2>2 DEF InHost
<1> QED
  BY <1>1, <1>2, <1>3 DEF g

(* The path of a URL recovered from the path of a URL u is the path of u   *)
(* (sc_res_recover_url_from_local_path before its Sohu tag, and the loop   *)
(* of sc_res_url_to_local_path_default), for every u.                      *)
THEOREM PathRecovered ==
    ASSUME NEW u, IsText(u)
    PROVE  Flatten(Unflatten(Flatten(u))) = Flatten(u)
<1> DEFINE f == Flatten(u)
           g == Unflatten(f)
<1>1. IsText(f) /\ Len(f) = Len(u)
  BY FlattenKeeps
<1>2. IsText(g) /\ Len(g) = Len(u)
  BY <1>1, UnflattenKeeps
<1>3. ASSUME NEW i \in 1 .. Len(u)
      PROVE  Flatten(g)[i] = f[i]
  <2>1. InHost(g, i) <=> InHost(u, i)
    <3>1. i \in 1 .. Len(f) + 1 /\ i \in 1 .. Len(u) + 1
      BY <1>1
    <3>2. InHost(f, i) <=> InHost(u, i)
      BY <3>1, FlattenKeeps
    <3>3. InHost(g, i) <=> InHost(f, i)
      BY <1>1, <3>1, UnflattenKeeps
    <3> QED
      BY <3>2, <3>3
  <2>2. Flatten(g)[i] = IF \/ g[i] = "." /\ InHost(g, i)
                           \/ g[i] = "/" /\ ~InHost(g, i)
                           \/ g[i] = "?"
                        THEN "_" ELSE g[i]
    BY <1>2 DEF Flatten
  <2>3. g[i] = IF f[i] # "_" THEN f[i] ELSE IF InHost(f, i) THEN "." ELSE "/"
    BY <1>1, UnflattenKeeps
  <2>4. /\ f[i] = "/" => InHost(u, i)
        /\ f[i] # "?"
        /\ f[i] = "." => ~InHost(u, i)
        /\ InHost(f, i) <=> InHost(u, i)
    BY FlattenKeeps
  <2> HIDE DEF f, g
  <2> QED
    BY <2>1, <2>2, <2>3, <2>4
<1>4. IsText(Flatten(g)) /\ Len(Flatten(g)) = Len(u)
  BY <1>2, FlattenKeeps
<1> HIDE DEF f, g
<1>5. /\ Flatten(g) = [i \in 1 .. Len(u) |-> Flatten(g)[i]]
      /\ f = [i \in 1 .. Len(u) |-> f[i]]
  BY <1>1, <1>4 DEF IsText
<1>6. [i \in 1 .. Len(u) |-> Flatten(g)[i]] = [i \in 1 .. Len(u) |-> f[i]]
  BY <1>3
<1> QED
  BY <1>5, <1>6 DEF f, g

(* A Youku file is loaded with the path it has: the URL recovered from the *)
(* path p of any URL has no parameters to lose, and its path is p again    *)
(* (sc_ld_file_process, sc_yk_url_to_local_path).                          *)
THEOREM YoukuPathKept ==
    ASSUME NEW u, IsText(u), NEW p, p = Flatten(u),
           Len(p) < UrlMax, Len(p) < PathMax, ~Occurs(Unflatten(p), SohuTag)
    PROVE  DefaultPath(RecoverUrlOf(p)) = p
<1> DEFINE g == Unflatten(p)
<1>1. IsText(p) /\ Len(p) = Len(u)
  BY FlattenKeeps
<1>2. IsText(g) /\ Len(g) = Len(p)
  BY <1>1, UnflattenKeeps
<1>3. RecoverUrlOf(p) = g
  <2>1. ~(Len(p) >= UrlMax)
    BY <1>1, LengthAssumption DEF IsText
  <2> QED
    BY <2>1 DEF RecoverUrlOf, MarkFile
<1>4. \A j \in 1 .. Len(g) : g[j] # "?"
  <2>1. \A j \in 1 .. Len(p) : p[j] # "?"
    BY <1>1, FlattenKeeps
  <2>2. \A j \in 1 .. Len(p) : g[j] \in {p[j], ".", "/"}
    BY <1>1, UnflattenKeeps
  <2> HIDE DEF g
  <2> QED
    BY <1>2, <2>1, <2>2
<1>5. Flatten(g) = p
  BY PathRecovered
<1> HIDE DEF g
<1>6. WithoutPara(g) = g
  <2> DEFINE n == {i \in 0 .. Len(g) : \A j \in 1 .. i : g[j] # "?"}
             m == CHOOSE i \in n : \A j \in n : j <= i
  <2>1. Len(g) \in n /\ \A j \in n : j <= Len(g)
    BY <1>2, <1>4 DEF IsText
  <2>2. m \in n /\ \A j \in n : j <= m
    BY <2>1
  <2>3. m = Len(g)
    BY <2>1, <2>2, <1>2 DEF IsText
  <2>4. SubSeq(g, 1, Len(g)) = g
    BY <1>2 DEF IsText
  <2> QED
    BY <2>3, <2>4 DEF WithoutPara
<1>7. ~(PathMax <= Len(g))
  BY <1>1, <1>2, LengthAssumption DEF IsText
<1> QED
  BY <1>3, <1>5, <1>6, <1>7 DEF DefaultPath

(* What MarkFile changes: the second token of the first occurrence of the tag. *)
LEMMA MarkFileAt ==
    ASSUME NEW g, IsText(g), Occurs(g, SohuTag)
    PROVE  \E k \in 1 .. Len(g) - 3 :
              /\ At(g, SohuTag, k) /\ MarkFile(g) = [g EXCEPT ![k + 1] = "?"]
              /\ \A j \in 1 .. Len(g) : At(g, SohuTag, j) => k <= j
<1> DEFINE at == {i \in 1 .. Len(g) : At(g, SohuTag, i)}
           k == CHOOSE i \in at : \A j \in at : i <= j
<1>1. Len(g) \in Nat /\ Len(SohuTag) = 4
  BY DEF IsText, SohuTag
<1>2. \A i \in 1 .. Len(g) + 1 : At(g, SohuTag, i) => i <= Len(g) - 3
  BY <1>1 DEF At
<1>3. at \in SUBSET Nat /\ at # {}
  BY <1>1, <1>2 DEF Occurs
<1>4. k \in at /\ \A j \in at : k <= j
  BY <1>3, LeastNat
<1>5. MarkFile(g) = [g EXCEPT ![k + 1] = "?"]
  BY DEF MarkFile
<1>6. k \in 1 .. Len(g) - 3 /\ At(g, SohuTag, k)
  BY <1>1, <1>2, <1>4
<1> QED
  BY <1>4, <1>5, <1>6

(* A Sohu file is loaded with the path it has, when its tag is not in the  *)
(* host: the '?' the recovery puts back becomes the same '_', and what it  *)
(* replaces is not the first '/' (sc_ld_file_process,                      *)
(* sc_sohu_file_url_to_local_path).                                        *)
THEOREM SohuPathKept ==
    ASSUME NEW u, IsText(u), NEW p, p = Flatten(u),
           Len(p) < UrlMax, Len(p) < PathMax, Occurs(Unflatten(p), SohuTag),
           \A i \in 1 .. Len(p) : At(Unflatten(p), SohuTag, i) => ~InHost(p, i)
    PROVE  SohuPath(RecoverUrlOf(p)) = p
<1> DEFINE g == Unflatten(p)
           q == MarkFile(g)
<1>1. IsText(p) /\ Len(p) = Len(u)
  BY FlattenKeeps
<1>2. /\ IsText(g) /\ Len(g) = Len(p)
      /\ \A i \in 1 .. Len(p) + 1 : InHost(g, i) <=> InHost(p, i)
  BY <1>1, UnflattenKeeps
<1>3. Flatten(g) = p
  BY PathRecovered
<1>4. RecoverUrlOf(p) = q
  <2>1. ~(Len(p) >= UrlMax)
    BY <1>1, LengthAssumption DEF IsText
  <2> QED
    BY <2>1 DEF RecoverUrlOf
<1>5. PICK k \in 1 .. Len(g) - 3 : At(g, SohuTag, k) /\ q = [g EXCEPT ![k + 1] = "?"]
  BY <1>2, MarkFileAt
<1>6. ~InHost(g, k)
  BY <1>2, <1>5 DEF IsText
<1> HIDE DEF g, q
<1>7. /\ Len(g) \in Nat /\ k + 1 \in 1 .. Len(g)
      /\ g[k + 1] = "/" /\ g[k + 2] = "file=" /\ g[k + 3] = "/"
  <2>1. Len(g) \in Nat /\ k + 1 \in 1 .. Len(g)
    BY <1>2, <1>5 DEF IsText
  <2>2. \A j \in 1 .. 4 : g[k + j - 1] = SohuTag[j]
    BY <1>5 DEF At, SohuTag
  <2>3. g[k + 2 - 1] = "/" /\ g[k + 3 - 1] = "file=" /\ g[k + 4 - 1] = "/"
    <3>1. SohuTag[2] = "/" /\ SohuTag[3] = "file=" /\ SohuTag[4] = "/"
      BY DEF SohuTag
    <3> QED
      BY <2>2, <3>1
  <2>4. k + 2 - 1 = k + 1 /\ k + 3 - 1 = k + 2 /\ k + 4 - 1 = k + 3
    BY <2>1
  <2> QED
    BY <2>1, <2>3, <2>4
<1>8. IsText(q) /\ Len(q) = Len(g) /\ \A i \in 1 .. Len(g) : q[i] = IF i = k + 1 THEN "?" ELSE g[i]
  <2>1. /\ q = [i \in 1 .. Len(g) |-> q[i]]
        /\ \A i \in 1 .. Len(g) : q[i] = IF i = k + 1 THEN "?" ELSE g[i]
    BY <1>2, <1>5 DEF IsText
  <2> QED
    BY <1>7, <2>1, FunIsText
<1>9. ASSUME NEW i \in 1 .. Len(g)
      PROVE  InHost(q, i) <=> InHost(g, i)
  <2>1. PICK m \in 1 .. k - 1 : g[m] = "/"
    BY <1>6 DEF InHost
  <2>2. CASE i <= k + 1
    BY <1>7, <1>8, <2>2 DEF InHost
  <2>3. CASE i > k + 1
    <3>1. q[m] = "/" /\ m \in 1 .. i - 1
      BY <1>7, <1>8, <2>1, <2>3
    <3> QED
      BY <2>1, <3>1 DEF InHost
  <2> QED
    BY <1>7, <2>2, <2>3
<1>10. ASSUME NEW i \in 1 .. Len(g)
       PROVE  Flatten(q)[i] = Flatten(g)[i]
  <2>1. ASSUME NEW t, Len(t) = Len(g)
        PROVE  Flatten(t)[i] = IF \/ t[i] = "." /\ InHost(t, i)
                                  \/ t[i] = "/" /\ ~InHost(t, i)
                                  \/ t[i] = "?"
                               THEN "_" ELSE t[i]
    BY <2>1 DEF Flatten
  <2>2. CASE i = k + 1
    <3>1. g[i] = "/" /\ ~InHost(g, i) /\ q[i] = "?"
      BY <1>6, <1>7, <1>8, <2>2 DEF InHost
    <3> QED
      BY <2>1, <3>1, <1>8
  <2>3. CASE i # k + 1
    <3>1. q[i] = g[i]
      BY <1>8, <2>3
    <3> QED
      BY <2>1, <3>1, <1>8, <1>9
  <2> QED
    BY <2>2, <2>3
<1>11. Flatten(q) = Flatten(g)
  <2>1. /\ Flatten(q) = [i \in 1 .. Len(g) |-> Flatten(q)[i]]
        /\ Flatten(g) = [i \in 1 .. Len(g) |-> Flatten(g)[i]]
    BY <1>2, <1>8, FlattenKeeps DEF IsText
  <2>2. [i \in 1 .. Len(g) |-> Flatten(q)[i]] = [i \in 1 .. Len(g) |-> Flatten(g)[i]]
    BY <1>10
  <2> QED
    BY <2>1, <2>2
<1>12. IsFileUrl(q)
  <2>1. At(q, <<"?", "file=", "/">>, k + 1)
    <3>1. q[k + 1] = "?" /\ q[k + 2] = "file=" /\ q[k + 3] = "/"
      BY <1>5, <1>7, <1>8
    <3> QED
      BY <3>1, <1>5, <1>7, <1>8 DEF At
  <2> QED
    BY <2>1, <1>7, <1>8 DEF IsFileUrl, Occurs
<1>13. ~(PathMax <= Len(q))
  BY <1>1, <1>2, <1>8, LengthAssumption DEF IsText
<1> QED
  BY <1>3, <1>4, <1>11, <1>12, <1>13 DEF SohuPath
=============================================================================
