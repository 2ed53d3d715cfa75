---------------------------- MODULE PagesProofs ----------------------------
(***************************************************************************)
(* The parsers of replies and pages, for inputs of any length.  What a     *)
(* loop computes is proved by induction over its turns; an induction is    *)
(* over a set of numbers, the turns for which the claim holds.             *)
(***************************************************************************)
EXTENDS StatusLine, YoukuPages, SohuPages, ListProofs

(* Induction up to n, and from a to n. *)
LEMMA UpTo ==
    ASSUME NEW a \in Nat, NEW n \in Nat, NEW S, a \in S, \A i \in a .. n : i \in S /\ i < n => i + 1 \in S
    PROVE  \A i \in a .. n : i \in S
<1> DEFINE T == {i \in a .. n : i \notin S}
<1>1. SUFFICES ASSUME T # {}
               PROVE  FALSE
  OBVIOUS
<1>2. T \in SUBSET Nat
  OBVIOUS
<1>3. PICK k \in T : \A j \in T : k <= j
  BY <1>1, <1>2, LeastNat
<1>4. k \in a .. n /\ k \notin S /\ k # a
  BY <1>3
<1>5. k - 1 \in a .. n /\ k - 1 < n /\ k - 1 + 1 = k
  BY <1>4
<1>6. k - 1 \notin T
  BY <1>3, <1>4, <1>5
<1> QED
  BY <1>4, <1>5, <1>6

-----------------------------------------------------------------------------
(* The states of the parser: run[i] is the one after i characters. *)
RunEq(run, p, buf) ==
    run = [i \in 0 .. Len(buf) |-> IF i = 0 THEN p ELSE ReadChar(run[i - 1], buf[i])]

LEMMA RunExists ==
    ASSUME NEW p, NEW buf, Len(buf) \in Nat
    PROVE  \E run : RunEq(run, p, buf)
<1>0. PICK n \in Nat : n = Len(buf)
  OBVIOUS
<1> DEFINE R(m) == \E run : run = [i \in 0 .. m |-> IF i = 0 THEN p ELSE ReadChar(run[i - 1], buf[i])]
           S == {m \in 0 .. n : R(m)}
<1>1. 0 \in S
  <2>1. [i \in 0 .. 0 |-> p] = [i \in 0 .. 0 |-> IF i = 0 THEN p ELSE ReadChar([k \in 0 .. 0 |-> p][i - 1], buf[i])]
    OBVIOUS
  <2>2. 0 \in 0 .. n
    OBVIOUS
  <2> QED
    BY <2>1, <2>2
<1>2. ASSUME NEW m \in 0 .. n, m \in S, m < n
      PROVE  m + 1 \in S
  <2>1. PICK run : run = [i \in 0 .. m |-> IF i = 0 THEN p ELSE ReadChar(run[i - 1], buf[i])]
    BY <1>2
  <2> DEFINE next == [i \in 0 .. m + 1 |-> IF i <= m THEN run[i] ELSE ReadChar(run[m], buf[m + 1])]
  <2>2. ASSUME NEW i \in 0 .. m + 1
        PROVE  next[i] = IF i = 0 THEN p ELSE ReadChar(next[i - 1], buf[i])
    <3>1. CASE i = 0
      <4>1. 0 \in 0 .. m
        OBVIOUS
      <4>2. run[0] = p
        BY <2>1, <4>1
      <4> QED
        BY <3>1, <4>2
    <3>2. CASE i # 0 /\ i <= m
      <4>1. i \in 0 .. m /\ i - 1 \in 0 .. m
        BY <3>2
      <4>2. run[i] = ReadChar(run[i - 1], buf[i])
        BY <2>1, <3>2, <4>1
      <4>3. next[i] = run[i] /\ next[i - 1] = run[i - 1]
        BY <4>1
      <4> QED
        BY <3>2, <4>2, <4>3
    <3>3. CASE i = m + 1
      <4>1. next[i] = ReadChar(run[m], buf[m + 1]) /\ next[m] = run[m] /\ i - 1 = m /\ i # 0
        BY <3>3
      <4> QED
        BY <3>3, <4>1
    <3> QED
      BY <3>1, <3>2, <3>3
  <2>3. next = [i \in 0 .. m + 1 |-> IF i = 0 THEN p ELSE ReadChar(next[i - 1], buf[i])]
    <3>1. next = [i \in 0 .. m + 1 |-> next[i]]
      OBVIOUS
    <3> HIDE DEF next
    <3>2. [i \in 0 .. m + 1 |-> next[i]] = [i \in 0 .. m + 1 |-> IF i = 0 THEN p ELSE ReadChar(next[i - 1], buf[i])]
      BY <2>2
    <3> QED
      BY <3>1, <3>2, Zenon
  <2> HIDE DEF next
  <2>4. R(m + 1)
    BY <2>3, Zenon
  <2>5. m + 1 \in 0 .. n
    <3> HIDE DEF S
    <3> QED
      BY <1>2
  <2> HIDE DEF R
  <2> QED
    BY <2>4, <2>5
<1>3. \A m \in 0 .. n : m \in S
  <2> HIDE DEF S
  <2> QED
    BY <1>1, <1>2, UpTo
<1>4. R(n)
  <2>1. n \in 0 .. n
    OBVIOUS
  <2> HIDE DEF R
  <2> QED
    BY <1>3, <2>1
<1> QED
  BY <1>0, <1>4 DEF RunEq

(* The function the loop of the parser defines. *)
LEMMA ParseRun ==
    ASSUME NEW p, NEW buf, NEW n \in Nat, n = Len(buf)
    PROVE  \E run : /\ run = [i \in 0 .. n |-> run[i]]
                    /\ run[0] = p
                    /\ \A i \in 1 .. n : run[i] = ReadChar(run[i - 1], buf[i])
                    /\ run[n] = NgxParseStatusLine(p, buf)
<1>1. PICK run : run = CHOOSE r : RunEq(r, p, buf)
  OBVIOUS
<1>2. RunEq(run, p, buf)
  BY <1>1, RunExists
<1>3. NgxParseStatusLine(p, buf) = run[n]
  BY <1>1 DEF NgxParseStatusLine, RunEq
<1>4. run = [i \in 0 .. n |-> IF i = 0 THEN p ELSE ReadChar(run[i - 1], buf[i])]
  BY <1>2 DEF RunEq
<1>5. \A i \in 0 .. n : run[i] = IF i = 0 THEN p ELSE ReadChar(run[i - 1], buf[i])
  BY <1>4
<1>6. run[0] = p /\ \A i \in 1 .. n : run[i] = ReadChar(run[i - 1], buf[i])
  BY <1>5
<1>7. run = [i \in 0 .. n |-> run[i]]
  BY <1>4
<1> QED
  BY <1>3, <1>6, <1>7

-----------------------------------------------------------------------------
(* A state in which the line may go on, and what a character does in it. *)
Reading(sw, count, code) == [sw |-> sw, count |-> count, code |-> code, ret |-> "AGAIN"]
Read(count, code) == [sw |-> "done", count |-> count, code |-> code, ret |-> "OK"]

LEMMA NextSwOf ==
    ASSUME NEW c
    PROVE  /\ NextSw("start", c) = IF c = "H" THEN "H" ELSE "error"
           /\ NextSw("H", c) = IF c = "T" THEN "HT" ELSE "error"
           /\ NextSw("HT", c) = IF c = "T" THEN "HTT" ELSE "error"
           /\ NextSw("HTT", c) = IF c = "P" THEN "HTTP" ELSE "error"
           /\ NextSw("HTTP", c) = IF c = "/" THEN "first_major" ELSE "error"
           /\ NextSw("first_major", c) = IF c \in Digit \ {"0"} THEN "major" ELSE "error"
           /\ NextSw("major", c) = IF c = "." THEN "first_minor" ELSE IF c \in Digit THEN "major" ELSE "error"
           /\ NextSw("first_minor", c) = IF c \in Digit THEN "minor" ELSE "error"
           /\ NextSw("minor", c) = IF c = "SP" THEN "status" ELSE IF c \in Digit THEN "minor" ELSE "error"
           /\ NextSw("status", c) = IF c \in Digit \cup {"SP"} THEN "status" ELSE "error"
           /\ NextSw("after_status", c) = IF c \in {"SP", "."} THEN "text" ELSE IF c = "CR" THEN "almost_done"
                                          ELSE IF c = "LF" THEN "done" ELSE "error"
           /\ NextSw("text", c) = IF c = "CR" THEN "almost_done" ELSE IF c = "LF" THEN "done" ELSE "text"
           /\ NextSw("almost_done", c) = IF c = "LF" THEN "done" ELSE "error"
<1>1. DOMAIN Expected = {"start", "H", "HT", "HTT", "HTTP"}
  BY DEF Expected
<1>2. /\ Expected["start"] = "H" /\ Expected["H"] = "T" /\ Expected["HT"] = "T"
      /\ Expected["HTT"] = "P" /\ Expected["HTTP"] = "/"
      /\ Follows["start"] = "H" /\ Follows["H"] = "HT" /\ Follows["HT"] = "HTT"
      /\ Follows["HTT"] = "HTTP" /\ Follows["HTTP"] = "first_major"
  BY DEF Expected, Follows
<1>3. "." \notin Digit /\ "SP" \notin Digit /\ "CR" \notin Digit /\ "LF" \notin Digit
  BY DEF Digit
<1>4. /\ NextSw("start", c) = IF c = "H" THEN "H" ELSE "error"
      /\ NextSw("H", c) = IF c = "T" THEN "HT" ELSE "error"
      /\ NextSw("HT", c) = IF c = "T" THEN "HTT" ELSE "error"
      /\ NextSw("HTT", c) = IF c = "P" THEN "HTTP" ELSE "error"
      /\ NextSw("HTTP", c) = IF c = "/" THEN "first_major" ELSE "error"
  BY <1>1, <1>2 DEF NextSw
<1>5. NextSw("first_major", c) = IF c \in Digit \ {"0"} THEN "major" ELSE "error"
  BY <1>1 DEF NextSw
<1>6. NextSw("major", c) = IF c = "." THEN "first_minor" ELSE IF c \in Digit THEN "major" ELSE "error"
  BY <1>1, <1>3 DEF NextSw
<1>7. NextSw("first_minor", c) = IF c \in Digit THEN "minor" ELSE "error"
  BY <1>1 DEF NextSw
<1>8. NextSw("minor", c) = IF c = "SP" THEN "status" ELSE IF c \in Digit THEN "minor" ELSE "error"
  BY <1>1, <1>3 DEF NextSw
<1>9. NextSw("status", c) = IF c \in Digit \cup {"SP"} THEN "status" ELSE "error"
  BY <1>1 DEF NextSw
<1>10. NextSw("after_status", c) = IF c \in {"SP", "."} THEN "text" ELSE IF c = "CR" THEN "almost_done"
                                   ELSE IF c = "LF" THEN "done" ELSE "error"
  BY <1>1 DEF NextSw
<1>11. NextSw("text", c) = IF c = "CR" THEN "almost_done" ELSE IF c = "LF" THEN "done" ELSE "text"
  BY <1>1 DEF NextSw
<1>12. NextSw("almost_done", c) = IF c = "LF" THEN "done" ELSE "error"
  BY <1>1 DEF NextSw
<1> QED
  BY <1>4, <1>5, <1>6, <1>7, <1>8, <1>9, <1>10, <1>11, <1>12

(* A turn of the loop, but for the digits of the status. *)
LEMMA ReadOther ==
    ASSUME NEW sw, NEW count, NEW code, NEW c, sw # "status" \/ c \notin Digit
    PROVE  /\ NextSw(sw, c) = "error" => ReadChar(Reading(sw, count, code), c).ret = "ERROR"
           /\ NextSw(sw, c) = "done" =>
                 ReadChar(Reading(sw, count, code), c) = Read(count, code)
           /\ NextSw(sw, c) \notin {"error", "done"} =>
                 ReadChar(Reading(sw, count, code), c) = Reading(NextSw(sw, c), count, code)
<1>1. PICK p : p = Reading(sw, count, code)
  OBVIOUS
<1>2. p.sw = sw /\ p.count = count /\ p.code = code /\ p.ret = "AGAIN"
  BY <1>1 DEF Reading
<1>3. PICK to : to = NextSw(sw, c)
  OBVIOUS
<1>4. ReadChar(p, c) = [sw |-> to, count |-> count, code |-> code,
                        ret |-> CASE to = "done" -> "OK" [] to = "error" -> "ERROR" [] OTHER -> "AGAIN"]
  BY <1>2, <1>3 DEF ReadChar
<1> QED
  BY <1>1, <1>3, <1>4 DEF Reading, Read

(* A digit of the status. *)
LEMMA ReadDigit ==
    ASSUME NEW count \in Nat, NEW code \in Nat, NEW c \in Digit
    PROVE  ReadChar(Reading("status", count, code), c) =
              Reading(IF count = 2 THEN "after_status" ELSE "status", count + 1, 10 * code + DigitOf[c])
<1>1. PICK p : p = Reading("status", count, code)
  OBVIOUS
<1>2. p.sw = "status" /\ p.count = count /\ p.code = code /\ p.ret = "AGAIN"
  BY <1>1 DEF Reading
<1>3. NextSw("status", c) = "status"
  BY NextSwOf
<1>4. ReadChar(p, c) = [sw |-> IF count = 2 THEN "after_status" ELSE "status", count |-> count + 1,
                        code |-> 10 * code + DigitOf[c],
                        ret |-> CASE "status" = "done" -> "OK" [] "status" = "error" -> "ERROR" [] OTHER -> "AGAIN"]
  BY <1>2, <1>3 DEF ReadChar
<1>5. (CASE "status" = "done" -> "OK" [] "status" = "error" -> "ERROR" [] OTHER -> "AGAIN") = "AGAIN"
  OBVIOUS
<1> QED
  BY <1>1, <1>4, <1>5 DEF Reading

LEMMA DigitValue ==
    ASSUME NEW c \in Digit
    PROVE  DigitOf[c] \in 0 .. 9
<1> DEFINE ds == <<"0", "1", "2", "3", "4", "5", "6", "7", "8", "9">>
<1>1. \E n \in 0 .. 9 : ds[n + 1] = c
  <2>1. /\ ds[0 + 1] = "0" /\ ds[1 + 1] = "1" /\ ds[2 + 1] = "2" /\ ds[3 + 1] = "3" /\ ds[4 + 1] = "4"
        /\ ds[5 + 1] = "5" /\ ds[6 + 1] = "6" /\ ds[7 + 1] = "7" /\ ds[8 + 1] = "8" /\ ds[9 + 1] = "9"
    OBVIOUS
  <2> HIDE DEF ds
  <2> QED
    BY <2>1 DEF Digit
<1>2. (CHOOSE n \in 0 .. 9 : ds[n + 1] = c) \in 0 .. 9
  <2> HIDE DEF ds
  <2> QED
    BY <1>1
<1> QED
  BY <1>2 DEF DigitOf

(* All turns of the loop, by the state and the character. *)
LEMMA Turns ==
    ASSUME NEW k, NEW v, NEW c
    PROVE  /\ c = "H" => ReadChar(Reading("start", k, v), c) = Reading("H", k, v)
           /\ c = "T" => ReadChar(Reading("H", k, v), c) = Reading("HT", k, v)
           /\ c = "T" => ReadChar(Reading("HT", k, v), c) = Reading("HTT", k, v)
           /\ c = "P" => ReadChar(Reading("HTT", k, v), c) = Reading("HTTP", k, v)
           /\ c = "/" => ReadChar(Reading("HTTP", k, v), c) = Reading("first_major", k, v)
           /\ c \in Digit /\ c # "0" => ReadChar(Reading("first_major", k, v), c) = Reading("major", k, v)
           /\ c \in Digit => ReadChar(Reading("major", k, v), c) = Reading("major", k, v)
           /\ c = "." => ReadChar(Reading("major", k, v), c) = Reading("first_minor", k, v)
           /\ c \in Digit => ReadChar(Reading("first_minor", k, v), c) = Reading("minor", k, v)
           /\ c \in Digit => ReadChar(Reading("minor", k, v), c) = Reading("minor", k, v)
           /\ c = "SP" => ReadChar(Reading("minor", k, v), c) = Reading("status", k, v)
           /\ c = "SP" => ReadChar(Reading("status", k, v), c) = Reading("status", k, v)
           /\ c \in {"SP", "."} => ReadChar(Reading("after_status", k, v), c) = Reading("text", k, v)
           /\ c \notin {"CR", "LF"} => ReadChar(Reading("text", k, v), c) = Reading("text", k, v)
           /\ c = "CR" => ReadChar(Reading("after_status", k, v), c) = Reading("almost_done", k, v)
           /\ c = "CR" => ReadChar(Reading("text", k, v), c) = Reading("almost_done", k, v)
           /\ c = "LF" => /\ ReadChar(Reading("after_status", k, v), c) = Read(k, v)
                          /\ ReadChar(Reading("text", k, v), c) = Read(k, v)
                          /\ ReadChar(Reading("almost_done", k, v), c) = Read(k, v)
           /\ ReadChar(Read(k, v), c) = Read(k, v)
<1>1. "." \notin Digit /\ "SP" \notin Digit
  BY DEF Digit
<1>2. /\ c = "H" => NextSw("start", c) = "H"
      /\ c = "T" => NextSw("H", c) = "HT"
      /\ c = "T" => NextSw("HT", c) = "HTT"
      /\ c = "P" => NextSw("HTT", c) = "HTTP"
      /\ c = "/" => NextSw("HTTP", c) = "first_major"
      /\ c \in Digit /\ c # "0" => NextSw("first_major", c) = "major"
      /\ c \in Digit => NextSw("major", c) = "major"
      /\ c = "." => NextSw("major", c) = "first_minor"
      /\ c \in Digit => NextSw("first_minor", c) = "minor"
      /\ c \in Digit => NextSw("minor", c) = "minor"
      /\ c = "SP" => NextSw("minor", c) = "status"
      /\ c = "SP" => NextSw("status", c) = "status"
      /\ c \in {"SP", "."} => NextSw("after_status", c) = "text"
      /\ c \notin {"CR", "LF"} => NextSw("text", c) = "text"
      /\ c = "CR" => NextSw("after_status", c) = "almost_done"
      /\ c = "CR" => NextSw("text", c) = "almost_done"
      /\ c = "LF" => /\ NextSw("after_status", c) = "done"
                     /\ NextSw("text", c) = "done"
                     /\ NextSw("almost_done", c) = "done"
  <2>1. /\ c = "H" => NextSw("start", c) = "H"
        /\ c = "T" => NextSw("H", c) = "HT"
        /\ c = "T" => NextSw("HT", c) = "HTT"
        /\ c = "P" => NextSw("HTT", c) = "HTTP"
        /\ c = "/" => NextSw("HTTP", c) = "first_major"
        /\ c \in Digit /\ c # "0" => NextSw("first_major", c) = "major"
    BY NextSwOf
  <2>2. /\ c \in Digit => NextSw("major", c) = "major"
        /\ c = "." => NextSw("major", c) = "first_minor"
        /\ c \in Digit => NextSw("first_minor", c) = "minor"
    BY <1>1, NextSwOf
  <2>3. /\ c \in Digit => NextSw("minor", c) = "minor"
        /\ c = "SP" => NextSw("minor", c) = "status"
        /\ c = "SP" => NextSw("status", c) = "status"
    BY <1>1, NextSwOf
  <2>4. /\ c \in {"SP", "."} => NextSw("after_status", c) = "text"
        /\ c \notin {"CR", "LF"} => NextSw("text", c) = "text"
        /\ c = "CR" => NextSw("after_status", c) = "almost_done"
        /\ c = "CR" => NextSw("text", c) = "almost_done"
    BY NextSwOf
  <2>5. c = "LF" => /\ NextSw("after_status", c) = "done"
                    /\ NextSw("text", c) = "done"
                    /\ NextSw("almost_done", c) = "done"
    BY NextSwOf
  <2> QED
    BY <2>1, <2>2, <2>3, <2>4, <2>5
<1>3. ASSUME NEW sw, sw # "status" \/ c \notin Digit
      PROVE  /\ NextSw(sw, c) = "done" => ReadChar(Reading(sw, k, v), c) = Read(k, v)
             /\ NextSw(sw, c) \notin {"error", "done"} =>
                   ReadChar(Reading(sw, k, v), c) = Reading(NextSw(sw, c), k, v)
  BY <1>3, ReadOther
<1>4. ReadChar(Read(k, v), c) = Read(k, v)
  BY DEF ReadChar, Read
<1>5. c = "H" => ReadChar(Reading("start", k, v), c) = Reading("H", k, v)
  BY <1>2, <1>3
<1>6. c = "T" => ReadChar(Reading("H", k, v), c) = Reading("HT", k, v)
  BY <1>2, <1>3
<1>7. c = "T" => ReadChar(Reading("HT", k, v), c) = Reading("HTT", k, v)
  BY <1>2, <1>3
<1>8. c = "P" => ReadChar(Reading("HTT", k, v), c) = Reading("HTTP", k, v)
  BY <1>2, <1>3
<1>9. c = "/" => ReadChar(Reading("HTTP", k, v), c) = Reading("first_major", k, v)
  BY <1>2, <1>3
<1>10. c \in Digit /\ c # "0" => ReadChar(Reading("first_major", k, v), c) = Reading("major", k, v)
  BY <1>2, <1>3
<1>11. /\ c \in Digit => ReadChar(Reading("major", k, v), c) = Reading("major", k, v)
       /\ c = "." => ReadChar(Reading("major", k, v), c) = Reading("first_minor", k, v)
  BY <1>2, <1>3
<1>12. c \in Digit => ReadChar(Reading("first_minor", k, v), c) = Reading("minor", k, v)
  BY <1>2, <1>3
<1>13. /\ c \in Digit => ReadChar(Reading("minor", k, v), c) = Reading("minor", k, v)
       /\ c = "SP" => ReadChar(Reading("minor", k, v), c) = Reading("status", k, v)
  BY <1>2, <1>3
<1>14. c = "SP" => ReadChar(Reading("status", k, v), c) = Reading("status", k, v)
  BY <1>1, <1>2, <1>3
<1>15. /\ c \in {"SP", "."} => ReadChar(Reading("after_status", k, v), c) = Reading("text", k, v)
       /\ c = "CR" => ReadChar(Reading("after_status", k, v), c) = Reading("almost_done", k, v)
       /\ c = "LF" => ReadChar(Reading("after_status", k, v), c) = Read(k, v)
  BY <1>2, <1>3
<1>16. /\ c \notin {"CR", "LF"} => ReadChar(Reading("text", k, v), c) = Reading("text", k, v)
       /\ c = "CR" => ReadChar(Reading("text", k, v), c) = Reading("almost_done", k, v)
       /\ c = "LF" => ReadChar(Reading("text", k, v), c) = Read(k, v)
  BY <1>2, <1>3
<1>17. c = "LF" => ReadChar(Reading("almost_done", k, v), c) = Read(k, v)
  BY <1>2, <1>3
<1> QED
  BY <1>4, <1>5, <1>6, <1>7, <1>8, <1>9, <1>10, <1>11, <1>12, <1>13, <1>14, <1>15, <1>16, <1>17

-----------------------------------------------------------------------------
(* run is the parser's way through the text s of n characters; what the    *)
(* text has at a place and between two places, and what the parser is in.  *)
Runs(run, s, n) == run[0] = StartLine /\ \A i \in 1 .. n : run[i] = ReadChar(run[i - 1], s[i])
Has(s, i, C) == s[i] \in C
All(s, a, b, C) == \A i \in a .. b : s[i] \in C
In(run, i, sw, k, v) == run[i] = Reading(sw, k, v)

LEMMA Turn ==
    ASSUME NEW run, NEW s, NEW n \in Nat, Runs(run, s, n), NEW i \in 0 .. n, i < n
    PROVE  run[i + 1] = ReadChar(run[i], s[i + 1])
<1>1. i + 1 \in 1 .. n /\ i + 1 - 1 = i
  OBVIOUS
<1> QED
  BY <1>1 DEF Runs

(* The parser waits in a state through characters that leave it there. *)
LEMMA Waits ==
    ASSUME NEW run, NEW s, NEW n \in Nat, Runs(run, s, n), NEW a \in 0 .. n, NEW b \in a .. n,
           NEW q, run[a] = q, NEW C, \A c \in C : ReadChar(q, c) = q, All(s, a + 1, b, C)
    PROVE  run[b] = q
<1> DEFINE S == {i \in a .. b : run[i] = q}
<1>1. a \in S
  OBVIOUS
<1>2. ASSUME NEW i \in a .. b, i \in S, i < b
      PROVE  i + 1 \in S
  <2>1. i \in 0 .. n /\ i < n /\ i + 1 \in a + 1 .. b /\ i + 1 \in a .. b
    BY <1>2
  <2>2. run[i + 1] = ReadChar(run[i], s[i + 1])
    BY <2>1, Turn
  <2>3. run[i] = q
    BY <1>2
  <2>4. s[i + 1] \in C
    BY <2>1 DEF All
  <2> QED
    BY <2>1, <2>2, <2>3, <2>4
<1>3. a \in Nat /\ b \in Nat /\ b \in a .. b
  OBVIOUS
<1>4. b \in S
  <2> HIDE DEF S
  <2> QED
    BY <1>1, <1>2, <1>3, UpTo
<1> QED
  BY <1>4

(* One character more, and a stretch of characters. *)
LEMMA Goes ==
    ASSUME NEW run, NEW s, NEW n \in Nat, Runs(run, s, n), NEW i \in 0 .. n, i < n,
           NEW sw, NEW to, NEW k, NEW v, NEW C, In(run, i, sw, k, v), Has(s, i + 1, C),
           \A c \in C : ReadChar(Reading(sw, k, v), c) = Reading(to, k, v)
    PROVE  In(run, i + 1, to, k, v)
<1>1. run[i + 1] = ReadChar(run[i], s[i + 1])
  BY Turn
<1> QED
  BY <1>1 DEF In, Has

LEMMA Remains ==
    ASSUME NEW run, NEW s, NEW n \in Nat, Runs(run, s, n), NEW a \in 0 .. n, NEW b \in a .. n,
           NEW sw, NEW k, NEW v, NEW C, In(run, a, sw, k, v), All(s, a + 1, b, C),
           \A c \in C : ReadChar(Reading(sw, k, v), c) = Reading(sw, k, v)
    PROVE  In(run, b, sw, k, v)
<1>1. PICK q : q = Reading(sw, k, v)
  OBVIOUS
<1>2. \A c \in C : ReadChar(q, c) = q
  BY <1>1
<1>3. run[a] = q
  BY <1>1 DEF In
<1>4. run[b] = q
  BY <1>2, <1>3, Waits
<1> QED
  BY <1>1, <1>4 DEF In

(* The version of the protocol is read up to the space after it. *)
LEMMA VersionRead ==
    ASSUME NEW run, NEW s, NEW n \in Nat, Runs(run, s, n), NEW dot \in 7 .. n, NEW sp \in dot + 2 .. n,
           Has(s, 1, {"H"}), Has(s, 2, {"T"}), Has(s, 3, {"T"}), Has(s, 4, {"P"}), Has(s, 5, {"/"}),
           Has(s, 6, Digit \ {"0"}), All(s, 7, dot - 1, Digit), Has(s, dot, {"."}),
           Has(s, dot + 1, Digit), All(s, dot + 2, sp - 1, Digit), Has(s, sp, {"SP"})
    PROVE  In(run, sp, "status", 0, 0)
<1>1. In(run, 0, "start", 0, 0)
  BY DEF Runs, Reading, StartLine, In
<1>2. /\ 0 \in 0 .. n /\ 0 < n /\ 1 \in 0 .. n /\ 1 < n /\ 2 \in 0 .. n /\ 2 < n
      /\ 3 \in 0 .. n /\ 3 < n /\ 4 \in 0 .. n /\ 4 < n /\ 5 \in 0 .. n /\ 5 < n
      /\ 0 + 1 = 1 /\ 1 + 1 = 2 /\ 2 + 1 = 3 /\ 3 + 1 = 4 /\ 4 + 1 = 5 /\ 5 + 1 = 6
  OBVIOUS
<1>3. /\ \A c \in {"H"} : ReadChar(Reading("start", 0, 0), c) = Reading("H", 0, 0)
      /\ \A c \in {"T"} : ReadChar(Reading("H", 0, 0), c) = Reading("HT", 0, 0)
      /\ \A c \in {"T"} : ReadChar(Reading("HT", 0, 0), c) = Reading("HTT", 0, 0)
      /\ \A c \in {"P"} : ReadChar(Reading("HTT", 0, 0), c) = Reading("HTTP", 0, 0)
      /\ \A c \in {"/"} : ReadChar(Reading("HTTP", 0, 0), c) = Reading("first_major", 0, 0)
      /\ \A c \in Digit \ {"0"} : ReadChar(Reading("first_major", 0, 0), c) = Reading("major", 0, 0)
  BY Turns
<1>4. In(run, 1, "H", 0, 0)
  BY <1>1, <1>2, <1>3, Goes
<1>5. In(run, 2, "HT", 0, 0)
  BY <1>2, <1>3, <1>4, Goes
<1>6. In(run, 3, "HTT", 0, 0)
  BY <1>2, <1>3, <1>5, Goes
<1>7. In(run, 4, "HTTP", 0, 0)
  BY <1>2, <1>3, <1>6, Goes
<1>8. In(run, 5, "first_major", 0, 0)
  BY <1>2, <1>3, <1>7, Goes
<1>9. In(run, 6, "major", 0, 0)
  BY <1>2, <1>3, <1>8, Goes
<1>10. In(run, dot - 1, "major", 0, 0)
  <2>1. 6 \in 0 .. n /\ dot - 1 \in 6 .. n /\ 6 + 1 = 7
    OBVIOUS
  <2>2. \A c \in Digit : ReadChar(Reading("major", 0, 0), c) = Reading("major", 0, 0)
    BY Turns
  <2> QED
    BY <1>9, <2>1, <2>2, Remains
<1>11. In(run, dot, "first_minor", 0, 0)
  <2>1. dot - 1 \in 0 .. n /\ dot - 1 < n /\ dot - 1 + 1 = dot
    OBVIOUS
  <2>2. \A c \in {"."} : ReadChar(Reading("major", 0, 0), c) = Reading("first_minor", 0, 0)
    BY Turns
  <2> QED
    BY <1>10, <2>1, <2>2, Goes
<1>12. In(run, dot + 1, "minor", 0, 0)
  <2>1. dot \in 0 .. n /\ dot < n
    OBVIOUS
  <2>2. \A c \in Digit : ReadChar(Reading("first_minor", 0, 0), c) = Reading("minor", 0, 0)
    BY Turns
  <2> QED
    BY <1>11, <2>1, <2>2, Goes
<1>13. In(run, sp - 1, "minor", 0, 0)
  <2>1. dot + 1 \in 0 .. n /\ sp - 1 \in dot + 1 .. n /\ dot + 1 + 1 = dot + 2
    OBVIOUS
  <2>2. \A c \in Digit : ReadChar(Reading("minor", 0, 0), c) = Reading("minor", 0, 0)
    BY Turns
  <2> QED
    BY <1>12, <2>1, <2>2, Remains
<1> QED
  <2>1. sp - 1 \in 0 .. n /\ sp - 1 < n /\ sp - 1 + 1 = sp
    OBVIOUS
  <2>2. \A c \in {"SP"} : ReadChar(Reading("minor", 0, 0), c) = Reading("status", 0, 0)
    BY Turns
  <2> QED
    BY <1>13, <2>1, <2>2, Goes

(* A digit of the status is read, with the spaces before it. *)
LEMMA DigitRead ==
    ASSUME NEW run, NEW s, NEW n \in Nat, Runs(run, s, n), NEW a \in 0 .. n, NEW d \in a + 1 .. n,
           NEW k \in Nat, NEW v \in Nat, In(run, a, "status", k, v),
           All(s, a + 1, d - 1, {"SP"}), Has(s, d, Digit)
    PROVE  In(run, d, IF k = 2 THEN "after_status" ELSE "status", k + 1, 10 * v + DigitOf[s[d]])
<1>1. In(run, d - 1, "status", k, v)
  <2>1. d - 1 \in a .. n
    OBVIOUS
  <2>2. \A c \in {"SP"} : ReadChar(Reading("status", k, v), c) = Reading("status", k, v)
    BY Turns
  <2> QED
    BY <2>1, <2>2, Remains
<1>2. d - 1 \in 0 .. n /\ d - 1 < n /\ d - 1 + 1 = d
  OBVIOUS
<1>3. run[d] = ReadChar(run[d - 1], s[d])
  BY <1>2, Turn
<1>4. run[d - 1] = Reading("status", k, v) /\ s[d] \in Digit
  BY <1>1 DEF In, Has
<1>5. PICK c \in Digit : c = s[d]
  BY <1>4
<1>6. run[d] = ReadChar(Reading("status", k, v), c)
  BY <1>3, <1>4, <1>5
<1>7. run[d] = Reading(IF k = 2 THEN "after_status" ELSE "status", k + 1, 10 * v + DigitOf[c])
  BY <1>6, ReadDigit
<1> QED
  BY <1>5, <1>7 DEF In

Value(s, d) == 100 * DigitOf[s[d[1]]] + 10 * DigitOf[s[d[2]]] + DigitOf[s[d[3]]]

(* The positions of a status line, in the terms above. *)
LEMMA LineParts ==
    ASSUME NEW s, NEW n \in Nat, NEW d \in (6 .. n) \X (6 .. n) \X (6 .. n),
           NEW dot \in 6 .. n, NEW sp \in 6 .. n, NEW lf \in 6 .. n, IsStatusLine(s, dot, sp, d, lf)
    PROVE  /\ dot \in 7 .. n /\ sp \in dot + 2 .. n
           /\ Has(s, 1, {"H"}) /\ Has(s, 2, {"T"}) /\ Has(s, 3, {"T"}) /\ Has(s, 4, {"P"}) /\ Has(s, 5, {"/"})
           /\ Has(s, 6, Digit \ {"0"}) /\ All(s, 7, dot - 1, Digit) /\ Has(s, dot, {"."})
           /\ Has(s, dot + 1, Digit) /\ All(s, dot + 2, sp - 1, Digit) /\ Has(s, sp, {"SP"})
           /\ d[1] \in sp + 1 .. n /\ d[2] \in d[1] + 1 .. n /\ d[3] \in d[2] + 1 .. n
           /\ Has(s, d[1], Digit) /\ Has(s, d[2], Digit) /\ Has(s, d[3], Digit)
           /\ All(s, sp + 1, d[1] - 1, {"SP"}) /\ All(s, d[1] + 1, d[2] - 1, {"SP"})
           /\ All(s, d[2] + 1, d[3] - 1, {"SP"})
           /\ lf \in d[3] + 1 .. n /\ Has(s, lf, {"LF"}) /\ Has(s, d[3] + 1, {"SP", ".", "CR", "LF"})
           /\ \A i \in d[3] + 1 .. lf - 1 : s[i] # "LF" /\ (s[i] = "CR" => i = lf - 1)
<1>1. d[1] \in 6 .. n /\ d[2] \in 6 .. n /\ d[3] \in 6 .. n
  OBVIOUS
<1>2. /\ \A i \in 1 .. 5 : s[i] = <<"H", "T", "T", "P", "/">>[i]
      /\ 7 <= dot /\ s[6] # "0" /\ (\A i \in 6 .. dot - 1 : s[i] \in Digit) /\ s[dot] = "."
      /\ dot + 2 <= sp /\ (\A i \in dot + 1 .. sp - 1 : s[i] \in Digit) /\ s[sp] = "SP"
      /\ sp < d[1] /\ d[1] < d[2] /\ d[2] < d[3] /\ \A k \in 1 .. 3 : s[d[k]] \in Digit
      /\ \A i \in sp + 1 .. d[3] : i \notin {d[1], d[2], d[3]} => s[i] = "SP"
      /\ d[3] < lf /\ s[d[3] + 1] \in {"SP", ".", "CR", "LF"} /\ s[lf] = "LF"
      /\ \A i \in d[3] + 1 .. lf - 1 : s[i] # "LF" /\ (s[i] = "CR" => i = lf - 1)
  BY DEF IsStatusLine
<1>3. Has(s, 1, {"H"}) /\ Has(s, 2, {"T"}) /\ Has(s, 3, {"T"}) /\ Has(s, 4, {"P"}) /\ Has(s, 5, {"/"})
  BY <1>2 DEF Has
<1>4. dot \in 7 .. n /\ Has(s, 6, Digit \ {"0"}) /\ All(s, 7, dot - 1, Digit) /\ Has(s, dot, {"."})
  BY <1>2 DEF Has, All
<1>5. sp \in dot + 2 .. n /\ Has(s, dot + 1, Digit) /\ All(s, dot + 2, sp - 1, Digit) /\ Has(s, sp, {"SP"})
  BY <1>2 DEF Has, All
<1>6. d[1] \in sp + 1 .. n /\ d[2] \in d[1] + 1 .. n /\ d[3] \in d[2] + 1 .. n
  BY <1>1, <1>2
<1>7. Has(s, d[1], Digit) /\ Has(s, d[2], Digit) /\ Has(s, d[3], Digit)
  BY <1>2 DEF Has
<1>8. /\ All(s, sp + 1, d[1] - 1, {"SP"}) /\ All(s, d[1] + 1, d[2] - 1, {"SP"})
      /\ All(s, d[2] + 1, d[3] - 1, {"SP"})
  <2>1. PICK d1 \in Int, d2 \in Int, d3 \in Int : d1 = d[1] /\ d2 = d[2] /\ d3 = d[3]
    BY <1>1
  <2>2. \A i \in sp + 1 .. d3 : i \notin {d1, d2, d3} => s[i] = "SP"
    BY <1>2, <2>1
  <2>3. sp < d1 /\ d1 < d2 /\ d2 < d3
    BY <1>2, <2>1
  <2>4. /\ All(s, sp + 1, d1 - 1, {"SP"}) /\ All(s, d1 + 1, d2 - 1, {"SP"})
        /\ All(s, d2 + 1, d3 - 1, {"SP"})
    BY <2>2, <2>3 DEF All
  <2> QED
    BY <2>1, <2>4
<1>9. /\ lf \in d[3] + 1 .. n /\ Has(s, lf, {"LF"}) /\ Has(s, d[3] + 1, {"SP", ".", "CR", "LF"})
      /\ \A i \in d[3] + 1 .. lf - 1 : s[i] # "LF" /\ (s[i] = "CR" => i = lf - 1)
  BY <1>1, <1>2 DEF Has
<1> QED
  BY <1>3, <1>4, <1>5, <1>6, <1>7, <1>8, <1>9

(* The rest of a line after its status. *)
LEMMA TextRead ==
    ASSUME NEW run, NEW s, NEW n \in Nat, Runs(run, s, n), NEW a \in 0 .. n, NEW lf \in a + 1 .. n,
           NEW k, NEW v, In(run, a, "after_status", k, v), Has(s, a + 1, {"SP", ".", "CR", "LF"}),
           \A i \in a + 1 .. lf - 1 : s[i] # "LF" /\ (s[i] = "CR" => i = lf - 1), Has(s, lf, {"LF"})
    PROVE  run[lf] = Read(k, v)
<1>1. s[lf] = "LF"
  BY DEF Has
<1>2. ASSUME NEW sw \in {"after_status", "text", "almost_done"}, In(run, lf - 1, sw, k, v)
      PROVE  run[lf] = Read(k, v)
  <2>1. lf - 1 \in 0 .. n /\ lf - 1 < n /\ lf - 1 + 1 = lf
    OBVIOUS
  <2>2. run[lf] = ReadChar(run[lf - 1], s[lf])
    BY <2>1, Turn
  <2>3. run[lf] = ReadChar(Reading(sw, k, v), "LF")
    BY <1>1, <1>2, <2>2 DEF In
  <2> QED
    BY <2>3, Turns
<1>3. CASE lf = a + 1
  BY <1>2, <1>3
<1>4. CASE lf # a + 1
  <2>1. a + 1 \in a + 1 .. lf - 1 /\ lf - 1 \in a + 1 .. lf - 1
    BY <1>4
  <2>2. s[a + 1] \in {"SP", ".", "CR"}
    BY <2>1 DEF Has
  <2>3. CASE s[a + 1] = "CR"
    <3>1. a + 1 = lf - 1
      BY <2>1, <2>3
    <3>2. In(run, a + 1, "almost_done", k, v)
      <4>1. \A c \in {"CR"} : ReadChar(Reading("after_status", k, v), c) = Reading("almost_done", k, v)
        BY Turns
      <4>2. Has(s, a + 1, {"CR"})
        BY <2>3 DEF Has
      <4>3. a < n
        OBVIOUS
      <4> QED
        BY <4>1, <4>2, <4>3, Goes
    <3> QED
      BY <1>2, <3>1, <3>2
  <2>4. CASE s[a + 1] # "CR"
    <3>1. In(run, a + 1, "text", k, v)
      <4>1. \A c \in {"SP", "."} : ReadChar(Reading("after_status", k, v), c) = Reading("text", k, v)
        BY Turns
      <4>2. Has(s, a + 1, {"SP", "."})
        BY <2>2, <2>4 DEF Has
      <4>3. a < n
        OBVIOUS
      <4> QED
        BY <4>1, <4>2, <4>3, Goes
    <3>2. CASE s[lf - 1] = "CR"
      <4>1. lf - 2 \in a + 1 .. n /\ a + 1 \in 0 .. n /\ lf - 2 \in 0 .. n /\ lf - 2 < n /\ lf - 2 + 1 = lf - 1
        <5>1. lf - 1 # a + 1
          BY <2>4, <3>2
        <5> QED
          BY <2>1, <5>1
      <4>2. PICK C : C = {s[i] : i \in a + 1 + 1 .. lf - 2}
        OBVIOUS
      <4>3. \A c \in C : c \notin {"CR", "LF"}
        BY <4>2
      <4>4. \A c \in C : ReadChar(Reading("text", k, v), c) = Reading("text", k, v)
        BY <4>3, Turns
      <4>5. All(s, a + 1 + 1, lf - 2, C)
        BY <4>2 DEF All
      <4>6. In(run, lf - 2, "text", k, v)
        BY <3>1, <4>1, <4>4, <4>5, Remains
      <4>7. In(run, lf - 1, "almost_done", k, v)
        <5>1. \A c \in {"CR"} : ReadChar(Reading("text", k, v), c) = Reading("almost_done", k, v)
          BY Turns
        <5>2. Has(s, lf - 1, {"CR"})
          BY <3>2 DEF Has
        <5> QED
          BY <4>1, <4>6, <5>1, <5>2, Goes
      <4> QED
        BY <1>2, <4>7
    <3>3. CASE s[lf - 1] # "CR"
      <4>1. lf - 1 \in a + 1 .. n /\ a + 1 \in 0 .. n
        BY <2>1
      <4>2. PICK C : C = {s[i] : i \in a + 1 + 1 .. lf - 1}
        OBVIOUS
      <4>3. \A c \in C : c \notin {"CR", "LF"}
        BY <3>3, <4>2
      <4>4. \A c \in C : ReadChar(Reading("text", k, v), c) = Reading("text", k, v)
        BY <4>3, Turns
      <4>5. All(s, a + 1 + 1, lf - 1, C)
        BY <4>2 DEF All
      <4>6. In(run, lf - 1, "text", k, v)
        BY <3>1, <4>1, <4>4, <4>5, Remains
      <4> QED
        BY <1>2, <4>6
    <3> QED
      BY <3>2, <3>3
  <2> QED
    BY <2>3, <2>4
<1> QED
  BY <1>3, <1>4

(* A status line is read, and its status. *)
LEMMA LineRead ==
    ASSUME NEW run, NEW s, NEW n \in Nat, Runs(run, s, n), NEW d \in (6 .. n) \X (6 .. n) \X (6 .. n),
           NEW dot \in 6 .. n, NEW sp \in 6 .. n, NEW lf \in 6 .. n, IsStatusLine(s, dot, sp, d, lf)
    PROVE  run[n] = Read(3, Value(s, d))
<1>1. PICK d1, d2, d3 : d1 = d[1] /\ d2 = d[2] /\ d3 = d[3]
  OBVIOUS
<1>2. /\ dot \in 7 .. n /\ sp \in dot + 2 .. n
      /\ Has(s, 1, {"H"}) /\ Has(s, 2, {"T"}) /\ Has(s, 3, {"T"}) /\ Has(s, 4, {"P"}) /\ Has(s, 5, {"/"})
      /\ Has(s, 6, Digit \ {"0"}) /\ All(s, 7, dot - 1, Digit) /\ Has(s, dot, {"."})
      /\ Has(s, dot + 1, Digit) /\ All(s, dot + 2, sp - 1, Digit) /\ Has(s, sp, {"SP"})
  BY LineParts
<1>3. /\ d1 \in sp + 1 .. n /\ d2 \in d1 + 1 .. n /\ d3 \in d2 + 1 .. n
      /\ Has(s, d1, Digit) /\ Has(s, d2, Digit) /\ Has(s, d3, Digit)
      /\ All(s, sp + 1, d1 - 1, {"SP"}) /\ All(s, d1 + 1, d2 - 1, {"SP"}) /\ All(s, d2 + 1, d3 - 1, {"SP"})
      /\ lf \in d3 + 1 .. n /\ Has(s, lf, {"LF"}) /\ Has(s, d3 + 1, {"SP", ".", "CR", "LF"})
      /\ \A i \in d3 + 1 .. lf - 1 : s[i] # "LF" /\ (s[i] = "CR" => i = lf - 1)
  BY <1>1, LineParts, SMTT(30)
<1>4. In(run, sp, "status", 0, 0)
  BY <1>2, VersionRead
<1>5. PICK v1 \in Nat, v2 \in Nat, v3 \in Nat : v1 = DigitOf[s[d1]] /\ v2 = DigitOf[s[d2]] /\ v3 = DigitOf[s[d3]]
  <2>1. s[d1] \in Digit /\ s[d2] \in Digit /\ s[d3] \in Digit
    BY <1>3 DEF Has
  <2>2. DigitOf[s[d1]] \in 0 .. 9 /\ DigitOf[s[d2]] \in 0 .. 9 /\ DigitOf[s[d3]] \in 0 .. 9
    BY <2>1, DigitValue
  <2> QED
    BY <2>2
<1>6. sp \in 0 .. n /\ d1 \in 0 .. n /\ d2 \in 0 .. n /\ d3 \in 0 .. n
  BY <1>2, <1>3
<1>7. In(run, d1, "status", 1, v1)
  <2>1. In(run, d1, IF 0 = 2 THEN "after_status" ELSE "status", 0 + 1, 10 * 0 + DigitOf[s[d1]])
    BY <1>3, <1>4, <1>6, DigitRead
  <2> QED
    BY <1>5, <2>1
<1>8. In(run, d2, "status", 2, 10 * v1 + v2)
  <2>1. In(run, d2, IF 1 = 2 THEN "after_status" ELSE "status", 1 + 1, 10 * v1 + DigitOf[s[d2]])
    BY <1>3, <1>7, <1>6, DigitRead
  <2> QED
    BY <1>5, <2>1
<1>9. PICK v12 \in Nat : v12 = 10 * v1 + v2
  OBVIOUS
<1>10. In(run, d3, "after_status", 3, 10 * v12 + v3)
  <2>1. In(run, d3, IF 2 = 2 THEN "after_status" ELSE "status", 2 + 1, 10 * v12 + DigitOf[s[d3]])
    BY <1>3, <1>8, <1>9, <1>6, DigitRead
  <2> QED
    BY <1>5, <2>1
<1>11. PICK v : v = Value(s, d)
  OBVIOUS
<1>12. v = 10 * v12 + v3
  <2>1. Value(s, d) = 100 * v1 + 10 * v2 + v3
    BY <1>1, <1>5 DEF Value
  <2> QED
    BY <1>9, <1>11, <2>1
<1>13. In(run, d3, "after_status", 3, v)
  BY <1>10, <1>12
<1>14. run[lf] = Read(3, v)
  BY <1>3, <1>6, <1>13, TextRead
<1> QED
  <2>1. PICK q : q = Read(3, v)
    OBVIOUS
  <2>2. PICK C : C = {s[i] : i \in lf + 1 .. n}
    OBVIOUS
  <2>3. \A c \in C : ReadChar(q, c) = q
    BY <2>1, Turns
  <2>4. All(s, lf + 1, n, C)
    BY <2>2 DEF All
  <2>5. lf \in 0 .. n /\ n \in lf .. n
    OBVIOUS
  <2>6. run[n] = q
    BY <1>14, <2>1, <2>3, <2>4, <2>5, Waits
  <2> QED
    BY <1>11, <2>1, <2>6

-----------------------------------------------------------------------------
(* What the text begins with when the parser is in a state after i         *)
(* characters: the converse.                                               *)
Http(s, i) == \A j \in 1 .. i : s[j] = <<"H", "T", "T", "P", "/">>[j]
Major(s, i) == 6 <= i /\ Http(s, 5) /\ Has(s, 6, Digit \ {"0"}) /\ All(s, 7, i, Digit)
Dot(s, dot) == Major(s, dot - 1) /\ Has(s, dot, {"."})
Minor(s, i) == \E dot \in 6 .. i : dot < i /\ Dot(s, dot) /\ All(s, dot + 1, i, Digit)
Version(s, dot, sp) == Dot(s, dot) /\ dot + 2 <= sp /\ All(s, dot + 1, sp - 1, Digit) /\ Has(s, sp, {"SP"})
NextDigit(s, a, d) == a < d /\ All(s, a + 1, d - 1, {"SP"}) /\ Has(s, d, Digit)
Three(s, dot, sp, d1, d2, d3) ==
    Version(s, dot, sp) /\ NextDigit(s, sp, d1) /\ NextDigit(s, d1, d2) /\ NextDigit(s, d2, d3)

None(s, i) == \E dot, sp \in 6 .. i : Version(s, dot, sp) /\ All(s, sp + 1, i, {"SP"})
One(s, i) == \E dot, sp, d1 \in 6 .. i :
    Version(s, dot, sp) /\ NextDigit(s, sp, d1) /\ All(s, d1 + 1, i, {"SP"})
Two(s, i) == \E dot, sp, d1, d2 \in 6 .. i :
    Version(s, dot, sp) /\ NextDigit(s, sp, d1) /\ NextDigit(s, d1, d2) /\ All(s, d2 + 1, i, {"SP"})
Status(s, i) == \E dot, sp, d1, d2 \in 6 .. i : Three(s, dot, sp, d1, d2, i)
InText(s, i) == \E dot, sp, d1, d2, d3 \in 6 .. i :
    /\ Three(s, dot, sp, d1, d2, d3) /\ d3 < i /\ Has(s, d3 + 1, {"SP", "."})
    /\ \A j \in d3 + 1 .. i : s[j] \notin {"CR", "LF"}
AtCr(s, i) == \E dot, sp, d1, d2, d3 \in 6 .. i :
    /\ Three(s, dot, sp, d1, d2, d3) /\ d3 < i /\ Has(s, d3 + 1, {"SP", ".", "CR"}) /\ s[i] = "CR"
    /\ \A j \in d3 + 1 .. i - 1 : s[j] \notin {"CR", "LF"}
Line(s, i) == \E d \in (6 .. i) \X (6 .. i) \X (6 .. i), dot, sp, lf \in 6 .. i : IsStatusLine(s, dot, sp, d, lf)

Prefix(s, i, sw, k) ==
    \/ sw = "start" /\ i = 0
    \/ sw = "H" /\ i = 1 /\ Http(s, 1)
    \/ sw = "HT" /\ i = 2 /\ Http(s, 2)
    \/ sw = "HTT" /\ i = 3 /\ Http(s, 3)
    \/ sw = "HTTP" /\ i = 4 /\ Http(s, 4)
    \/ sw = "first_major" /\ i = 5 /\ Http(s, 5)
    \/ sw = "major" /\ Major(s, i)
    \/ sw = "first_minor" /\ Dot(s, i) /\ 7 <= i
    \/ sw = "minor" /\ Minor(s, i)
    \/ sw = "status" /\ k = 0 /\ None(s, i)
    \/ sw = "status" /\ k = 1 /\ One(s, i)
    \/ sw = "status" /\ k = 2 /\ Two(s, i)
    \/ sw = "after_status" /\ Status(s, i)
    \/ sw = "text" /\ InText(s, i)
    \/ sw = "almost_done" /\ AtCr(s, i)

(* The digits of the version are read with the count of the status at 0.   *)
EarlySw == {"start", "H", "HT", "HTT", "HTTP", "first_major", "major", "first_minor", "minor"}
Sound(s, i, q) ==
    \/ q.ret = "ERROR"
    \/ q.ret = "OK" /\ Line(s, i)
    \/ \E sw : \E k, v \in Nat : q = Reading(sw, k, v) /\ Prefix(s, i, sw, k) /\ (sw \in EarlySw => k = 0)

(* The three digits of the status and the end of the line make the line. *)
LEMMA LineMade ==
    ASSUME NEW s, NEW lf \in Nat, NEW dot \in 6 .. lf, NEW sp \in 6 .. lf,
           NEW d1 \in 6 .. lf, NEW d2 \in 6 .. lf, NEW d3 \in 6 .. lf,
           Three(s, dot, sp, d1, d2, d3), d3 < lf, Has(s, d3 + 1, {"SP", ".", "CR", "LF"}), s[lf] = "LF",
           \A i \in d3 + 1 .. lf - 1 : s[i] # "LF" /\ (s[i] = "CR" => i = lf - 1)
    PROVE  Line(s, lf)
<1> DEFINE d == <<d1, d2, d3>>
<1>1. d[1] = d1 /\ d[2] = d2 /\ d[3] = d3 /\ d \in (6 .. lf) \X (6 .. lf) \X (6 .. lf)
  OBVIOUS
<1> HIDE DEF d
<1>2. /\ Version(s, dot, sp) /\ NextDigit(s, sp, d1) /\ NextDigit(s, d1, d2) /\ NextDigit(s, d2, d3)
  BY DEF Three
<1>3. Http(s, 5) /\ 6 <= dot - 1 /\ Has(s, 6, Digit \ {"0"}) /\ All(s, 7, dot - 1, Digit) /\ Has(s, dot, {"."})
  BY <1>2 DEF Version, Dot, Major
<1>4. \A i \in 1 .. 5 : s[i] = <<"H", "T", "T", "P", "/">>[i]
  BY <1>3 DEF Http
<1>5. 7 <= dot /\ s[6] # "0" /\ (\A i \in 6 .. dot - 1 : s[i] \in Digit) /\ s[dot] = "."
  <2>1. s[6] \in Digit /\ s[6] # "0" /\ s[dot] = "."
    BY <1>3 DEF Has
  <2>2. \A i \in 7 .. dot - 1 : s[i] \in Digit
    BY <1>3 DEF All
  <2>3. ASSUME NEW i \in 6 .. dot - 1
        PROVE  s[i] \in Digit
    <3>1. i = 6 \/ i \in 7 .. dot - 1
      OBVIOUS
    <3> QED
      BY <2>1, <2>2, <3>1
  <2> QED
    BY <1>3, <2>1, <2>3
<1>6. dot + 2 <= sp /\ (\A i \in dot + 1 .. sp - 1 : s[i] \in Digit) /\ s[sp] = "SP"
  BY <1>2 DEF Version, All, Has
<1>7. sp < d1 /\ d1 < d2 /\ d2 < d3 /\ s[d1] \in Digit /\ s[d2] \in Digit /\ s[d3] \in Digit
  BY <1>2 DEF NextDigit, Has
<1>8. \A k \in 1 .. 3 : s[d[k]] \in Digit
  <2>1. \A k \in 1 .. 3 : k = 1 \/ k = 2 \/ k = 3
    OBVIOUS
  <2> QED
    BY <1>1, <1>7, <2>1
<1>9. \A i \in sp + 1 .. d3 : i \notin {d1, d2, d3} => s[i] = "SP"
  <2>1. /\ \A i \in sp + 1 .. d1 - 1 : s[i] \in {"SP"}
        /\ \A i \in d1 + 1 .. d2 - 1 : s[i] \in {"SP"}
        /\ \A i \in d2 + 1 .. d3 - 1 : s[i] \in {"SP"}
    BY <1>2 DEF NextDigit, All
  <2>2. ASSUME NEW i \in sp + 1 .. d3, i \notin {d1, d2, d3}
        PROVE  i \in sp + 1 .. d1 - 1 \/ i \in d1 + 1 .. d2 - 1 \/ i \in d2 + 1 .. d3 - 1
    BY <1>7, <2>2
  <2> QED
    BY <2>1, <2>2
<1>10. s[d3 + 1] \in {"SP", ".", "CR", "LF"}
  BY DEF Has
<1>11. IsStatusLine(s, dot, sp, d, lf)
  BY <1>1, <1>4, <1>5, <1>6, <1>7, <1>8, <1>9, <1>10 DEF IsStatusLine
<1>12. lf \in 6 .. lf
  OBVIOUS
<1> QED
  BY <1>1, <1>11, <1>12 DEF Line

(* One turn that does not read a digit of the status. *)
LEMMA SoundTurn ==
    ASSUME NEW s, NEW i \in Nat, NEW sw, NEW k \in Nat, NEW v \in Nat, NEW c, sw # "status" \/ c \notin Digit,
           NEW to, to = NextSw(sw, c),
           \/ to = "error"
           \/ to = "done" /\ Line(s, i)
           \/ to \notin {"error", "done"} /\ Prefix(s, i, to, k) /\ (to \in EarlySw => k = 0)
    PROVE  Sound(s, i, ReadChar(Reading(sw, k, v), c))
<1>1. PICK q : q = ReadChar(Reading(sw, k, v), c)
  OBVIOUS
<1>2. /\ to = "error" => q.ret = "ERROR"
      /\ to = "done" => q = Read(k, v)
      /\ to \notin {"error", "done"} => q = Reading(to, k, v)
  BY <1>1, ReadOther
<1>3. CASE to = "error"
  BY <1>1, <1>2, <1>3 DEF Sound
<1>4. CASE to = "done"
  <2>1. q.ret = "OK"
    BY <1>2, <1>4 DEF Read
  <2> QED
    BY <1>1, <1>4, <2>1 DEF Sound
<1>5. CASE to \notin {"error", "done"}
  <2>1. q = Reading(to, k, v)
    BY <1>2, <1>5
  <2>2. \E w : \E k2, v2 \in Nat : q = Reading(w, k2, v2) /\ Prefix(s, i, w, k2) /\ (w \in EarlySw => k2 = 0)
    BY <1>5, <2>1
  <2> QED
    BY <1>1, <2>2 DEF Sound
<1> QED
  BY <1>3, <1>4, <1>5

(* A stretch and one character more. *)
LEMMA AllMore ==
    ASSUME NEW s, NEW a \in Int, NEW b \in Int, NEW C, All(s, a, b, C), Has(s, b + 1, C)
    PROVE  All(s, a, b + 1, C)
<1>1. SUFFICES ASSUME NEW i \in a .. b + 1
               PROVE  s[i] \in C
  BY DEF All
<1>2. i \in a .. b \/ i = b + 1
  OBVIOUS
<1> QED
  BY <1>2 DEF All, Has

LEMMA AllEmpty ==
    ASSUME NEW s, NEW a \in Int, NEW C
    PROVE  All(s, a + 1, a, C)
<1>1. a + 1 .. a = {}
  OBVIOUS
<1> QED
  BY <1>1 DEF All

LEMMA PrefixFacts ==
    ASSUME NEW s, NEW n, NEW k
    PROVE  /\ n = 1 /\ Http(s, 1) => Prefix(s, n, "H", k)
           /\ n = 2 /\ Http(s, 2) => Prefix(s, n, "HT", k)
           /\ n = 3 /\ Http(s, 3) => Prefix(s, n, "HTT", k)
           /\ n = 4 /\ Http(s, 4) => Prefix(s, n, "HTTP", k)
           /\ n = 5 /\ Http(s, 5) => Prefix(s, n, "first_major", k)
           /\ Major(s, n) => Prefix(s, n, "major", k)
           /\ Dot(s, n) /\ 7 <= n => Prefix(s, n, "first_minor", k)
           /\ Minor(s, n) => Prefix(s, n, "minor", k)
           /\ k = 0 /\ None(s, n) => Prefix(s, n, "status", k)
           /\ k = 1 /\ One(s, n) => Prefix(s, n, "status", k)
           /\ k = 2 /\ Two(s, n) => Prefix(s, n, "status", k)
           /\ Status(s, n) => Prefix(s, n, "after_status", k)
           /\ InText(s, n) => Prefix(s, n, "text", k)
           /\ AtCr(s, n) => Prefix(s, n, "almost_done", k)
  BY Zenon DEF Prefix

(* A turn after a prefix of "HTTP/" and the digits of the version. *)
LEMMA SoundVersion ==
    ASSUME NEW s, NEW i \in Nat, NEW sw \in EarlySw, NEW v \in Nat, Prefix(s, i, sw, 0)
    PROVE  Sound(s, i + 1, ReadChar(Reading(sw, 0, v), s[i + 1]))
<1>1. PICK c : c = s[i + 1]
  OBVIOUS
<1>2. PICK to : to = NextSw(sw, c)
  OBVIOUS
<1> DEFINE Ok(w) == w = "error" \/ (w \notin {"error", "done"} /\ Prefix(s, i + 1, w, 0))
<1>3. SUFFICES Ok(to)
  <2>1. sw # "status" /\ i + 1 \in Nat
    BY DEF EarlySw
  <2> QED
    BY <1>1, <1>2, <1>3, <2>1, SoundTurn
<1>16. \A w : w = "error" => Ok(w)
  OBVIOUS
<1>17. ASSUME NEW w \in EarlySw \cup {"status"}, Prefix(s, i + 1, w, 0)
       PROVE  Ok(w)
  BY <1>17 DEF EarlySw
<1>19. /\ "H" \in EarlySw /\ "HT" \in EarlySw /\ "HTT" \in EarlySw /\ "HTTP" \in EarlySw
       /\ "first_major" \in EarlySw /\ "major" \in EarlySw /\ "first_minor" \in EarlySw
       /\ "minor" \in EarlySw /\ "status" \in EarlySw \cup {"status"}
  BY DEF EarlySw
<1> HIDE DEF Ok
<1>4. Http(s, 0)
  BY DEF Http
<1>5. ASSUME NEW j \in 0 .. 4, Http(s, j), s[j + 1] = <<"H", "T", "T", "P", "/">>[j + 1]
      PROVE  Http(s, j + 1)
  <2>1. \A m \in 1 .. j + 1 : m \in 1 .. j \/ m = j + 1
    OBVIOUS
  <2> QED
    BY <1>5, <2>1 DEF Http
<1>6. /\ <<"H", "T", "T", "P", "/">>[1] = "H" /\ <<"H", "T", "T", "P", "/">>[2] = "T"
      /\ <<"H", "T", "T", "P", "/">>[3] = "T" /\ <<"H", "T", "T", "P", "/">>[4] = "P"
      /\ <<"H", "T", "T", "P", "/">>[5] = "/"
  OBVIOUS
<1>7. CASE sw = "start"
  <2>1. i = 0
    BY <1>7 DEF Prefix
  <2>2. to = IF c = "H" THEN "H" ELSE "error"
    BY <1>2, <1>7, NextSwOf
  <2>3. CASE c = "H"
    <3>1. 0 \in 0 .. 4 /\ 0 + 1 = 1
      OBVIOUS
    <3>2. Http(s, 1)
      BY <1>1, <1>4, <1>5, <1>6, <2>1, <2>3, <3>1
    <3> QED
      BY <1>17, <1>19, PrefixFacts, <2>1, <2>2, <2>3, <3>2
  <2> QED
    BY <1>16, <2>2, <2>3
<1>8. CASE sw = "H"
  <2>1. i = 1 /\ Http(s, 1)
    BY <1>8 DEF Prefix
  <2>2. to = IF c = "T" THEN "HT" ELSE "error"
    BY <1>2, <1>8, NextSwOf
  <2>3. CASE c = "T"
    <3>1. 1 \in 0 .. 4 /\ 1 + 1 = 2
      OBVIOUS
    <3>2. Http(s, 2)
      BY <1>1, <1>5, <1>6, <2>1, <2>3, <3>1
    <3> QED
      BY <1>17, <1>19, PrefixFacts, <2>1, <2>2, <2>3, <3>2
  <2> QED
    BY <1>16, <2>2, <2>3
<1>9. CASE sw = "HT"
  <2>1. i = 2 /\ Http(s, 2)
    BY <1>9 DEF Prefix
  <2>2. to = IF c = "T" THEN "HTT" ELSE "error"
    BY <1>2, <1>9, NextSwOf
  <2>3. CASE c = "T"
    <3>1. 2 \in 0 .. 4 /\ 2 + 1 = 3
      OBVIOUS
    <3>2. Http(s, 3)
      BY <1>1, <1>5, <1>6, <2>1, <2>3, <3>1
    <3> QED
      BY <1>17, <1>19, PrefixFacts, <2>1, <2>2, <2>3, <3>2
  <2> QED
    BY <1>16, <2>2, <2>3
<1>10. CASE sw = "HTT"
  <2>1. i = 3 /\ Http(s, 3)
    BY <1>10 DEF Prefix
  <2>2. to = IF c = "P" THEN "HTTP" ELSE "error"
    BY <1>2, <1>10, NextSwOf
  <2>3. CASE c = "P"
    <3>1. 3 \in 0 .. 4 /\ 3 + 1 = 4
      OBVIOUS
    <3>2. Http(s, 4)
      BY <1>1, <1>5, <1>6, <2>1, <2>3, <3>1
    <3> QED
      BY <1>17, <1>19, PrefixFacts, <2>1, <2>2, <2>3, <3>2
  <2> QED
    BY <1>16, <2>2, <2>3
<1>11. CASE sw = "HTTP"
  <2>1. i = 4 /\ Http(s, 4)
    BY <1>11 DEF Prefix
  <2>2. to = IF c = "/" THEN "first_major" ELSE "error"
    BY <1>2, <1>11, NextSwOf
  <2>3. CASE c = "/"
    <3>1. 4 \in 0 .. 4 /\ 4 + 1 = 5
      OBVIOUS
    <3>2. Http(s, 5)
      BY <1>1, <1>5, <1>6, <2>1, <2>3, <3>1
    <3> QED
      BY <1>17, <1>19, PrefixFacts, <2>1, <2>2, <2>3, <3>2
  <2> QED
    BY <1>16, <2>2, <2>3
<1>12. CASE sw = "first_major"
  <2>1. i = 5 /\ Http(s, 5)
    BY <1>12 DEF Prefix
  <2>2. to = IF c \in Digit \ {"0"} THEN "major" ELSE "error"
    BY <1>2, <1>12, NextSwOf
  <2>3. CASE c \in Digit \ {"0"}
    <3>1. Has(s, 6, Digit \ {"0"}) /\ All(s, 6 + 1, 6, Digit)
      BY <1>1, <2>1, <2>3, AllEmpty DEF Has
    <3>2. Major(s, 6)
      BY <2>1, <3>1 DEF Major
    <3> QED
      BY <1>17, <1>19, PrefixFacts, <2>1, <2>2, <2>3, <3>2
  <2> QED
    BY <1>16, <2>2, <2>3
<1>13. CASE sw = "major"
  <2>1. Major(s, i)
    BY <1>13 DEF Prefix
  <2>2. to = IF c = "." THEN "first_minor" ELSE IF c \in Digit THEN "major" ELSE "error"
    BY <1>2, <1>13, NextSwOf
  <2>3. CASE c = "."
    <3>1. Dot(s, i + 1) /\ 7 <= i + 1
      <4>1. i + 1 - 1 = i /\ 7 <= i + 1
        BY <2>1 DEF Major
      <4> QED
        BY <1>1, <2>1, <2>3, <4>1 DEF Dot, Has
    <3> QED
      BY <1>17, <1>19, PrefixFacts, <2>2, <2>3, <3>1
  <2>4. CASE c \in Digit /\ c # "."
    <3>1. All(s, 7, i, Digit) /\ Has(s, i + 1, Digit)
      BY <1>1, <2>1, <2>4 DEF Major, Has
    <3>2. All(s, 7, i + 1, Digit)
      BY <3>1, AllMore
    <3>3. Major(s, i + 1)
      BY <2>1, <3>2 DEF Major
    <3> QED
      BY <1>17, <1>19, PrefixFacts, <2>2, <2>4, <3>3
  <2> QED
    BY <1>16, <2>2, <2>3, <2>4
<1>14. CASE sw = "first_minor"
  <2>1. Dot(s, i) /\ 7 <= i
    BY <1>14 DEF Prefix
  <2>2. to = IF c \in Digit THEN "minor" ELSE "error"
    BY <1>2, <1>14, NextSwOf
  <2>3. CASE c \in Digit
    <3>1. All(s, i + 1, i, Digit) /\ Has(s, i + 1, Digit)
      BY <1>1, <2>3, AllEmpty DEF Has
    <3>2. All(s, i + 1, i + 1, Digit)
      BY <3>1, AllMore
    <3>3. i \in 6 .. i + 1 /\ i < i + 1
      BY <2>1
    <3>4. Minor(s, i + 1)
      BY <2>1, <3>2, <3>3 DEF Minor
    <3> QED
      BY <1>17, <1>19, PrefixFacts, <2>2, <2>3, <3>4
  <2> QED
    BY <1>16, <2>2, <2>3
<1>15. CASE sw = "minor"
  <2>1. Minor(s, i)
    BY <1>15 DEF Prefix
  <2>2. to = IF c = "SP" THEN "status" ELSE IF c \in Digit THEN "minor" ELSE "error"
    BY <1>2, <1>15, NextSwOf
  <2>3. PICK dot \in 6 .. i : dot < i /\ Dot(s, dot) /\ All(s, dot + 1, i, Digit)
    BY <2>1 DEF Minor
  <2>4. dot \in 6 .. i + 1 /\ i + 1 \in 6 .. i + 1 /\ dot < i + 1 /\ dot + 2 <= i + 1 /\ i + 1 - 1 = i
    BY <2>3
  <2>5. CASE c = "SP"
    <3>1. Has(s, i + 1, {"SP"})
      BY <1>1, <2>5 DEF Has
    <3>2. Version(s, dot, i + 1)
      BY <2>3, <2>4, <3>1 DEF Version
    <3>3. All(s, i + 1 + 1, i + 1, {"SP"})
      BY AllEmpty
    <3>4. None(s, i + 1)
      BY <2>4, <3>2, <3>3 DEF None
    <3> QED
      BY <1>17, <1>19, PrefixFacts, <2>2, <2>5, <3>4
  <2>6. CASE c \in Digit /\ c # "SP"
    <3>1. Has(s, i + 1, Digit)
      BY <1>1, <2>6 DEF Has
    <3>2. All(s, dot + 1, i + 1, Digit)
      BY <2>3, <3>1, AllMore
    <3>3. Minor(s, i + 1)
      BY <2>3, <2>4, <3>2 DEF Minor
    <3> QED
      BY <1>17, <1>19, PrefixFacts, <2>2, <2>6, <3>3
  <2> QED
    BY <1>16, <2>2, <2>5, <2>6
<1> QED
  BY <1>7, <1>8, <1>9, <1>10, <1>11, <1>12, <1>13, <1>14, <1>15 DEF EarlySw

(* The digits of the status, with the spaces among them. *)
LEMMA SoundStatus ==
    ASSUME NEW s, NEW i \in Nat, NEW k \in Nat, NEW v \in Nat, Prefix(s, i, "status", k)
    PROVE  Sound(s, i + 1, ReadChar(Reading("status", k, v), s[i + 1]))
<1>1. PICK c : c = s[i + 1]
  OBVIOUS
<1>2. i + 1 \in Nat
  OBVIOUS
<1>3. \/ k = 0 /\ None(s, i)
      \/ k = 1 /\ One(s, i)
      \/ k = 2 /\ Two(s, i)
  BY Zenon DEF Prefix
<1>4. CASE c \in Digit
  <2>1. ReadChar(Reading("status", k, v), c) =
           Reading(IF k = 2 THEN "after_status" ELSE "status", k + 1, 10 * v + DigitOf[c])
    BY <1>4, ReadDigit
  <2>2. PICK v2 \in Nat : v2 = 10 * v + DigitOf[c]
    <3>1. DigitOf[c] \in 0 .. 9
      BY <1>4, DigitValue
    <3> QED
      BY <3>1
  <2>3. PICK to : to = IF k = 2 THEN "after_status" ELSE "status"
    OBVIOUS
  <2>4. PICK k2 \in Nat : k2 = k + 1
    OBVIOUS
  <2>5. SUFFICES Prefix(s, i + 1, to, k2)
    <3>1. to \notin EarlySw
      BY <2>3 DEF EarlySw
    <3>2. ReadChar(Reading("status", k, v), c) = Reading(to, k2, v2)
      BY <2>1, <2>2, <2>3, <2>4
    <3> QED
      BY <1>1, <2>5, <3>1, <3>2 DEF Sound
  <2>6. ASSUME NEW a \in 6 .. i, All(s, a + 1, i, {"SP"})
        PROVE  NextDigit(s, a, i + 1)
    <3>1. a < i + 1 /\ i + 1 - 1 = i
      OBVIOUS
    <3> QED
      BY <1>1, <1>4, <2>6, <3>1 DEF NextDigit, Has
  <2>7. All(s, i + 1 + 1, i + 1, {"SP"})
    BY AllEmpty
  <2>8. \A j \in 6 .. i : j \in 6 .. i + 1 /\ i + 1 \in 6 .. i + 1
    OBVIOUS
  <2>9. CASE k = 0 /\ None(s, i)
    <3>1. PICK dot \in 6 .. i, sp \in 6 .. i : Version(s, dot, sp) /\ All(s, sp + 1, i, {"SP"})
      BY <2>9 DEF None
    <3>2. One(s, i + 1)
      BY <2>6, <2>7, <2>8, <3>1 DEF One
    <3> QED
      BY <2>3, <2>4, <2>9, <3>2, PrefixFacts
  <2>10. CASE k = 1 /\ One(s, i)
    <3>1. PICK dot \in 6 .. i, sp \in 6 .. i, d1 \in 6 .. i :
             Version(s, dot, sp) /\ NextDigit(s, sp, d1) /\ All(s, d1 + 1, i, {"SP"})
      BY <2>10 DEF One
    <3>2. Two(s, i + 1)
      BY <2>6, <2>7, <2>8, <3>1 DEF Two
    <3> QED
      BY <2>3, <2>4, <2>10, <3>2, PrefixFacts
  <2>11. CASE k = 2 /\ Two(s, i)
    <3>1. PICK dot \in 6 .. i, sp \in 6 .. i, d1 \in 6 .. i, d2 \in 6 .. i :
             Version(s, dot, sp) /\ NextDigit(s, sp, d1) /\ NextDigit(s, d1, d2) /\ All(s, d2 + 1, i, {"SP"})
      BY <2>11 DEF Two
    <3>2. Status(s, i + 1)
      BY <2>6, <2>8, <3>1 DEF Status, Three
    <3> QED
      BY <2>3, <2>11, <3>2, PrefixFacts
  <2> QED
    BY <1>3, <2>9, <2>10, <2>11
<1>5. CASE c \notin Digit
  <2>1. PICK to : to = NextSw("status", c)
    OBVIOUS
  <2>2. to = IF c \in Digit \cup {"SP"} THEN "status" ELSE "error"
    BY <2>1, NextSwOf
  <2>3. CASE c = "SP"
    <3>1. to = "status"
      BY <2>2, <2>3
    <3>2. Has(s, i + 1, {"SP"})
      BY <1>1, <2>3 DEF Has
    <3>3. \A a \in 6 .. i : a \in 6 .. i + 1 /\ (All(s, a + 1, i, {"SP"}) => All(s, a + 1, i + 1, {"SP"}))
      BY <3>2, AllMore
    <3>4. Prefix(s, i + 1, "status", k)
      <4>1. CASE k = 0 /\ None(s, i)
        <5>1. PICK dot \in 6 .. i, sp \in 6 .. i : Version(s, dot, sp) /\ All(s, sp + 1, i, {"SP"})
          BY <4>1 DEF None
        <5>2. None(s, i + 1)
          BY <3>3, <5>1 DEF None
        <5> QED
          BY <4>1, <5>2, PrefixFacts
      <4>2. CASE k = 1 /\ One(s, i)
        <5>1. PICK dot \in 6 .. i, sp \in 6 .. i, d1 \in 6 .. i :
                 Version(s, dot, sp) /\ NextDigit(s, sp, d1) /\ All(s, d1 + 1, i, {"SP"})
          BY <4>2 DEF One
        <5>2. One(s, i + 1)
          BY <3>3, <5>1 DEF One
        <5> QED
          BY <4>2, <5>2, PrefixFacts
      <4>3. CASE k = 2 /\ Two(s, i)
        <5>1. PICK dot \in 6 .. i, sp \in 6 .. i, d1 \in 6 .. i, d2 \in 6 .. i :
                 Version(s, dot, sp) /\ NextDigit(s, sp, d1) /\ NextDigit(s, d1, d2) /\ All(s, d2 + 1, i, {"SP"})
          BY <4>3 DEF Two
        <5>2. Two(s, i + 1)
          BY <3>3, <5>1 DEF Two
        <5> QED
          BY <4>3, <5>2, PrefixFacts
      <4> QED
        BY <1>3, <4>1, <4>2, <4>3
    <3>5. "status" \notin EarlySw
      BY DEF EarlySw
    <3> QED
      BY <1>1, <1>2, <1>5, <2>1, <3>1, <3>4, <3>5, SoundTurn
  <2>4. CASE c # "SP"
    <3>1. to = "error"
      BY <1>5, <2>2, <2>4
    <3> QED
      BY <1>1, <1>2, <1>5, <2>1, <3>1, SoundTurn
  <2> QED
    BY <2>3, <2>4
<1> QED
  BY <1>4, <1>5

(* The text after the status, up to the end of the line. *)
LEMMA SoundText ==
    ASSUME NEW s, NEW i \in Nat, NEW sw \in {"after_status", "text", "almost_done"}, NEW k \in Nat, NEW v \in Nat,
           Prefix(s, i, sw, k)
    PROVE  Sound(s, i + 1, ReadChar(Reading(sw, k, v), s[i + 1]))
<1>1. PICK c : c = s[i + 1]
  OBVIOUS
<1>2. PICK to : to = NextSw(sw, c)
  OBVIOUS
<1>3. i + 1 \in Nat /\ sw # "status"
  OBVIOUS
<1> DEFINE Ok(w) == \/ w = "error"
                    \/ w = "done" /\ Line(s, i + 1)
                    \/ w \notin {"error", "done"} /\ Prefix(s, i + 1, w, k) /\ (w \in EarlySw => k = 0)
<1>4. SUFFICES Ok(to)
  BY <1>1, <1>2, <1>3, <1>4, SoundTurn
<1>5. /\ \A w : w = "error" => Ok(w)
      /\ \A w : w = "done" /\ Line(s, i + 1) => Ok(w)
      /\ InText(s, i + 1) => Ok("text")
      /\ AtCr(s, i + 1) => Ok("almost_done")
  BY PrefixFacts DEF EarlySw
<1> HIDE DEF Ok
<1>6. \A j \in 6 .. i : j \in 6 .. i + 1 /\ j < i + 1
  OBVIOUS
<1>7. i + 1 - 1 = i
  OBVIOUS
<1>8. CASE sw = "after_status"
  <2>1. to = IF c \in {"SP", "."} THEN "text" ELSE IF c = "CR" THEN "almost_done"
             ELSE IF c = "LF" THEN "done" ELSE "error"
    BY <1>2, <1>8, NextSwOf
  <2>2. Status(s, i)
    BY <1>8, Zenon DEF Prefix
  <2>3. PICK dot \in 6 .. i, sp \in 6 .. i, d1 \in 6 .. i, d2 \in 6 .. i : Three(s, dot, sp, d1, d2, i)
    BY <2>2 DEF Status
  <2>4. i \in 6 .. i /\ i \in 6 .. i + 1 /\ i < i + 1 /\ i + 1 .. i = {} /\ i + 1 .. i + 1 = {i + 1}
    OBVIOUS
  <2>5. CASE c \in {"SP", "."}
    <3>1. Has(s, i + 1, {"SP", "."}) /\ \A j \in i + 1 .. i + 1 : s[j] \notin {"CR", "LF"}
      BY <1>1, <2>4, <2>5 DEF Has
    <3>2. InText(s, i + 1)
      BY <1>6, <2>3, <2>4, <3>1 DEF InText
    <3> QED
      BY <1>5, <2>1, <2>5, <3>2
  <2>6. CASE c = "CR"
    <3>1. Has(s, i + 1, {"SP", ".", "CR"}) /\ s[i + 1] = "CR" /\ \A j \in i + 1 .. i + 1 - 1 : s[j] \notin {"CR", "LF"}
      BY <1>1, <1>7, <2>4, <2>6 DEF Has
    <3>2. AtCr(s, i + 1)
      BY <1>6, <2>3, <2>4, <3>1 DEF AtCr
    <3> QED
      BY <1>5, <2>1, <2>6, <3>2
  <2>7. CASE c = "LF"
    <3>1. Has(s, i + 1, {"SP", ".", "CR", "LF"}) /\ s[i + 1] = "LF"
      BY <1>1, <2>7 DEF Has
    <3>2. \A j \in i + 1 .. i + 1 - 1 : s[j] # "LF" /\ (s[j] = "CR" => j = i + 1 - 1)
      BY <1>7, <2>4
    <3>3. Line(s, i + 1)
      BY <1>3, <1>6, <2>3, <2>4, <3>1, <3>2, LineMade
    <3> QED
      BY <1>5, <2>1, <2>7, <3>3
  <2> QED
    BY <1>5, <2>1, <2>5, <2>6, <2>7
<1>9. CASE sw = "text"
  <2>1. to = IF c = "CR" THEN "almost_done" ELSE IF c = "LF" THEN "done" ELSE "text"
    BY <1>2, <1>9, NextSwOf
  <2>2. InText(s, i)
    BY <1>9, Zenon DEF Prefix
  <2>3. PICK dot \in 6 .. i, sp \in 6 .. i, d1 \in 6 .. i, d2 \in 6 .. i, d3 \in 6 .. i :
           /\ Three(s, dot, sp, d1, d2, d3) /\ d3 < i /\ Has(s, d3 + 1, {"SP", "."})
           /\ \A j \in d3 + 1 .. i : s[j] \notin {"CR", "LF"}
    BY <2>2 DEF InText
  <2>4. \A j \in d3 + 1 .. i + 1 : j \in d3 + 1 .. i \/ j = i + 1
    OBVIOUS
  <2>5. CASE c \notin {"CR", "LF"}
    <3>1. \A j \in d3 + 1 .. i + 1 : s[j] \notin {"CR", "LF"}
      BY <1>1, <2>3, <2>4, <2>5
    <3>2. InText(s, i + 1)
      BY <1>6, <2>3, <3>1 DEF InText
    <3> QED
      BY <1>5, <2>1, <2>5, <3>2
  <2>6. CASE c = "CR"
    <3>1. Has(s, d3 + 1, {"SP", ".", "CR"}) /\ s[i + 1] = "CR"
      BY <1>1, <2>3, <2>6 DEF Has
    <3>2. AtCr(s, i + 1)
      BY <1>6, <1>7, <2>3, <3>1 DEF AtCr
    <3> QED
      BY <1>5, <2>1, <2>6, <3>2
  <2>7. CASE c = "LF"
    <3>1. Has(s, d3 + 1, {"SP", ".", "CR", "LF"}) /\ s[i + 1] = "LF"
      BY <1>1, <2>3, <2>7 DEF Has
    <3>2. \A j \in d3 + 1 .. i + 1 - 1 : s[j] # "LF" /\ (s[j] = "CR" => j = i + 1 - 1)
      BY <1>7, <2>3
    <3>3. Line(s, i + 1)
      BY <1>3, <1>6, <2>3, <3>1, <3>2, LineMade
    <3> QED
      BY <1>5, <2>1, <2>7, <3>3
  <2> QED
    BY <2>5, <2>6, <2>7
<1>10. CASE sw = "almost_done"
  <2>1. to = IF c = "LF" THEN "done" ELSE "error"
    BY <1>2, <1>10, NextSwOf
  <2>2. AtCr(s, i)
    BY <1>10, Zenon DEF Prefix
  <2>3. PICK dot \in 6 .. i, sp \in 6 .. i, d1 \in 6 .. i, d2 \in 6 .. i, d3 \in 6 .. i :
           /\ Three(s, dot, sp, d1, d2, d3) /\ d3 < i /\ Has(s, d3 + 1, {"SP", ".", "CR"}) /\ s[i] = "CR"
           /\ \A j \in d3 + 1 .. i - 1 : s[j] \notin {"CR", "LF"}
    BY <2>2 DEF AtCr
  <2>4. CASE c = "LF"
    <3>1. Has(s, d3 + 1, {"SP", ".", "CR", "LF"}) /\ s[i + 1] = "LF"
      BY <1>1, <2>3, <2>4 DEF Has
    <3>2. ASSUME NEW j \in d3 + 1 .. i + 1 - 1
          PROVE  s[j] # "LF" /\ (s[j] = "CR" => j = i + 1 - 1)
      <4>1. j \in d3 + 1 .. i - 1 \/ j = i
        OBVIOUS
      <4> QED
        BY <1>7, <2>3, <4>1
    <3>3. Line(s, i + 1)
      BY <1>3, <1>6, <2>3, <3>1, <3>2, LineMade, SMTT(30)
    <3> QED
      BY <1>5, <2>1, <2>4, <3>3
  <2> QED
    BY <1>5, <2>1, <2>4
<1> QED
  BY <1>8, <1>9, <1>10

(* What the parser has read is the beginning of a status line, and what it *)
(* took is one.                                                            *)
LEMMA RunSound ==
    ASSUME NEW run, NEW s, NEW n \in Nat, Runs(run, s, n)
    PROVE  \A i \in 0 .. n : Sound(s, i, run[i])
<1> DEFINE S == {i \in 0 .. n : Sound(s, i, run[i])}
<1>1. 0 \in S
  <2>1. run[0] = Reading("start", 0, 0)
    BY DEF Runs, StartLine, Reading
  <2>2. Prefix(s, 0, "start", 0)
    BY Zenon DEF Prefix
  <2>3. Sound(s, 0, run[0])
    BY <2>1, <2>2 DEF Sound
  <2> QED
    BY <2>3
<1>2. ASSUME NEW i \in 0 .. n, i \in S, i < n
      PROVE  i + 1 \in S
  <2>1. run[i + 1] = ReadChar(run[i], s[i + 1])
    BY <1>2, Turn
  <2>2. PICK q : q = run[i]
    OBVIOUS
  <2>3. Sound(s, i, q) /\ i \in Nat /\ i + 1 \in 0 .. n
    BY <1>2, <2>2
  <2>4. Sound(s, i + 1, ReadChar(q, s[i + 1]))
    <3>1. CASE q.ret = "ERROR"
      <4>1. ReadChar(q, s[i + 1]) = q
        BY <3>1 DEF ReadChar
      <4> QED
        BY <3>1, <4>1 DEF Sound
    <3>2. CASE q.ret = "OK" /\ Line(s, i)
      <4>1. ReadChar(q, s[i + 1]) = q
        BY <3>2 DEF ReadChar
      <4>2. PICK d \in (6 .. i) \X (6 .. i) \X (6 .. i), dot \in 6 .. i, sp \in 6 .. i, lf \in 6 .. i :
               IsStatusLine(s, dot, sp, d, lf)
        BY <3>2 DEF Line
      <4>3. d \in (6 .. i + 1) \X (6 .. i + 1) \X (6 .. i + 1) /\ dot \in 6 .. i + 1 /\ sp \in 6 .. i + 1 /\ lf \in 6 .. i + 1
        OBVIOUS
      <4>4. Line(s, i + 1)
        BY <4>2, <4>3 DEF Line
      <4> QED
        BY <3>2, <4>1, <4>4 DEF Sound
    <3>3. ASSUME NEW sw, NEW k \in Nat, NEW v \in Nat,
                 q = Reading(sw, k, v), Prefix(s, i, sw, k), sw \in EarlySw => k = 0
          PROVE  Sound(s, i + 1, ReadChar(q, s[i + 1]))
      <4>1. sw \in EarlySw \cup {"status", "after_status", "text", "almost_done"}
        BY <3>3, Zenon DEF Prefix, EarlySw
      <4>2. CASE sw \in EarlySw
        BY <2>3, <3>3, <4>2, SoundVersion
      <4>3. CASE sw = "status"
        BY <2>3, <3>3, <4>3, SoundStatus
      <4>4. CASE sw \in {"after_status", "text", "almost_done"}
        BY <2>3, <3>3, <4>4, SoundText
      <4> QED
        BY <4>1, <4>2, <4>3, <4>4
    <3> QED
      BY <2>3, <3>1, <3>2, <3>3 DEF Sound
  <2> QED
    BY <2>1, <2>2, <2>3, <2>4
<1>3. n \in Nat /\ 0 \in Nat
  OBVIOUS
<1>4. \A i \in 0 .. n : i \in S
  <2> HIDE DEF S
  <2> QED
    BY <1>1, <1>2, <1>3, UpTo
<1> QED
  BY <1>4

(* http_parse_status_line and the description of a status line agree on    *)
(* every text: the status is taken when there is one, and then it is the   *)
(* number its three digits make, whatever the version, the spaces and the  *)
(* text are; anything else is refused.                                     *)
THEOREM StatusLineParsed ==
    ASSUME NEW s, Len(s) \in Nat
    PROVE  ParseStatusLine(s) = StatusOf(s)
<1>1. PICK n \in Nat : n = Len(s)
  OBVIOUS
<1>2. PICK run : /\ run = [i \in 0 .. n |-> run[i]]
                 /\ run[0] = StartLine
                 /\ \A i \in 1 .. n : run[i] = ReadChar(run[i - 1], s[i])
                 /\ run[n] = NgxParseStatusLine(StartLine, s)
  BY <1>1, ParseRun, Zenon
<1>3. Runs(run, s, n)
  BY <1>2 DEF Runs
<1>4. ParseStatusLine(s) = IF run[n].ret = "OK" THEN run[n].code ELSE -1
  BY <1>2 DEF ParseStatusLine
<1> DEFINE at(C) == {i \in 6 .. n : s[i] \in C}
           status == {d \in at(Digit) \X at(Digit) \X at(Digit) :
                        \E dot \in at({"."}), sp \in at({"SP"}), lf \in at({"LF"}) :
                           IsStatusLine(s, dot, sp, d, lf)}
<1>5. StatusOf(s) = IF status = {} THEN -1 ELSE Value(s, CHOOSE d \in status : TRUE)
  BY <1>1 DEF StatusOf, Value
<1>6. ASSUME NEW d \in status
      PROVE  run[n].ret = "OK" /\ run[n].code = Value(s, d)
  <2>1. PICK dot \in at({"."}), sp \in at({"SP"}), lf \in at({"LF"}) : IsStatusLine(s, dot, sp, d, lf)
    OBVIOUS
  <2>2. d \in (6 .. n) \X (6 .. n) \X (6 .. n) /\ dot \in 6 .. n /\ sp \in 6 .. n /\ lf \in 6 .. n
    <3>1. \A C : at(C) \subseteq 6 .. n
      OBVIOUS
    <3>2. d \in at(Digit) \X at(Digit) \X at(Digit)
      OBVIOUS
    <3> HIDE DEF at
    <3> QED
      BY <3>1, <3>2
  <2>3. run[n] = Read(3, Value(s, d))
    BY <1>3, <2>1, <2>2, LineRead
  <2> QED
    BY <2>3 DEF Read
<1>7. ASSUME run[n].ret = "OK"
      PROVE  status # {}
  <2>1. n \in 0 .. n
    OBVIOUS
  <2>2. Sound(s, n, run[n])
    BY <1>3, <2>1, RunSound
  <2>3. \A sw, k, v : Reading(sw, k, v).ret = "AGAIN"
    BY DEF Reading
  <2>4. Line(s, n)
    BY <1>7, <2>2, <2>3 DEF Sound
  <2>5. PICK d \in (6 .. n) \X (6 .. n) \X (6 .. n), dot \in 6 .. n, sp \in 6 .. n, lf \in 6 .. n :
           IsStatusLine(s, dot, sp, d, lf)
    BY <2>4 DEF Line
  <2>6. /\ Has(s, dot, {"."}) /\ Has(s, sp, {"SP"}) /\ Has(s, lf, {"LF"})
        /\ Has(s, d[1], Digit) /\ Has(s, d[2], Digit) /\ Has(s, d[3], Digit)
    BY <2>5, LineParts
  <2>7. s[dot] \in {"."} /\ s[sp] \in {"SP"} /\ s[lf] \in {"LF"} /\ s[d[1]] \in Digit /\ s[d[2]] \in Digit /\ s[d[3]] \in Digit
    BY <2>6 DEF Has
  <2>8. dot \in at({"."}) /\ sp \in at({"SP"}) /\ lf \in at({"LF"})
    BY <2>7
  <2>9. d \in at(Digit) \X at(Digit) \X at(Digit)
    BY <2>5, <2>7
  <2> QED
    BY <2>5, <2>8, <2>9
<1> HIDE DEF status
<1>8. CASE status = {}
  <2>1. run[n].ret # "OK"
    BY <1>7, <1>8
  <2> QED
    BY <1>4, <1>5, <1>8, <2>1
<1>9. CASE status # {}
  <2>1. PICK d : d = CHOOSE e \in status : TRUE
    OBVIOUS
  <2>2. d \in status
    BY <1>9, <2>1
  <2> QED
    BY <1>4, <1>5, <1>6, <1>9, <2>1, <2>2
<1> QED
  BY <1>8, <1>9

-----------------------------------------------------------------------------
(* A loop whose turn i leads from a value y to F[<<i, y>>] has a value     *)
(* after each of its turns: the recursive functions below exist.           *)
Turned(f, a, b, A, x, F) ==
    f \in [a .. b -> A] /\ f[a] = x /\ \A i \in a + 1 .. b : f[i] = F[<<i, f[i - 1]>>]

LEMMA Iterated ==
    ASSUME NEW a \in Nat, NEW b \in Nat, a <= b, NEW A, NEW x \in A, NEW F \in [(a .. b) \X A -> A]
    PROVE  \E f : Turned(f, a, b, A, x, F)
<1> DEFINE S == {m \in a .. b : \E f : Turned(f, a, m, A, x, F)}
<1>1. a \in S
  <2>1. [i \in a .. a |-> x] \in [a .. a -> A] /\ a \in a .. b /\ a \in a .. a /\ a + 1 .. a = {}
    OBVIOUS
  <2>2. Turned([i \in a .. a |-> x], a, a, A, x, F)
    BY <2>1 DEF Turned
  <2> QED
    BY <2>1, <2>2
<1>2. ASSUME NEW m \in a .. b, m \in S, m < b
      PROVE  m + 1 \in S
  <2>1. PICK f : Turned(f, a, m, A, x, F)
    BY <1>2
  <2>2. PICK y : y = F[<<m + 1, f[m]>>]
    OBVIOUS
  <2>3. m \in a .. m /\ m + 1 \in a .. b /\ m + 1 \notin a .. m /\ a \in a .. m
    BY <1>2
  <2>4. f[m] \in A
    BY <2>1, <2>3 DEF Turned
  <2>5. y \in A
    BY <2>2, <2>3, <2>4
  <2> DEFINE g == [i \in a .. m + 1 |-> IF i = m + 1 THEN y ELSE f[i]]
  <2>6. \A i \in a .. m : f[i] \in A
    BY <2>1 DEF Turned
  <2>7. g \in [a .. m + 1 -> A]
    <3>1. \A i \in a .. m + 1 : i = m + 1 \/ i \in a .. m
      OBVIOUS
    <3> QED
      BY <2>5, <2>6, <3>1
  <2>8. \A i \in a .. m : g[i] = f[i] /\ i # m + 1
    OBVIOUS
  <2>9. g[m + 1] = y
    BY <2>3
  <2>10. g[a] = x
    BY <2>1, <2>3, <2>8 DEF Turned
  <2>11. ASSUME NEW i \in a + 1 .. m + 1
         PROVE  g[i] = F[<<i, g[i - 1]>>]
    <3>1. CASE i = m + 1
      <4>1. i - 1 = m
        BY <3>1
      <4>2. g[m] = f[m]
        BY <2>3, <2>8
      <4> HIDE DEF g
      <4> QED
        BY <2>2, <2>9, <3>1, <4>1, <4>2
    <3>2. CASE i # m + 1
      <4>1. i \in a + 1 .. m /\ i \in a .. m /\ i - 1 \in a .. m
        BY <3>2
      <4>2. f[i] = F[<<i, f[i - 1]>>]
        BY <2>1, <4>1 DEF Turned
      <4>3. g[i] = f[i] /\ g[i - 1] = f[i - 1]
        BY <2>8, <4>1
      <4> HIDE DEF g
      <4> QED
        BY <4>2, <4>3
    <3> QED
      BY <3>1, <3>2
  <2> HIDE DEF g
  <2>12. Turned(g, a, m + 1, A, x, F)
    BY <2>7, <2>10, <2>11 DEF Turned
  <2> QED
    BY <2>3, <2>12
<1>3. b \in a .. b
  OBVIOUS
<1>4. b \in S
  <2> HIDE DEF S
  <2> QED
    BY <1>1, <1>2, <1>3, UpTo
<1> QED
  BY <1>4

(* What strstr finds: the first occurrence, or nothing. *)
LEMMA Found ==
    ASSUME NEW s, NEW n \in Nat, n = Len(s), NEW c, NEW from \in Nat
    PROVE  /\ Find(s, c, from) \in 0 .. n
           /\ Find(s, c, from) = 0 \/ (Find(s, c, from) \in from .. n /\ s[Find(s, c, from)] = c)
           /\ \A i \in from .. n : s[i] = c /\ i # 0 =>
                 Find(s, c, from) \in from .. i
<1> DEFINE at == {i \in from .. n : s[i] = c}
<1>1. Find(s, c, from) = IF at = {} THEN 0 ELSE CHOOSE i \in at : \A j \in at : i <= j
  BY DEF Find
<1>2. at \subseteq Nat
  OBVIOUS
<1>3. CASE at = {}
  <2>1. Find(s, c, from) = 0
    BY <1>1, <1>3
  <2> QED
    BY <1>3, <2>1
<1>4. CASE at # {}
  <2>1. \E k \in at : \A j \in at : k <= j
    <3> HIDE DEF at
    <3> QED
      BY <1>2, <1>4, LeastNat
  <2>2. PICK k : k = CHOOSE i \in at : \A j \in at : i <= j
    OBVIOUS
  <2>3. k \in at /\ \A j \in at : k <= j
    <3> HIDE DEF at
    <3> QED
      BY <2>1, <2>2
  <2>4. Find(s, c, from) = k
    BY <1>1, <1>4, <2>2
  <2>5. k \in from .. n /\ s[k] = c /\ k \in 0 .. n
    BY <2>3
  <2>6. \A i \in from .. n : s[i] = c => k <= i
    BY <2>3
  <2> QED
    BY <2>4, <2>5, <2>6
<1> QED
  BY <1>3, <1>4

(* The first of its kind in a part is what strstr finds from any place of  *)
(* the part before it.                                                     *)
LEMMA FirstFound ==
    ASSUME NEW s, NEW n \in Nat, n = Len(s), NEW b \in Nat \ {0}, NEW a \in Nat, b <= a, NEW c, NEW P,
           \A j \in b .. n : j \in P <=> j \in Part(s, b) /\ a <= j,
           NEW u \in First(s, P, c), u \in b .. n
    PROVE  Find(s, c, a) = u
<1>1. s[u] = c /\ u \in P /\ \A j \in P : s[j] = c => u <= j
  BY DEF First
<1>2. u \in a .. n /\ u # 0 /\ \A j \in b + 1 .. u : s[j] # "DISCONTINUITY"
  BY <1>1 DEF Part
<1>3. PICK k : k = Find(s, c, a)
  OBVIOUS
<1>4. k \in a .. u
  BY <1>1, <1>2, <1>3, Found
<1>5. s[k] = c
  <2>1. k # 0
    BY <1>4
  <2> QED
    BY <1>3, <2>1, Found
<1>6. k \in P
  <2>1. k \in b .. n /\ a <= k /\ \A j \in b + 1 .. k : j \in b + 1 .. u
    BY <1>4
  <2>2. k \in Part(s, b)
    BY <1>2, <2>1 DEF Part
  <2> QED
    BY <2>1, <2>2
<1>7. u <= k
  BY <1>1, <1>5, <1>6
<1> QED
  BY <1>3, <1>4, <1>7

(* The places of the URL, the tag and the '&' of a part. *)
Places(s, b, u, f, e) ==
    /\ SubSeq(s, u + 1, e - 1) \in PartUrl(s, b)
    /\ u < f /\ f < e /\ s[f] = "file=" /\ s[e] = "&"
    /\ \A j \in b + 1 .. u : s[j] # "DISCONTINUITY"
    /\ Find(s, "http://", b) = u /\ Find(s, "file=", u + 1) = f
    /\ \A j \in f + 1 .. e - 1 : s[j] # "&"

LEMMA PartPlaces ==
    ASSUME NEW s, NEW n \in Nat, n = Len(s), NEW b \in Nat \ {0}, PartUrl(s, b) # {}
    PROVE  \E u, f, e \in b .. n : Places(s, b, u, f, e)
<1> DEFINE after(i) == {j \in Part(s, b) : i < j}
           url == First(s, Part(s, b), "http://")
           file == UNION {First(s, after(u), "file=") : u \in url}
           amp == UNION {First(s, after(i), "&") : i \in file}
<1>1. PartUrl(s, b) = {SubSeq(s, p[1] + 1, p[2] - 1) : p \in url \X amp}
  BY DEF PartUrl
<1>2. PICK u \in url, e \in amp : TRUE
  <2> HIDE DEF url, amp
  <2> QED
    BY <1>1
<1>3. PICK f \in file : e \in First(s, after(f), "&")
  OBVIOUS
<1>4. PICK u2 \in url : f \in First(s, after(u2), "file=")
  OBVIOUS
<1>5. Part(s, b) \subseteq b .. n
  BY DEF Part
<1>6. u \in Part(s, b) /\ u2 \in Part(s, b) /\ s[u] = "http://" /\ u = u2
  <2>1. /\ u \in Part(s, b) /\ s[u] = "http://" /\ \A j \in Part(s, b) : s[j] = "http://" => u <= j
        /\ u2 \in Part(s, b) /\ s[u2] = "http://" /\ \A j \in Part(s, b) : s[j] = "http://" => u2 <= j
    BY DEF First
  <2>2. u \in b .. n /\ u2 \in b .. n
    BY <1>5, <2>1
  <2>3. u <= u2 /\ u2 <= u
    BY <2>1
  <2> QED
    BY <2>1, <2>2, <2>3
<1>7. f \in Part(s, b) /\ u < f /\ s[f] = "file=" /\ f \in First(s, after(u), "file=")
  BY <1>4, <1>6 DEF First
<1>8. e \in Part(s, b) /\ f < e /\ s[e] = "&" /\ \A j \in after(f) : s[j] = "&" => e <= j
  BY <1>3 DEF First
<1>9. u \in b .. n /\ f \in b .. n /\ e \in b .. n
  BY <1>5, <1>6, <1>7, <1>8
<1>10. \A j \in b + 1 .. e : s[j] # "DISCONTINUITY"
  BY <1>8 DEF Part
<1>11. Find(s, "http://", b) = u
  <2>1. \A j \in b .. n : j \in Part(s, b) <=> j \in Part(s, b) /\ b <= j
    OBVIOUS
  <2>2. b \in Nat /\ b <= b
    OBVIOUS
  <2>3. u \in First(s, Part(s, b), "http://")
    OBVIOUS
  <2> HIDE DEF url, amp
  <2> QED
    BY <1>9, <2>1, <2>2, <2>3, FirstFound
<1>12. Find(s, "file=", u + 1) = f
  <2>1. \A j \in b .. n : j \in after(u) <=> j \in Part(s, b) /\ u + 1 <= j
    BY <1>9
  <2>2. u + 1 \in Nat /\ b <= u + 1
    BY <1>9
  <2>3. PICK P : P = after(u)
    OBVIOUS
  <2>4. f \in First(s, P, "file=") /\ \A j \in b .. n : j \in P <=> j \in Part(s, b) /\ u + 1 <= j
    BY <1>7, <2>1, <2>3
  <2> HIDE DEF url, amp, file, after
  <2> QED
    BY <1>9, <2>2, <2>4, FirstFound
<1>13. ASSUME NEW j \in f + 1 .. e - 1
       PROVE  s[j] # "&"
  <2>1. j \in b .. n /\ f < j /\ j < e /\ \A i \in b + 1 .. j : i \in b + 1 .. e
    BY <1>9
  <2>2. j \in Part(s, b)
    BY <1>10, <2>1 DEF Part
  <2>3. j \in after(f)
    BY <2>1, <2>2
  <2> HIDE DEF after
  <2> QED
    BY <1>8, <1>9, <2>1, <2>3
<1>14. SubSeq(s, u + 1, e - 1) \in PartUrl(s, b)
  <2> HIDE DEF url, amp
  <2>1. PICK p \in url \X amp : p = <<u, e>>
    OBVIOUS
  <2>2. p[1] = u /\ p[2] = e
    BY <2>1
  <2>3. SubSeq(s, p[1] + 1, p[2] - 1) \in PartUrl(s, b)
    BY <1>1
  <2> QED
    BY <2>2, <2>3
<1>15. \A j \in b + 1 .. u : s[j] # "DISCONTINUITY"
  BY <1>7, <1>8, <1>9, <1>10
<1> HIDE DEF url, amp, file, after
<1>16. Places(s, b, u, f, e)
  BY <1>7, <1>8, <1>11, <1>12, <1>13, <1>14, <1>15 DEF Places
<1> QED
  BY <1>9, <1>16

(* Every part but the last has a next one. *)
NextPart(s, b, x) ==
    \/ x = 0 /\ \A y \in PartStart(s) : y <= b
    \/ x \in PartStart(s) /\ b < x /\ \A y \in PartStart(s) : y <= b \/ x <= y

(* A call at the start of a part that has a URL takes it, and the next     *)
(* call starts at the next part.                                           *)
LEMMA CallOfPart ==
    ASSUME NEW C, NEW s \in Seq(C), NEW b \in PartStart(s), PartUrl(s, b) # {}
    PROVE  /\ \E u \in PartUrl(s, b) : ParseM3u8(s, b).url = IF Len(u) < FileUrlMax THEN u ELSE <<>>
           /\ NextPart(s, b, ParseM3u8(s, b).next)
<1>1. PICK n \in Nat : n = Len(s)
  OBVIOUS
<1>2. b \in Nat \ {0} /\ DOMAIN s = 1 .. n
  BY <1>1 DEF PartStart
<1>11. PICK u \in b .. n, f \in b .. n, e \in b .. n : Places(s, b, u, f, e)
  BY <1>1, <1>2, PartPlaces
<1>3. /\ SubSeq(s, u + 1, e - 1) \in PartUrl(s, b)
      /\ u < f /\ f < e /\ s[f] = "file=" /\ s[e] = "&"
      /\ \A j \in b + 1 .. u : s[j] # "DISCONTINUITY"
      /\ Find(s, "http://", b) = u /\ Find(s, "file=", u + 1) = f
      /\ \A j \in f + 1 .. e - 1 : s[j] # "&"
  BY <1>11 DEF Places
<1> DEFINE stop == {i \in f .. n : s[i] = "&"} \cup {n + 1}
           end == CHOOSE i \in stop : \A j \in stop : i <= j
           r == ParseM3u8(s, b)
<1>4. end = e
  <2>1. e \in stop
    BY <1>3
  <2>2. ASSUME NEW j \in stop
        PROVE  e <= j
    <3>1. (j \in f .. n /\ s[j] = "&") \/ j = n + 1
      OBVIOUS
    <3>2. CASE j = n + 1
      BY <3>2
    <3>3. CASE j \in f .. n /\ s[j] = "&"
      <4>1. j # f
        BY <1>3, <3>3
      <4>2. j \notin f + 1 .. e - 1
        BY <1>3, <3>3
      <4> QED
        BY <3>3, <4>1, <4>2
    <3> QED
      BY <3>1, <3>2, <3>3
  <2>3. stop \subseteq Int
    OBVIOUS
  <2> HIDE DEF stop
  <2>4. end \in stop /\ \A j \in stop : end <= j
    BY <2>1, <2>2
  <2> HIDE DEF end
  <2>5. end <= e /\ e <= end /\ end \in Int
    BY <2>1, <2>2, <2>3, <2>4
  <2> QED
    BY <2>5
<1>5. r = [next |-> Find(s, "DISCONTINUITY", u + 1),
           url |-> IF e - (u + 1) >= FileUrlMax THEN <<>> ELSE SubSeq(s, u + 1, e - 1)]
  <2>1. u # 0 /\ f # 0
    BY <1>2
  <2>2. r = IF u = 0 \/ f = 0 THEN [next |-> 0, url |-> <<>>]
            ELSE [next |-> Find(s, "DISCONTINUITY", u + 1),
                  url |-> IF end - (u + 1) >= FileUrlMax THEN <<>> ELSE SubSeq(s, u + 1, end - 1)]
    BY <1>1, <1>3 DEF ParseM3u8
  <2> HIDE DEF r, end
  <2> QED
    BY <1>4, <2>1, <2>2
<1>6. PICK w : w = SubSeq(s, u + 1, e - 1)
  OBVIOUS
<1>7. Len(w) = e - (u + 1) /\ w \in PartUrl(s, b)
  <2>1. u + 1 \in 1 .. n + 1 /\ e - 1 \in u + 1 - 1 .. n
    BY <1>2, <1>3
  <2>2. Len(SubSeq(s, u + 1, e - 1)) = e - 1 - (u + 1) + 1
    BY <1>1, <2>1
  <2> QED
    BY <1>3, <1>6, <2>2
<1>8. r.url = IF Len(w) < FileUrlMax THEN w ELSE <<>>
  <2>1. e - (u + 1) >= FileUrlMax <=> ~(Len(w) < FileUrlMax)
    BY <1>7, FileUrlAssumption
  <2> HIDE DEF r
  <2> QED
    BY <1>5, <1>6, <2>1
<1>9. NextPart(s, b, r.next)
  <2>1. PICK x : x = Find(s, "DISCONTINUITY", u + 1)
    OBVIOUS
  <2>2. r.next = x
    <3> HIDE DEF r
    <3> QED
      BY <1>5, <2>1
  <2>3. u + 1 \in Nat
    BY <1>2
  <2>4. /\ x = 0 \/ (x \in u + 1 .. n /\ s[x] = "DISCONTINUITY")
        /\ \A i \in u + 1 .. n : s[i] = "DISCONTINUITY" /\ i # 0 => x \in u + 1 .. i
    BY <1>1, <2>1, <2>3, Found
  <2>5. ASSUME NEW y \in PartStart(s), b < y
        PROVE  y \in u + 1 .. n /\ s[y] = "DISCONTINUITY" /\ y # 0
    <3>1. y \in 1 .. n /\ s[y] = "DISCONTINUITY"
      BY <1>2, <2>5 DEF PartStart
    <3>2. y \notin b + 1 .. u
      BY <1>3, <3>1
    <3> QED
      BY <1>2, <2>5, <3>1, <3>2
  <2>6. PartStart(s) \subseteq Nat
    BY <1>2 DEF PartStart
  <2>7. CASE x = 0
    <3>1. ASSUME NEW y \in PartStart(s)
          PROVE  y <= b
      <4>1. CASE b < y
        <5>1. x \in u + 1 .. y
          BY <2>4, <2>5, <4>1
        <5> QED
          BY <1>2, <2>7, <5>1
      <4> QED
        BY <1>2, <2>6, <4>1
    <3> QED
      BY <2>2, <2>7, <3>1 DEF NextPart
  <2>8. CASE x # 0
    <3>1. x \in u + 1 .. n /\ s[x] = "DISCONTINUITY"
      BY <2>4, <2>8
    <3>2. x \in PartStart(s) /\ b < x
      BY <1>2, <3>1 DEF PartStart
    <3>3. ASSUME NEW y \in PartStart(s)
          PROVE  y <= b \/ x <= y
      <4>1. CASE b < y
        <5>1. x \in u + 1 .. y
          BY <2>4, <2>5, <4>1
        <5> QED
          BY <5>1
      <4> QED
        BY <1>2, <2>6, <4>1
    <3> QED
      BY <2>2, <3>2, <3>3 DEF NextPart
  <2> QED
    BY <2>7, <2>8
<1> HIDE DEF r
<1>10. ParseM3u8(s, b) = r
  BY DEF r
<1> QED
  BY <1>7, <1>8, <1>9, <1>10

(* Where the calls of the loop start. *)
CallEq(curr, s) ==
    curr = [k \in 1 .. Len(s) + 1 |->
              IF k = 1 THEN 1 ELSE IF curr[k - 1] = 0 THEN 0 ELSE ParseM3u8(s, curr[k - 1]).next]

LEMMA CallsExist ==
    ASSUME NEW s, NEW n \in Nat, n = Len(s)
    PROVE  \E curr : CallEq(curr, s)
<1> DEFINE A == 0 .. n + 1
           F == [p \in (1 .. n + 1) \X A |-> IF p[2] = 0 THEN 0 ELSE ParseM3u8(s, p[2]).next]
<1>1. ASSUME NEW b \in Nat
      PROVE  ParseM3u8(s, b).next \in 0 .. n
  <2>1. PICK u \in 0 .. n : u = Find(s, "http://", b)
    BY Found
  <2>2. u + 1 \in Nat
    OBVIOUS
  <2>3. Find(s, "DISCONTINUITY", u + 1) \in 0 .. n
    BY <2>2, Found
  <2>4. \/ ParseM3u8(s, b).next = 0
        \/ ParseM3u8(s, b).next = Find(s, "DISCONTINUITY", u + 1)
    BY <2>1 DEF ParseM3u8
  <2> QED
    BY <2>3, <2>4
<1>2. F \in [(1 .. n + 1) \X A -> A]
  <2>1. ASSUME NEW p \in (1 .. n + 1) \X A
        PROVE  (IF p[2] = 0 THEN 0 ELSE ParseM3u8(s, p[2]).next) \in A
    <3>1. PICK b \in Nat : b = p[2]
      OBVIOUS
    <3> QED
      BY <1>1, <3>1
  <2> QED
    BY <2>1
<1>3. 1 \in Nat /\ n + 1 \in Nat /\ 1 <= n + 1 /\ 1 \in A
  OBVIOUS
<1>4. PICK f : Turned(f, 1, n + 1, A, 1, F)
  <2> HIDE DEF A, F
  <2> QED
    BY <1>2, <1>3, Iterated
<1>5. f \in [1 .. n + 1 -> A] /\ f[1] = 1 /\ \A k \in 1 + 1 .. n + 1 : f[k] = F[<<k, f[k - 1]>>]
  BY <1>4 DEF Turned
<1>6. ASSUME NEW k \in 1 .. n + 1
      PROVE  f[k] = IF k = 1 THEN 1 ELSE IF f[k - 1] = 0 THEN 0 ELSE ParseM3u8(s, f[k - 1]).next
  <2>1. CASE k = 1
    BY <1>5, <2>1
  <2>2. CASE k # 1
    <3>1. k \in 1 + 1 .. n + 1 /\ k - 1 \in 1 .. n + 1
      BY <2>2
    <3>2. PICK q : q = <<k, f[k - 1]>>
      OBVIOUS
    <3>3. f[k - 1] \in A
      BY <1>5, <3>1
    <3>4. q \in (1 .. n + 1) \X A /\ q[2] = f[k - 1]
      BY <3>2, <3>3
    <3>5. F[q] = IF q[2] = 0 THEN 0 ELSE ParseM3u8(s, q[2]).next
      BY <3>4
    <3>6. f[k] = F[q]
      BY <1>5, <3>1, <3>2
    <3> HIDE DEF F
    <3> QED
      BY <2>2, <3>4, <3>5, <3>6
  <2> QED
    BY <2>1, <2>2
<1>7. f = [k \in 1 .. n + 1 |-> f[k]]
  BY <1>5
<1>8. [k \in 1 .. n + 1 |-> f[k]] =
        [k \in 1 .. n + 1 |-> IF k = 1 THEN 1 ELSE IF f[k - 1] = 0 THEN 0 ELSE ParseM3u8(s, f[k - 1]).next]
  BY <1>6
<1>9. CallEq(f, s)
  BY <1>7, <1>8, Zenon DEF CallEq
<1> QED
  BY <1>9

LEMMA CallsAre ==
    ASSUME NEW s, NEW n \in Nat, n = Len(s)
    PROVE  /\ DOMAIN M3u8Calls(s) = 1 .. n + 1
           /\ M3u8Calls(s)[1] = 1
           /\ \A k \in 1 .. n : M3u8Calls(s)[k + 1] =
                 IF M3u8Calls(s)[k] = 0 THEN 0 ELSE ParseM3u8(s, M3u8Calls(s)[k]).next
<1>1. PICK f : f = CHOOSE curr : CallEq(curr, s)
  OBVIOUS
<1>2. CallEq(f, s)
  BY <1>1, CallsExist
<1>3. M3u8Calls(s) = f
  BY <1>1 DEF M3u8Calls, CallEq
<1>4. f = [k \in 1 .. n + 1 |->
             IF k = 1 THEN 1 ELSE IF f[k - 1] = 0 THEN 0 ELSE ParseM3u8(s, f[k - 1]).next]
  BY <1>2 DEF CallEq
<1>5. DOMAIN f = 1 .. n + 1 /\ f[1] = 1
  BY <1>4
<1>6. ASSUME NEW k \in 1 .. n
      PROVE  f[k + 1] = IF f[k] = 0 THEN 0 ELSE ParseM3u8(s, f[k]).next
  <2>1. k + 1 \in 1 .. n + 1 /\ k + 1 # 1 /\ k + 1 - 1 = k
    OBVIOUS
  <2>2. f[k + 1] = IF k + 1 = 1 THEN 1 ELSE IF f[k + 1 - 1] = 0 THEN 0 ELSE ParseM3u8(s, f[k + 1 - 1]).next
    BY <1>4, <2>1
  <2> QED
    BY <2>1, <2>2
<1> QED
  BY <1>3, <1>5, <1>6

(* The calls up to the k-th: they start at parts, in order, and no part    *)
(* before them is left out.                                                *)
Visited(s, f, k) ==
    /\ f[k] = 0 \/ (f[k] \in PartStart(s) /\ k <= f[k])
    /\ \A x \in PartStart(s) : (\E j \in 1 .. k : f[j] = x) \/ (f[k] # 0 /\ f[k] < x)
    /\ f[k] # 0 => \A j \in 1 .. k - 1 : f[j] \in 1 .. f[k] - 1

LEMMA VisitNext ==
    ASSUME NEW s, NEW f, NEW k \in Nat \ {0}, PartStart(s) \subseteq Nat \ {0}, Visited(s, f, k),
           f[k] = 0 => f[k + 1] = 0, f[k] # 0 => NextPart(s, f[k], f[k + 1])
    PROVE  Visited(s, f, k + 1)
<1>1. k \in 1 .. k + 1 /\ k + 1 \in 1 .. k + 1 /\ k + 1 - 1 = k /\ \A j \in 1 .. k : j \in 1 .. k + 1
  OBVIOUS
<1>2. CASE f[k] = 0
  <2>1. \A x \in PartStart(s) : \E j \in 1 .. k : f[j] = x
    BY <1>2 DEF Visited
  <2>2. \A x \in PartStart(s) : \E j \in 1 .. k + 1 : f[j] = x
    BY <1>1, <2>1
  <2> QED
    BY <1>2, <2>2 DEF Visited
<1>3. CASE f[k] # 0
  <2>1. PICK b \in Nat \ {0} : b = f[k]
    BY <1>3 DEF Visited
  <2>2. PICK x : x = f[k + 1]
    OBVIOUS
  <2>3. NextPart(s, b, x)
    BY <1>3, <2>1, <2>2
  <2>4. b \in PartStart(s) /\ k <= b /\ \A j \in 1 .. k - 1 : f[j] \in 1 .. b - 1
    BY <1>3, <2>1 DEF Visited
  <2>5. \A y \in PartStart(s) : (\E j \in 1 .. k : f[j] = y) \/ b < y
    BY <2>1 DEF Visited
  <2>6. CASE x = 0
    <3>1. \A y \in PartStart(s) : y <= b
      BY <2>3, <2>6 DEF NextPart
    <3>2. ASSUME NEW y \in PartStart(s)
          PROVE  \E j \in 1 .. k : f[j] = y
      <4>1. y <= b /\ y \in Nat
        BY <3>1
      <4> QED
        BY <2>5, <4>1
    <3>3. \A y \in PartStart(s) : \E j \in 1 .. k + 1 : f[j] = y
      BY <1>1, <3>2
    <3> QED
      BY <2>2, <2>6, <3>3 DEF Visited
  <2>7. CASE x # 0
    <3>1. x \in PartStart(s) /\ b < x /\ \A y \in PartStart(s) : y <= b \/ x <= y
      BY <2>3, <2>7 DEF NextPart
    <3>2. x \in Nat /\ k + 1 <= x
      BY <2>4, <3>1
    <3>3. ASSUME NEW y \in PartStart(s)
          PROVE  (\E j \in 1 .. k + 1 : f[j] = y) \/ x < y
      <4>1. CASE \E j \in 1 .. k : f[j] = y
        BY <1>1, <4>1
      <4>2. CASE b < y
        <5>1. y \in Nat /\ x <= y
          BY <2>1, <3>1, <4>2
        <5>2. y = x \/ x < y
          BY <3>2, <5>1
        <5> QED
          BY <1>1, <2>2, <5>2
      <4> QED
        BY <2>5, <4>1, <4>2
    <3>4. ASSUME NEW j \in 1 .. k + 1 - 1
          PROVE  f[j] \in 1 .. x - 1
      <4>1. CASE j = k
        BY <2>1, <3>1, <3>2, <4>1
      <4>2. CASE j # k
        <5>1. j \in 1 .. k - 1
          BY <4>2
        <5>2. PICK y \in 1 .. b - 1 : y = f[j]
          BY <2>4, <5>1
        <5> QED
          BY <3>1, <3>2, <5>2
      <4> QED
        BY <4>1, <4>2
    <3> QED
      BY <2>2, <2>7, <3>1, <3>2, <3>3, <3>4 DEF Visited
  <2> QED
    BY <2>6, <2>7
<1> QED
  BY <1>2, <1>3

(* A list in which every part has a URL is read part by part: the calls of *)
(* sohu_parse_m3u8_response start at the parts, each once and in order,    *)
(* however many there are, and each takes the URL of its own part.         *)
THEOREM M3u8PartsAsked ==
    ASSUME NEW C, NEW s \in Seq(C), \A b \in PartStart(s) : PartUrl(s, b) # {}
    PROVE  M3u8Right(s)
<1>1. PICK n \in Nat : n = Len(s)
  OBVIOUS
<1>2. PICK f : f = M3u8Calls(s)
  OBVIOUS
<1>3. /\ DOMAIN f = 1 .. n + 1
      /\ f[1] = 1
      /\ \A k \in 1 .. n : f[k + 1] = IF f[k] = 0 THEN 0 ELSE ParseM3u8(s, f[k]).next
  BY <1>1, <1>2, CallsAre
<1>4. PartStart(s) \subseteq Nat \ {0} /\ 1 \in PartStart(s) /\ \A x \in PartStart(s) : x <= n + 1
  <2>1. DOMAIN s = 1 .. n
    BY <1>1
  <2> QED
    BY <2>1 DEF PartStart
<1>5. \A b \in PartStart(s) :
         /\ \E u \in PartUrl(s, b) : ParseM3u8(s, b).url = IF Len(u) < FileUrlMax THEN u ELSE <<>>
         /\ NextPart(s, b, ParseM3u8(s, b).next)
  BY CallOfPart
<1> DEFINE S == {k \in 1 .. n + 1 : Visited(s, f, k)}
<1>6. 1 \in S
  <2>1. \A x \in PartStart(s) : (\E j \in 1 .. 1 : f[j] = x) \/ (f[1] # 0 /\ f[1] < x)
    <3>1. ASSUME NEW x \in PartStart(s)
          PROVE  x = 1 \/ 1 < x
      BY <1>4
    <3>2. 1 \in 1 .. 1
      OBVIOUS
    <3> QED
      BY <1>3, <3>1, <3>2
  <2>2. Visited(s, f, 1)
    BY <1>3, <1>4, <2>1 DEF Visited
  <2> QED
    BY <2>2
<1>7. ASSUME NEW k \in 1 .. n + 1, k \in S, k < n + 1
      PROVE  k + 1 \in S
  <2>1. k \in 1 .. n /\ k \in Nat \ {0} /\ k + 1 \in 1 .. n + 1
    BY <1>7
  <2>2. Visited(s, f, k)
    BY <1>7
  <2>3. f[k] = 0 => f[k + 1] = 0
    BY <1>3, <2>1
  <2>4. f[k] # 0 => NextPart(s, f[k], f[k + 1])
    <3>1. SUFFICES ASSUME f[k] # 0
                   PROVE  NextPart(s, f[k], f[k + 1])
      OBVIOUS
    <3>2. f[k] \in PartStart(s)
      BY <2>2, <3>1 DEF Visited
    <3>3. f[k + 1] = ParseM3u8(s, f[k]).next
      BY <1>3, <2>1, <3>1
    <3> QED
      BY <1>5, <3>2, <3>3
  <2>5. Visited(s, f, k + 1)
    BY <1>4, <2>1, <2>2, <2>3, <2>4, VisitNext
  <2> QED
    BY <2>1, <2>5
<1>8. 1 \in Nat /\ n + 1 \in Nat /\ n + 1 \in 1 .. n + 1
  OBVIOUS
<1>9. \A k \in 1 .. n + 1 : Visited(s, f, k)
  <2>1. \A k \in 1 .. n + 1 : k \in S
    <3> HIDE DEF S
    <3> QED
      BY <1>6, <1>7, <1>8, UpTo
  <2> QED
    BY <2>1
<1>10. {f[k] : k \in DOMAIN f} \ {0} = PartStart(s)
  <2>1. ASSUME NEW k \in 1 .. n + 1, f[k] # 0
        PROVE  f[k] \in PartStart(s)
    BY <1>9, <2>1 DEF Visited
  <2>2. ASSUME NEW x \in PartStart(s)
        PROVE  \E j \in 1 .. n + 1 : f[j] = x
    <3>1. Visited(s, f, n + 1)
      BY <1>8, <1>9
    <3>2. CASE f[n + 1] # 0
      <4>1. n + 1 <= f[n + 1] /\ f[n + 1] \in Nat /\ x <= n + 1 /\ x \in Nat
        BY <1>4, <3>1, <3>2 DEF Visited
      <4>2. ~(f[n + 1] < x)
        BY <4>1
      <4> QED
        BY <3>1, <4>2 DEF Visited
    <3> QED
      BY <3>1, <3>2 DEF Visited
  <2>3. 0 \notin PartStart(s)
    BY <1>4
  <2>4. ASSUME NEW x
        PROVE  x \in {f[k] : k \in DOMAIN f} \ {0} <=> x \in PartStart(s)
    BY <1>3, <2>1, <2>2, <2>3
  <2> QED
    BY <2>4, Zenon
<1>11. ASSUME NEW j \in DOMAIN f, NEW k \in DOMAIN f, j < k, f[k] # 0
       PROVE  f[j] \in 1 .. f[k] - 1
  <2>1. j \in 1 .. k - 1 /\ k \in 1 .. n + 1
    BY <1>3, <1>11
  <2> QED
    BY <1>9, <1>11, <2>1 DEF Visited
<1>12. ASSUME NEW k \in DOMAIN f, f[k] # 0
       PROVE  \E u \in PartUrl(s, f[k]) : M3u8Urls(s)[k] = IF Len(u) < FileUrlMax THEN u ELSE <<>>
  <2>1. f[k] \in PartStart(s)
    BY <1>3, <1>9, <1>12 DEF Visited
  <2>2. M3u8Urls(s)[k] = ParseM3u8(s, f[k]).url
    BY <1>2, <1>12 DEF M3u8Urls
  <2> QED
    BY <1>5, <2>1, <2>2
<1> QED
  BY <1>2, <1>10, <1>11, <1>12 DEF M3u8Right

-----------------------------------------------------------------------------
(* The letters of a text, and what deleting one of them leaves. *)
Vals(l) == {l[i] : i \in 1 .. Len(l)}
Distinct(l) == \A i, j \in 1 .. Len(l) : l[i] = l[j] => i = j
Apart(l, n) == \A i, j \in 1 .. n : l[i] = l[j] => i = j

LEMMA Deleted ==
    ASSUME NEW C, NEW l \in Seq(C), NEW p \in 1 .. Len(l)
    PROVE  /\ RemoveAt(l, p) \in Seq(C) /\ Len(RemoveAt(l, p)) = Len(l) - 1
           /\ \A i \in 1 .. Len(l) - 1 : RemoveAt(l, p)[i] = IF i < p THEN l[i] ELSE l[i + 1]
<1>1. PICK n \in Nat : n = Len(l)
  OBVIOUS
<1> DEFINE a == SubSeq(l, 1, p - 1)
           b == SubSeq(l, p + 1, n)
<1>2. a \in Seq(C) /\ Len(a) = p - 1 /\ \A i \in 1 .. p - 1 : a[i] = l[i]
  <2>1. 1 \in 1 .. n + 1 /\ p - 1 \in 1 - 1 .. n
    BY <1>1
  <2> QED
    BY <1>1, <2>1
<1>3. b \in Seq(C) /\ Len(b) = n - p /\ \A i \in 1 .. n - p : b[i] = l[i + p]
  <2>1. p + 1 \in 1 .. n + 1 /\ n \in p .. n
    BY <1>1
  <2>2. b \in Seq(C) /\ Len(b) = n - p
    BY <1>1, <2>1
  <2>3. ASSUME NEW i \in 1 .. n - p
        PROVE  b[i] = l[i + p]
    <3>1. b[i] = l[p + 1 + i - 1] /\ p + 1 + i - 1 = i + p
      BY <1>1, <2>1
    <3> HIDE DEF b
    <3> QED
      BY <3>1
  <2> QED
    BY <2>2, <2>3
<1>4. RemoveAt(l, p) = a \o b
  BY <1>1 DEF RemoveAt
<1> HIDE DEF a, b
<1>5. /\ a \o b \in Seq(C) /\ Len(a \o b) = n - 1
      /\ \A i \in 1 .. n - 1 : (a \o b)[i] = IF i <= p - 1 THEN a[i] ELSE b[i - (p - 1)]
  <2>5. p - 1 \in Nat /\ n - p \in Nat
    BY <1>1
  <2>1. PICK k \in Nat, m \in Nat : k = p - 1 /\ m = n - p
    BY <2>5, Zenon
  <2>2. Len(a) = k /\ Len(b) = m /\ n - 1 = k + m
    BY <1>2, <1>3, <2>1
  <2>3. a \in Seq(C) /\ b \in Seq(C)
    BY <1>2, <1>3
  <2>4. /\ a \o b \in Seq(C) /\ Len(a \o b) = k + m
        /\ \A i \in 1 .. k + m : (a \o b)[i] = IF i <= k THEN a[i] ELSE b[i - k]
    BY <2>2, <2>3
  <2> QED
    BY <2>1, <2>2, <2>4
<1>6. ASSUME NEW i \in 1 .. n - 1
      PROVE  (a \o b)[i] = IF i < p THEN l[i] ELSE l[i + 1]
  <2>1. CASE i < p
    <3>1. i \in 1 .. p - 1 /\ i <= p - 1
      BY <1>1, <2>1
    <3> QED
      BY <1>2, <1>5, <2>1, <3>1
  <2>2. CASE ~(i < p)
    <3>1. i - (p - 1) \in 1 .. n - p /\ ~(i <= p - 1) /\ i - (p - 1) + p = i + 1
      BY <1>1, <2>2
    <3>2. b[i - (p - 1)] = l[i + 1]
      BY <1>3, <3>1
    <3> QED
      BY <1>5, <2>2, <3>1, <3>2
  <2> QED
    BY <2>1, <2>2
<1> QED
  BY <1>1, <1>4, <1>5, <1>6

LEMMA DeletedVals ==
    ASSUME NEW C, NEW l \in Seq(C), NEW p \in 1 .. Len(l), Distinct(l)
    PROVE  Distinct(RemoveAt(l, p)) /\ Vals(RemoveAt(l, p)) = Vals(l) \ {l[p]}
<1>1. PICK n \in Nat : n = Len(l)
  OBVIOUS
<1>2. PICK r : r = RemoveAt(l, p)
  OBVIOUS
<1>3. Len(r) = n - 1 /\ \A i \in 1 .. n - 1 : r[i] = IF i < p THEN l[i] ELSE l[i + 1]
  BY <1>1, <1>2, Deleted
<1>4. \A i, j \in 1 .. n : l[i] = l[j] => i = j
  BY <1>1 DEF Distinct
<1>5. Distinct(r)
  <2>1. SUFFICES ASSUME NEW i \in 1 .. n - 1, NEW j \in 1 .. n - 1, r[i] = r[j]
                 PROVE  i = j
    BY <1>3 DEF Distinct
  <2>2. PICK x \in 1 .. n : x = IF i < p THEN i ELSE i + 1
    BY <1>1
  <2>3. PICK y \in 1 .. n : y = IF j < p THEN j ELSE j + 1
    BY <1>1
  <2>4. l[x] = l[y]
    BY <1>3, <2>1, <2>2, <2>3
  <2>5. x = y
    BY <1>4, <2>4
  <2> QED
    BY <1>1, <2>2, <2>3, <2>5
<1>6. Vals(r) = Vals(l) \ {l[p]}
  <2>1. p \in 1 .. n
    BY <1>1
  <2>2. ASSUME NEW i \in 1 .. n - 1
        PROVE  \E x \in 1 .. n : x # p /\ r[i] = l[x]
    <3>1. CASE i < p
      BY <1>3, <3>1
    <3>2. CASE ~(i < p)
      <4>1. i + 1 \in 1 .. n /\ i + 1 # p
        BY <2>1, <3>2
      <4> QED
        BY <1>3, <3>2, <4>1
    <3> QED
      BY <3>1, <3>2
  <2>3. ASSUME NEW x \in 1 .. n, x # p
        PROVE  \E i \in 1 .. n - 1 : r[i] = l[x]
    <3>1. CASE x < p
      <4>1. x \in 1 .. n - 1
        BY <2>1, <3>1
      <4> QED
        BY <1>3, <3>1, <4>1
    <3>2. CASE ~(x < p)
      <4>1. x - 1 \in 1 .. n - 1 /\ ~(x - 1 < p) /\ x - 1 + 1 = x
        BY <2>1, <2>3, <3>2
      <4>2. r[x - 1] = l[x]
        BY <1>3, <4>1
      <4> QED
        BY <4>1, <4>2
    <3> QED
      BY <3>1, <3>2
  <2>4. \A x \in 1 .. n : x # p <=> l[x] # l[p]
    BY <1>4, <2>1
  <2>5. ASSUME NEW v
        PROVE  v \in Vals(r) <=> v \in Vals(l) \ {l[p]}
    <3>1. v \in Vals(r) <=> \E i \in 1 .. n - 1 : v = r[i]
      BY <1>3 DEF Vals
    <3>2. v \in Vals(l) <=> \E x \in 1 .. n : v = l[x]
      BY <1>1 DEF Vals
    <3>3. ASSUME v \in Vals(r)
          PROVE  v \in Vals(l) \ {l[p]}
      <4>1. PICK i \in 1 .. n - 1 : v = r[i]
        BY <3>1, <3>3
      <4>2. PICK x \in 1 .. n : x # p /\ v = l[x]
        BY <2>2, <4>1
      <4> QED
        BY <2>4, <3>2, <4>2
    <3>4. ASSUME v \in Vals(l) \ {l[p]}
          PROVE  v \in Vals(r)
      <4>1. PICK x \in 1 .. n : v = l[x]
        BY <3>2, <3>4
      <4>2. x # p
        BY <3>4, <4>1
      <4> QED
        BY <2>3, <3>1, <4>1, <4>2
    <3> QED
      BY <3>3, <3>4
  <2> QED
    BY <2>5, Zenon
<1> QED
  BY <1>2, <1>5, <1>6

(* The values of the seed after the first; the numeral is kept out of the  *)
(* provers' sight but for the two lemmas that need it.                     *)
Bits16 == 0 .. 65535

Low16(x) == x % 65536

LEMMA SeedBits ==
    ASSUME NEW d \in Nat
    PROVE  Zf(d) \in Bits16
<1>1. ASSUME NEW x \in Nat
      PROVE  Low16(x) \in Bits16
  BY SMTT(30) DEF Low16, Bits16
<1>2. d * 211 + 30031 \in Nat
  BY SMT
<1>3. Zf(d) = Low16(d * 211 + 30031)
  BY SMT DEF Zf, Low16
<1>4. PICK x \in Nat : x = d * 211 + 30031
  BY <1>2, SMT
<1>5. Zf(d) = Low16(x)
  BY <1>3, <1>4, SMT
<1> QED
  BY <1>1, <1>5, SMTT(30)

(* The index ranom8T takes is one of the letters that are left. *)
LEMMA PickInside ==
    ASSUME NEW b \in Bits16, NEW m \in Nat \ {0}
    PROVE  Pick(b, m) \in 0 .. m - 1
<1>0. PICK d \in 0 .. 65535 : d = b
  BY SMTT(30) DEF Bits16
<1>1. PICK x \in Nat : x = d * m
  BY SMTT(30)
<1>2. x <= 65535 * m
  <2>1. PICK e \in Nat : e = 65535 - d
    BY SMTT(30)
  <2>2. e * m >= 0
    BY SMTT(30)
  <2>3. e * m = 65535 * m - d * m
    BY <2>1, SMTT(30)
  <2> QED
    BY <1>1, <2>2, <2>3, SMTT(30)
<1>3. x < 65536 * m
  BY <1>2, SMTT(30)
<1>4. x \div 65536 \in 0 .. m - 1
  BY <1>3, SMT
<1> QED
  BY <1>0, <1>1, <1>4, SMTT(30) DEF Pick

(* The values of the seed, and the letters left before each is taken. *)
SeedEq(dt, n, seed) == dt = [i \in 0 .. n |-> IF i = 0 THEN seed ELSE Zf(dt[i - 1])]
LeftEq(left, letters, dt) ==
    left = [i \in 1 .. Len(letters) |->
              IF i = 1 THEN letters
              ELSE RemoveAt(left[i - 1], Pick(dt[i - 1], Len(left[i - 1])) + 1)]

LEMMA SeedsExist ==
    ASSUME NEW n \in Nat, NEW seed \in Nat
    PROVE  \E dt : SeedEq(dt, n, seed)
<1> DEFINE F == [p \in (0 .. n) \X Nat |-> Zf(p[2])]
<1>1. \A d \in Nat : Zf(d) \in Nat
  BY SMT DEF Zf
<1>2. F \in [(0 .. n) \X Nat -> Nat]
  BY <1>1
<1>3. 0 \in Nat /\ 0 <= n
  OBVIOUS
<1>4. PICK f : Turned(f, 0, n, Nat, seed, F)
  <2> HIDE DEF F
  <2> QED
    BY <1>2, <1>3, Iterated
<1>5. f \in [0 .. n -> Nat] /\ f[0] = seed /\ \A k \in 0 + 1 .. n : f[k] = F[<<k, f[k - 1]>>]
  BY <1>4 DEF Turned
<1>6. ASSUME NEW i \in 0 .. n
      PROVE  f[i] = IF i = 0 THEN seed ELSE Zf(f[i - 1])
  <2>1. CASE i = 0
    BY <1>5, <2>1
  <2>2. CASE i # 0
    <3>1. i \in 0 + 1 .. n /\ i - 1 \in 0 .. n
      BY <2>2
    <3>2. PICK q : q = <<i, f[i - 1]>>
      OBVIOUS
    <3>3. q \in (0 .. n) \X Nat /\ q[2] = f[i - 1]
      BY <1>5, <3>1, <3>2
    <3>4. F[q] = Zf(q[2])
      BY <3>3
    <3>5. f[i] = F[q]
      BY <1>5, <3>1, <3>2
    <3> HIDE DEF F
    <3> QED
      BY <2>2, <3>3, <3>4, <3>5
  <2> QED
    BY <2>1, <2>2
<1>7. f = [i \in 0 .. n |-> f[i]]
  BY <1>5
<1>8. [i \in 0 .. n |-> f[i]] = [i \in 0 .. n |-> IF i = 0 THEN seed ELSE Zf(f[i - 1])]
  BY <1>6
<1> QED
  BY <1>7, <1>8, Zenon DEF SeedEq

LEMMA SeedsInside ==
    ASSUME NEW n \in Nat, NEW seed \in Nat, NEW dt, SeedEq(dt, n, seed)
    PROVE  \A i \in 1 .. n : dt[i] \in Bits16
<1>1. \A i \in 0 .. n : dt[i] = IF i = 0 THEN seed ELSE Zf(dt[i - 1])
  BY DEF SeedEq
<1> DEFINE S == {i \in 0 .. n : dt[i] \in Nat}
<1>2. 0 \in S
  BY <1>1
<1>3. \A d \in Nat : Zf(d) \in Bits16 /\ Zf(d) \in Nat
  <2>1. \A b \in Bits16 : b \in Nat
    BY SMT DEF Bits16
  <2> QED
    BY <2>1, SeedBits
<1>4. ASSUME NEW i \in 0 .. n, i \in S, i < n
      PROVE  i + 1 \in S
  <2>1. i + 1 \in 0 .. n /\ i + 1 # 0 /\ i + 1 - 1 = i /\ dt[i] \in Nat
    BY <1>4
  <2>2. dt[i + 1] = Zf(dt[i])
    BY <1>1, <2>1
  <2>3. dt[i + 1] \in Nat
    BY <1>3, <2>1, <2>2
  <2> QED
    BY <2>1, <2>3
<1>5. \A i \in 0 .. n : i \in S
  <2>1. 0 \in Nat
    OBVIOUS
  <2> HIDE DEF S
  <2> QED
    BY <1>2, <1>4, <2>1, UpTo
<1>6. ASSUME NEW i \in 1 .. n
      PROVE  dt[i] \in Bits16
  <2>1. i \in 0 .. n /\ i # 0 /\ i - 1 \in 0 .. n
    OBVIOUS
  <2>2. dt[i] = Zf(dt[i - 1]) /\ dt[i - 1] \in Nat
    BY <1>1, <1>5, <2>1
  <2> QED
    BY <1>3, <2>2
<1> QED
  BY <1>6

LEMMA LeftExists ==
    ASSUME NEW C, NEW letters \in Seq(C), NEW n \in Nat \ {0}, n = Len(letters), NEW dt,
           \A i \in 1 .. n : dt[i] \in Bits16
    PROVE  \E left : LeftEq(left, letters, dt)
<1> DEFINE A == Seq(C)
           at(i, l) == Pick(dt[i - 1], Len(l)) + 1
           F == [p \in (1 .. n) \X A |->
                   IF at(p[1], p[2]) \in 1 .. Len(p[2]) THEN RemoveAt(p[2], at(p[1], p[2])) ELSE <<>>]
<1>1. F \in [(1 .. n) \X A -> A]
  <2>1. ASSUME NEW p \in (1 .. n) \X A
        PROVE  (IF at(p[1], p[2]) \in 1 .. Len(p[2]) THEN RemoveAt(p[2], at(p[1], p[2])) ELSE <<>>) \in A
    <3>1. PICK l \in Seq(C) : l = p[2]
      OBVIOUS
    <3>2. PICK k : k = at(p[1], p[2])
      OBVIOUS
    <3>3. k \in 1 .. Len(l) => RemoveAt(l, k) \in Seq(C)
      BY Deleted
    <3>4. <<>> \in Seq(C)
      OBVIOUS
    <3> HIDE DEF at
    <3> QED
      BY <3>1, <3>2, <3>3, <3>4
  <2> HIDE DEF at, A
  <2> QED
    BY <2>1
<1>2. 1 \in Nat /\ n \in Nat /\ 1 <= n /\ letters \in A
  OBVIOUS
<1>3. PICK f : Turned(f, 1, n, A, letters, F)
  <2> HIDE DEF A, F
  <2> QED
    BY <1>1, <1>2, Iterated
<1>4. f \in [1 .. n -> A] /\ f[1] = letters /\ \A k \in 1 + 1 .. n : f[k] = F[<<k, f[k - 1]>>]
  BY <1>3 DEF Turned
<1>5. ASSUME NEW k \in 1 .. n, k # 1, Len(f[k - 1]) \in Nat \ {0}
      PROVE  /\ f[k] = RemoveAt(f[k - 1], Pick(dt[k - 1], Len(f[k - 1])) + 1)
             /\ Len(f[k]) = Len(f[k - 1]) - 1
  <2>1. k \in 1 + 1 .. n /\ k - 1 \in 1 .. n
    BY <1>5
  <2>2. PICK l \in Seq(C) : l = f[k - 1]
    BY <1>4, <2>1
  <2>3. PICK d \in Bits16 : d = dt[k - 1]
    BY <2>1
  <2>4. PICK m \in Nat \ {0} : m = Len(l)
    BY <1>5, <2>2
  <2>5. Pick(d, m) \in 0 .. m - 1
    BY PickInside
  <2>6. PICK x \in 1 .. m : x = Pick(d, m) + 1
    BY <2>5
  <2>7. PICK q : q = <<k, l>>
    OBVIOUS
  <2>8. q \in (1 .. n) \X A /\ q[1] = k /\ q[2] = l
    BY <2>7
  <2>9. at(k, l) = x
    BY <2>3, <2>4, <2>6
  <2>10. F[q] = RemoveAt(l, x)
    <3>1. F[q] = IF at(q[1], q[2]) \in 1 .. Len(q[2]) THEN RemoveAt(q[2], at(q[1], q[2])) ELSE <<>>
      BY <2>8
    <3> HIDE DEF F, at
    <3> QED
      BY <2>4, <2>8, <2>9, <3>1
  <2>11. f[k] = RemoveAt(l, x)
    <3>1. f[k] = F[<<k, f[k - 1]>>]
      BY <1>4, <2>1
    <3> HIDE DEF F
    <3> QED
      BY <2>2, <2>7, <2>10, <3>1
  <2>12. Len(RemoveAt(l, x)) = m - 1
    BY <2>4, Deleted
  <2> QED
    BY <2>2, <2>3, <2>4, <2>6, <2>11, <2>12
<1> DEFINE S == {k \in 1 .. n : Len(f[k]) = n - k + 1}
<1>6. 1 \in S
  BY <1>4
<1>7. ASSUME NEW k \in 1 .. n, k \in S, k < n
      PROVE  k + 1 \in S
  <2>1. k + 1 \in 1 .. n /\ k + 1 # 1 /\ k + 1 - 1 = k
    BY <1>7
  <2>2. Len(f[k]) = n - k + 1
    BY <1>7
  <2>3. Len(f[k]) \in Nat \ {0}
    BY <1>7, <2>2
  <2> HIDE DEF F, A
  <2>4. Len(f[k + 1]) = Len(f[k]) - 1
    BY <1>5, <2>1, <2>3
  <2> QED
    BY <2>1, <2>2, <2>4
<1>8. \A k \in 1 .. n : Len(f[k]) = n - k + 1
  <2>1. \A k \in 1 .. n : k \in S
    <3> HIDE DEF S
    <3> QED
      BY <1>2, <1>6, <1>7, UpTo
  <2> QED
    BY <2>1
<1> HIDE DEF F
<1>9. ASSUME NEW k \in 1 .. n
      PROVE  f[k] = IF k = 1 THEN letters
                    ELSE RemoveAt(f[k - 1], Pick(dt[k - 1], Len(f[k - 1])) + 1)
  <2>1. CASE k = 1
    BY <1>4, <2>1
  <2>2. CASE k # 1
    <3>1. k - 1 \in 1 .. n
      BY <2>2
    <3>2. Len(f[k - 1]) = n - (k - 1) + 1
      BY <1>8, <3>1
    <3>3. Len(f[k - 1]) \in Nat \ {0}
      BY <3>2
    <3> QED
      BY <1>5, <2>2, <3>3
  <2> QED
    BY <2>1, <2>2
<1>10. f = [k \in 1 .. n |-> f[k]]
  BY <1>4
<1>11. [k \in 1 .. n |-> f[k]] =
         [k \in 1 .. n |-> IF k = 1 THEN letters ELSE RemoveAt(f[k - 1], Pick(dt[k - 1], Len(f[k - 1])) + 1)]
  BY <1>9
<1> QED
  BY <1>10, <1>11, Zenon DEF LeftEq

(* The place taken in the letters left, and the letter there. *)
Spot(left, dt, i) == Pick(dt[i], Len(left[i])) + 1
Taken(left, dt, i) == left[i][Spot(left, dt, i)]

(* What ranom8T keeps from turn to turn: the letters left are all          *)
(* different, one fewer at each turn.                                      *)
LeftOk(C, n, l, i) == l \in Seq(C) /\ Len(l) = n - i + 1 /\ Distinct(l)

LEMMA SpotInside ==
    ASSUME NEW C, NEW n \in Nat, NEW dt, \A i \in 1 .. n : dt[i] \in Bits16,
           NEW left, NEW i \in 1 .. n, LeftOk(C, n, left[i], i)
    PROVE  Spot(left, dt, i) \in 1 .. Len(left[i])
<1>1. PICK d \in Bits16 : d = dt[i]
  OBVIOUS
<1>2. PICK m \in Nat \ {0} : m = Len(left[i])
  BY DEF LeftOk
<1>3. Pick(d, m) \in 0 .. m - 1
  BY PickInside
<1>4. Spot(left, dt, i) = Pick(d, m) + 1
  BY <1>1, <1>2, Zenon DEF Spot
<1> QED
  BY <1>2, <1>3, <1>4

(* One turn leaves the letters it found but the one it took. *)
Shorter(left, dt, i) == Vals(left[i + 1]) = Vals(left[i]) \ {Taken(left, dt, i)}

LEMMA LeftTurn ==
    ASSUME NEW C, NEW n \in Nat, NEW letters, n = Len(letters), NEW dt, \A i \in 1 .. n : dt[i] \in Bits16,
           NEW left, LeftEq(left, letters, dt), NEW i \in 1 .. n, i < n, LeftOk(C, n, left[i], i)
    PROVE  LeftOk(C, n, left[i + 1], i + 1) /\ Shorter(left, dt, i)
<1>1. PICK l \in Seq(C) : l = left[i]
  BY DEF LeftOk
<1>2. Len(l) = n - i + 1 /\ Distinct(l)
  BY <1>1 DEF LeftOk
<1>3. PICK p : p = Spot(left, dt, i)
  OBVIOUS
<1>4. p \in 1 .. Len(l)
  BY <1>1, <1>3, SpotInside
<1>5. left[i + 1] = RemoveAt(l, p)
  <2>1. \A k \in 1 .. n : left[k] = IF k = 1 THEN letters ELSE RemoveAt(left[k - 1], Pick(dt[k - 1], Len(left[k - 1])) + 1)
    BY DEF LeftEq
  <2>2. i + 1 \in 1 .. n /\ i + 1 # 1 /\ i + 1 - 1 = i
    OBVIOUS
  <2>3. left[i + 1] = RemoveAt(left[i], Pick(dt[i], Len(left[i])) + 1)
    BY <2>1, <2>2
  <2> QED
    BY <1>1, <1>3, <2>3, Zenon DEF Spot
<1>6. PICK r : r = RemoveAt(l, p)
  OBVIOUS
<1>7. r \in Seq(C) /\ Len(r) = Len(l) - 1
  BY <1>4, <1>6, Deleted
<1>8. Distinct(r) /\ Vals(r) = Vals(l) \ {l[p]}
  BY <1>2, <1>4, <1>6, DeletedVals
<1>9. Taken(left, dt, i) = l[p]
  BY <1>1, <1>3, Zenon DEF Taken
<1>10. Len(r) = n - (i + 1) + 1
  BY <1>2, <1>7
<1> QED
  BY <1>1, <1>5, <1>6, <1>7, <1>8, <1>9, <1>10, Zenon DEF LeftOk, Shorter

LEMMA LeftAlways ==
    ASSUME NEW C, NEW n \in Nat \ {0}, NEW letters \in Seq(C), n = Len(letters), Distinct(letters),
           NEW dt, \A i \in 1 .. n : dt[i] \in Bits16, NEW left, LeftEq(left, letters, dt)
    PROVE  \A i \in 1 .. n : LeftOk(C, n, left[i], i)
<1> DEFINE S == {i \in 1 .. n : LeftOk(C, n, left[i], i)}
<1>1. left[1] = letters
  BY DEF LeftEq
<1>2. 1 \in S
  <2>1. Len(letters) = n - 1 + 1
    OBVIOUS
  <2> QED
    BY <1>1, <2>1 DEF LeftOk
<1>3. ASSUME NEW i \in 1 .. n, i \in S, i < n
      PROVE  i + 1 \in S
  <2>1. LeftOk(C, n, left[i + 1], i + 1)
    BY <1>3, LeftTurn
  <2> QED
    BY <1>3, <2>1
<1>4. \A i \in 1 .. n : i \in S
  <2>1. 1 \in Nat /\ n \in Nat
    OBVIOUS
  <2> HIDE DEF S
  <2> QED
    BY <1>2, <1>3, <2>1, UpTo
<1> QED
  BY <1>4

(* A letter once taken is not left later, and one not taken is still left. *)
LEMMA TakenGone ==
    ASSUME NEW C, NEW n \in Nat \ {0}, NEW letters \in Seq(C), n = Len(letters), Distinct(letters),
           NEW dt, \A i \in 1 .. n : dt[i] \in Bits16, NEW left, LeftEq(left, letters, dt)
    PROVE  /\ \A i \in 1 .. n : Taken(left, dt, i) \in Vals(left[i])
           /\ \A i, j \in 1 .. n : i < j => Taken(left, dt, i) \notin Vals(left[j])
           /\ \A v \in Vals(letters), i \in 1 .. n :
                 v \in Vals(left[i]) \/ \E j \in 1 .. n : j < i /\ v = Taken(left, dt, j)
<1>1. \A i \in 1 .. n : LeftOk(C, n, left[i], i)
  BY LeftAlways
<1>2. ASSUME NEW i \in 1 .. n, i < n
      PROVE  Vals(left[i + 1]) = Vals(left[i]) \ {Taken(left, dt, i)}
  <2>1. n \in Nat /\ LeftOk(C, n, left[i], i)
    BY <1>1
  <2>2. Shorter(left, dt, i)
    BY <1>2, <2>1, LeftTurn
  <2> QED
    BY <2>2 DEF Shorter
<1>3. left[1] = letters
  BY DEF LeftEq
<1>4. ASSUME NEW i \in 1 .. n
      PROVE  Taken(left, dt, i) \in Vals(left[i])
  <2>1. Spot(left, dt, i) \in 1 .. Len(left[i])
    BY <1>1, SpotInside
  <2> QED
    BY <2>1 DEF Taken, Vals
<1>5. ASSUME NEW i \in 1 .. n, NEW j \in 1 .. n, i < j
      PROVE  Taken(left, dt, i) \notin Vals(left[j])
  <2> DEFINE S == {k \in i + 1 .. n : Taken(left, dt, i) \notin Vals(left[k])}
  <2>1. i + 1 \in S
    <3>1. i < n /\ i + 1 \in i + 1 .. n
      BY <1>5
    <3> QED
      BY <1>2, <3>1
  <2>2. ASSUME NEW k \in i + 1 .. n, k \in S, k < n
        PROVE  k + 1 \in S
    <3>1. k \in 1 .. n /\ k + 1 \in i + 1 .. n
      BY <2>2
    <3>2. Vals(left[k + 1]) = Vals(left[k]) \ {Taken(left, dt, k)}
      BY <1>2, <2>2, <3>1
    <3> QED
      BY <2>2, <3>1, <3>2
  <2>3. \A k \in i + 1 .. n : k \in S
    <3>1. PICK a \in Nat : a = i + 1
      OBVIOUS
    <3>2. a \in S /\ \A k \in a .. n : k \in S /\ k < n => k + 1 \in S
      BY <2>1, <2>2, <3>1
    <3> HIDE DEF S
    <3>3. \A k \in a .. n : k \in S
      BY <3>2, UpTo
    <3> QED
      BY <3>1, <3>3
  <2>4. j \in i + 1 .. n
    BY <1>5
  <2> QED
    BY <2>3, <2>4
<1>6. ASSUME NEW v \in Vals(letters), NEW i \in 1 .. n
      PROVE  v \in Vals(left[i]) \/ \E j \in 1 .. n : j < i /\ v = Taken(left, dt, j)
  <2> DEFINE S == {k \in 1 .. n : v \in Vals(left[k]) \/ \E j \in 1 .. n : j < k /\ v = Taken(left, dt, j)}
  <2>1. 1 \in S
    BY <1>3
  <2>2. ASSUME NEW k \in 1 .. n, k \in S, k < n
        PROVE  k + 1 \in S
    <3>1. k + 1 \in 1 .. n /\ k < k + 1
      BY <2>2
    <3>2. Vals(left[k + 1]) = Vals(left[k]) \ {Taken(left, dt, k)}
      BY <1>2, <2>2
    <3>3. CASE v \in Vals(left[k])
      BY <3>1, <3>2, <3>3
    <3>4. CASE \E j \in 1 .. n : j < k /\ v = Taken(left, dt, j)
      <4>1. PICK j \in 1 .. n : j < k /\ v = Taken(left, dt, j)
        BY <3>4
      <4>2. j < k + 1
        BY <4>1
      <4> QED
        BY <3>1, <4>1, <4>2
    <3> QED
      BY <2>2, <3>3, <3>4
  <2>3. \A k \in 1 .. n : k \in S
    <3>1. 1 \in Nat /\ n \in Nat
      OBVIOUS
    <3> HIDE DEF S
    <3> QED
      BY <2>1, <2>2, <3>1, UpTo
  <2> QED
    BY <2>3
<1> QED
  BY <1>4, <1>5, <1>6

(* The letters in another order: none is lost and none is there twice. *)
Mixes(mixed, letters) ==
    /\ DOMAIN mixed = 1 .. Len(letters) /\ Apart(mixed, Len(letters))
    /\ {mixed[i] : i \in 1 .. Len(letters)} = Vals(letters)

(* ranom8T mixes the letters: it loses none and gives none twice, whatever *)
(* the seed.                                                               *)
THEOREM LettersMixed ==
    ASSUME NEW C, NEW letters \in Seq(C), letters # <<>>, Distinct(letters), NEW seed \in Nat
    PROVE  Mixes(Shuffle(letters, seed), letters)
<1>1. PICK n \in Nat \ {0} : n = Len(letters)
  OBVIOUS
<1> DEFINE dt == CHOOSE f : SeedEq(f, Len(letters), seed)
           left == CHOOSE f : LeftEq(f, letters, dt)
           mixed == Shuffle(letters, seed)
<1>2. SeedEq(dt, n, seed)
  <2>1. \E f : SeedEq(f, n, seed)
    BY SeedsExist
  <2>2. SeedEq(dt, Len(letters), seed)
    BY <1>1, <2>1
  <2> HIDE DEF dt
  <2> QED
    BY <1>1, <2>2
<1>3. \A i \in 1 .. n : dt[i] \in Bits16
  <2>1. PICK d : d = dt
    OBVIOUS
  <2>2. SeedEq(d, n, seed)
    BY <1>2, <2>1
  <2> HIDE DEF dt
  <2>3. \A i \in 1 .. n : d[i] \in Bits16
    BY <2>2, SeedsInside
  <2> QED
    BY <2>1, <2>3
<1>4. LeftEq(left, letters, dt)
  <2>1. PICK d : d = dt
    OBVIOUS
  <2> HIDE DEF dt
  <2>2. \A i \in 1 .. n : d[i] \in Bits16
    BY <1>3, <2>1
  <2>3. \E f : LeftEq(f, letters, d)
    BY <1>1, <2>2, LeftExists
  <2> QED
    BY <2>1, <2>3
<1>5. mixed = [i \in 1 .. n |-> Taken(left, dt, i)]
  <2>1. DOMAIN letters = 1 .. n
    BY <1>1
  <2>2. mixed = [i \in DOMAIN letters |-> left[i][Pick(dt[i], Len(left[i])) + 1]]
    BY Zenon DEF Shuffle, SeedEq, LeftEq
  <2> QED
    BY <2>1, <2>2, Zenon DEF Taken, Spot
<1>6. PICK m, d, f : m = mixed /\ d = dt /\ f = left
  OBVIOUS
<1> HIDE DEF mixed, left, dt
<1>7. LeftEq(f, letters, d) /\ \A i \in 1 .. n : d[i] \in Bits16
  BY <1>3, <1>4, <1>6
<1>8. /\ \A i \in 1 .. n : Taken(f, d, i) \in Vals(f[i])
      /\ \A i, j \in 1 .. n : i < j => Taken(f, d, i) \notin Vals(f[j])
      /\ \A v \in Vals(letters), i \in 1 .. n :
            v \in Vals(f[i]) \/ \E j \in 1 .. n : j < i /\ v = Taken(f, d, j)
  BY <1>1, <1>7, TakenGone
<1>9. \A i \in 1 .. n : LeftOk(C, n, f[i], i)
  BY <1>1, <1>7, LeftAlways
<1>10. m = [i \in 1 .. n |-> Taken(f, d, i)]
  BY <1>5, <1>6
<1>11. \A i, j \in 1 .. n : m[i] = m[j] => i = j
  <2>1. SUFFICES ASSUME NEW i \in 1 .. n, NEW j \in 1 .. n, i < j
                 PROVE  m[i] # m[j]
    OBVIOUS
  <2> QED
    BY <1>8, <1>10, <2>1
<1>12. ASSUME NEW i \in 1 .. n
       PROVE  m[i] \in Vals(letters)
  <2> DEFINE S == {k \in 1 .. n : Vals(f[k]) \subseteq Vals(letters)}
  <2>1. 1 \in S
    BY <1>7 DEF LeftEq
  <2>2. ASSUME NEW k \in 1 .. n, k \in S, k < n
        PROVE  k + 1 \in S
    <3>1. Vals(f[k + 1]) = Vals(f[k]) \ {Taken(f, d, k)}
      <4>1. n \in Nat /\ LeftOk(C, n, f[k], k)
        BY <1>9
      <4>2. Shorter(f, d, k)
        BY <1>1, <1>7, <2>2, <4>1, LeftTurn
      <4> QED
        BY <4>2 DEF Shorter
    <3> QED
      BY <2>2, <3>1
  <2>3. \A k \in 1 .. n : k \in S
    <3>1. 1 \in Nat /\ n \in Nat
      OBVIOUS
    <3> HIDE DEF S
    <3> QED
      BY <2>1, <2>2, <3>1, UpTo
  <2> QED
    BY <1>8, <1>10, <2>3
<1>13. ASSUME NEW v \in Vals(letters)
       PROVE  \E i \in 1 .. n : v = m[i]
  <2>1. CASE \E j \in 1 .. n : j < n /\ v = Taken(f, d, j)
    BY <1>10, <2>1
  <2>2. CASE v \in Vals(f[n])
    <3>1. Len(f[n]) = 1
      <4>1. Len(f[n]) = n - n + 1
        BY <1>9 DEF LeftOk
      <4> QED
        BY <4>1
    <3>2. Taken(f, d, n) \in Vals(f[n])
      BY <1>8
    <3>3. Vals(f[n]) = {f[n][1]}
      BY <3>1 DEF Vals
    <3> QED
      BY <1>10, <2>2, <3>2, <3>3
  <2> QED
    BY <1>8, <2>1, <2>2
<1>14. {m[i] : i \in 1 .. n} = Vals(letters)
  BY <1>12, <1>13
<1>15. DOMAIN m = 1 .. n
  BY <1>10
<1>16. Mixes(m, letters)
  BY <1>1, <1>11, <1>14, <1>15, Zenon DEF Mixes, Apart
<1> QED
  BY <1>6, <1>16 DEF mixed

(* What two digits hold, and that the letters of the digits agree. *)
Byte == 0 .. 255
SameDigits(hex, no, no2) ==
    hex[Hex2(no)[1] + 1] = hex[Hex2(no2)[1] + 1] /\ hex[Hex2(no)[2] + 1] = hex[Hex2(no2)[2] + 1]

(* The two digits of a number below 256 give it back. *)
LEMMA HexApart ==
    ASSUME NEW hex, Apart(hex, 16),
           NEW no \in Byte, NEW no2 \in Byte,
           SameDigits(hex, no, no2)
    PROVE  no = no2
<1>1. \A x \in 0 .. 255 : x \div 16 \in 0 .. 15 /\ x % 16 \in 0 .. 15 /\ x = 16 * (x \div 16) + (x % 16)
  BY SMT
<1>2. \A x : Hex2(x)[1] = x \div 16 /\ Hex2(x)[2] = x % 16
  BY SMT DEF Hex2
<1>3. PICK a \in 0 .. 15 : a = no \div 16
  BY <1>1, SMT DEF Byte
<1>4. PICK b \in 0 .. 15 : b = no % 16
  BY <1>1, SMT DEF Byte
<1>5. PICK c \in 0 .. 15 : c = no2 \div 16
  BY <1>1, SMT DEF Byte
<1>6. PICK d \in 0 .. 15 : d = no2 % 16
  BY <1>1, SMT DEF Byte
<1>7. no = 16 * a + b /\ no2 = 16 * c + d
  BY <1>1, <1>3, <1>4, <1>5, <1>6, SMT DEF Byte
<1>8. hex[a + 1] = hex[c + 1] /\ hex[b + 1] = hex[d + 1]
  BY <1>2, <1>3, <1>4, <1>5, <1>6, SMT DEF SameDigits
<1>9. a + 1 = c + 1 /\ b + 1 = d + 1
  BY <1>8, SMT DEF Apart
<1> QED
  BY <1>7, <1>9, SMT

(* The id with two letters written over it. *)
Numbered(m, x, a, b) == [[i \in DOMAIN x |-> m[x[i] + 1]] EXCEPT ![9] = a, ![10] = b]
Shows(f, m, x, k, a, b) ==
    f[9] = a /\ f[10] = b /\ \A i \in 1 .. k : i # 9 /\ i # 10 => f[i] = m[x[i] + 1]
Same(m, x, a, b, y, c, d) == Numbered(m, x, a, b) = Numbered(m, y, c, d)
Fields(k, n) == [1 .. k -> 0 .. n - 1]
Agree(x, y, k) == \A i \in 1 .. k : i # 9 /\ i # 10 => x[i] = y[i]

LEMMA NumberedAt ==
    ASSUME NEW m, NEW x, NEW k \in Nat, k >= 10, DOMAIN x = 1 .. k, NEW a, NEW b
    PROVE  Shows(Numbered(m, x, a, b), m, x, k, a, b)
<1>1. PICK f : f = [i \in 1 .. k |-> m[x[i] + 1]]
  OBVIOUS
<1>2. Numbered(m, x, a, b) = [f EXCEPT ![9] = a, ![10] = b]
  BY <1>1, Zenon DEF Numbered
<1>3. 9 \in DOMAIN f /\ 10 \in DOMAIN f /\ DOMAIN f = 1 .. k
  BY <1>1
<1>4. PICK g : g = [f EXCEPT ![9] = a, ![10] = b]
  OBVIOUS
<1>5. g[9] = a /\ g[10] = b /\ \A i \in 1 .. k : i # 9 /\ i # 10 => g[i] = f[i]
  BY <1>3, <1>4
<1>6. Shows(g, m, x, k, a, b)
  BY <1>1, <1>5 DEF Shows
<1> QED
  BY <1>2, <1>4, <1>6, Zenon

LEMMA NumberedApart ==
    ASSUME NEW m, NEW n \in Nat, Apart(m, n), NEW k \in Nat, k >= 10,
           NEW ids \in Fields(k, n), NEW ids2 \in Fields(k, n),
           NEW a, NEW b, NEW c, NEW d, Same(m, ids, a, b, ids2, c, d)
    PROVE  a = c /\ b = d /\ Agree(ids, ids2, k)
<1>1. DOMAIN ids = 1 .. k /\ DOMAIN ids2 = 1 .. k
  BY DEF Fields
<1>2. PICK p : p = Numbered(m, ids, a, b)
  OBVIOUS
<1>3. Shows(p, m, ids, k, a, b)
  BY <1>1, <1>2, NumberedAt
<1>4. p = Numbered(m, ids2, c, d)
  BY <1>2, Zenon DEF Same
<1>5. Shows(p, m, ids2, k, c, d)
  BY <1>1, <1>4, NumberedAt
<1>6. ASSUME NEW i \in 1 .. k, i # 9, i # 10
      PROVE  ids[i] = ids2[i]
  <2>1. PICK x \in 0 .. n - 1 : x = ids[i]
    BY DEF Fields
  <2>2. PICK y \in 0 .. n - 1 : y = ids2[i]
    BY DEF Fields
  <2>3. m[x + 1] = m[y + 1]
    BY <1>3, <1>5, <1>6, <2>1, <2>2 DEF Shows
  <2>4. x + 1 = y + 1
    BY <2>3 DEF Apart
  <2> QED
    BY <2>1, <2>2, <2>4
<1> QED
  BY <1>3, <1>5, <1>6 DEF Shows, Agree

(* The file id names its segment: two of one length are equal only for one *)
(* number of the segment, below the 256 that two digits hold, and for      *)
(* fields that agree but where the number goes (cg_fun, yk_get_fileid).    *)
THEOREM FileIdsApart ==
    ASSUME NEW C, NEW letters \in Seq(C), letters # <<>>, Distinct(letters), NEW seed \in Nat,
           NEW hex, Apart(hex, 16), NEW k \in Nat, k >= 10,
           NEW ids \in Fields(k, Len(letters)), NEW ids2 \in Fields(k, Len(letters)),
           NEW no \in Byte, NEW no2 \in Byte,
           FileId(letters, hex, ids, no, seed) = FileId(letters, hex, ids2, no2, seed)
    PROVE  no = no2 /\ Agree(ids, ids2, k)
<1>1. PICK n \in Nat : n = Len(letters)
  OBVIOUS
<1>2. PICK m : m = Shuffle(letters, seed)
  OBVIOUS
<1>3. Apart(m, n)
  BY <1>1, <1>2, LettersMixed DEF Mixes
<1>4. PICK a, b, c, d : /\ a = hex[Hex2(no)[1] + 1] /\ b = hex[Hex2(no)[2] + 1]
                        /\ c = hex[Hex2(no2)[1] + 1] /\ d = hex[Hex2(no2)[2] + 1]
  OBVIOUS
<1>5. Same(m, ids, a, b, ids2, c, d)
  BY <1>2, <1>4, Zenon DEF FileId, Numbered, Same
<1>6. ids \in Fields(k, n) /\ ids2 \in Fields(k, n)
  BY <1>1
<1>7. a = c /\ b = d /\ Agree(ids, ids2, k)
  BY <1>3, <1>5, <1>6, NumberedApart
<1>8. SameDigits(hex, no, no2)
  BY <1>4, <1>7, Zenon DEF SameDigits
<1>9. no = no2
  BY <1>8, HexApart, SMT
<1> QED
  BY <1>7, <1>9

-----------------------------------------------------------------------------
(* The playlist: what yk_parse_playlist has read after some of its groups. *)
Streams(ids, sg) == [k \in DOMAIN ids |-> [type |-> ids[k], segs |-> sg[k]]]
ReadGroup(x, g) == UNION {ParseSegs(s, g) : s \in x}
PlayEq(f, ids, segs) ==
    f = [i \in 0 .. Len(segs) |-> IF i = 0 THEN ParseStreamFileIds(ids) ELSE ReadGroup(f[i - 1], segs[i])]
Known(ids, n) == n > 0 /\ \A k \in 1 .. n : ids[k] \in StreamType
GroupOk(ids, n, g) == (\E k \in 1 .. n : ids[k] = g.type) /\ Len(g.nos) \in 1 .. StreamSegsMax - 1
GroupsOk(ids, n, segs, i) == Known(ids, n) /\ \A j \in 1 .. i : GroupOk(ids, n, segs[j])
Filled(ids, n, segs, sg, i) ==
    \A k \in 1 .. n :
        /\ \A j \in 1 .. i : segs[j].type = ids[k] => sg[k] = segs[j].nos
        /\ (\A j \in 1 .. i : segs[j].type # ids[k]) => sg[k] = <<>>
Parsed(ids, n, segs, N, x, i) ==
    IF GroupsOk(ids, n, segs, i)
    THEN \E sg \in [1 .. n -> Seq(N)] : x = {Streams(ids, sg)} /\ Filled(ids, n, segs, sg, i)
    ELSE x = {}

(* The playlists the theorem is about: no stream is named twice, and no    *)
(* stream has two groups of segments.                                      *)
Group(T, N) == [type : T, nos : Seq(N)]
OneGroup(segs, m) == \A i, j \in 1 .. m : segs[i].type = segs[j].type => i = j

Writes(ids, sg, g, k) == ParseSegs(Streams(ids, sg), g) = {Streams(ids, [sg EXCEPT ![k] = g.nos])}

LEMMA RoomFor ==
    ASSUME NEW M \in Nat, NEW l \in 1 .. M - 1
    PROVE  l \in Nat /\ l > 0 /\ l < M
  OBVIOUS

LEMMA SegsRead ==
    ASSUME NEW T, NEW N, NEW n \in Nat, NEW ids \in [1 .. n -> T], Apart(ids, n),
           NEW sg \in [1 .. n -> Seq(N)], NEW g \in Group(T, N), NEW k \in 1 .. n,
           ids[k] = g.type, Len(g.nos) \in 1 .. StreamSegsMax - 1, sg[k] = <<>>
    PROVE  Writes(ids, sg, g, k)
<1>1. PICK s : s = Streams(ids, sg)
  OBVIOUS
<1>2. s = [i \in 1 .. n |-> [type |-> ids[i], segs |-> sg[i]]]
  BY <1>1 DEF Streams
<1> DEFINE at == {i \in DOMAIN s : s[i].type = g.type}
           first == CHOOSE i \in at : \A j \in at : i <= j
<1>3. at = {k}
  BY <1>2 DEF Apart
<1>4. first = k
  <2> HIDE DEF at
  <2>1. k \in at /\ \A j \in at : k <= j
    BY <1>3
  <2>2. first \in at
    BY <2>1, Zenon
  <2> HIDE DEF first
  <2> QED
    BY <1>3, <2>2
<1>5. PICK v \in Seq(N) : v = g.nos
  BY DEF Group
<1>6. Len(v) \in Nat /\ ~(Len(v) >= StreamSegsMax) /\ v # <<>> /\ at # {}
  <2>1. Len(v) \in Nat /\ Len(v) > 0 /\ Len(v) < StreamSegsMax /\ StreamSegsMax \in Nat
    <3>1. Len(v) \in 1 .. StreamSegsMax - 1
      BY <1>5, Zenon
    <3>2. StreamSegsMax \in Nat
      BY StreamAssumption
    <3> QED
      BY <3>1, <3>2, RoomFor
  <2>2. at # {}
    BY <1>3, Zenon
  <2>3. ~(Len(v) >= StreamSegsMax) /\ v # <<>>
    BY <2>1
  <2> QED
    BY <2>1, <2>2, <2>3, Zenon
<1>7. v \o SubSeq(sg[k], Len(v) + 1, Len(sg[k])) = v
  <2>1. PICK e \in Seq(N) : e = <<>>
    OBVIOUS
  <2>2. PICK l \in Nat : l = Len(v)
    BY <1>6
  <2>3. SubSeq(e, l + 1, 0) = <<>>
    BY <2>1
  <2>4. Len(sg[k]) = 0
    OBVIOUS
  <2>5. SubSeq(sg[k], Len(v) + 1, Len(sg[k])) = <<>>
    BY <2>1, <2>2, <2>3, <2>4, Zenon
  <2>6. v \o <<>> = v
    OBVIOUS
  <2> QED
    BY <2>5, <2>6, Zenon
<1>8. PICK t : t = [s EXCEPT ![k].segs = v \o SubSeq(@, Len(v) + 1, Len(@))]
  OBVIOUS
<1>9. s[k].segs = sg[k] /\ s[k] = [type |-> ids[k], segs |-> sg[k]]
  BY <1>2
<1>10. t = [s EXCEPT ![k] = [type |-> ids[k], segs |-> v]]
  <2>1. t = [s EXCEPT ![k] = [s[k] EXCEPT !.segs = v \o SubSeq(@, Len(v) + 1, Len(@))]]
    BY <1>8, Zenon
  <2>2. PICK r : r = s[k]
    OBVIOUS
  <2>3. PICK w : w = v \o SubSeq(r.segs, Len(v) + 1, Len(r.segs))
    OBVIOUS
  <2>4. w = v
    BY <1>7, <1>9, <2>2, <2>3, Zenon
  <2>5. [r EXCEPT !.segs = v \o SubSeq(@, Len(v) + 1, Len(@))] = [r EXCEPT !.segs = w]
    BY <2>3, Zenon
  <2>6. [r EXCEPT !.segs = v] = [type |-> ids[k], segs |-> v]
    BY <1>9, <2>2
  <2> QED
    BY <2>1, <2>2, <2>4, <2>5, <2>6, Zenon
<1>11. t = Streams(ids, [sg EXCEPT ![k] = v])
  BY <1>2, <1>10 DEF Streams
<1>12. ParseSegs(s, g) = {[s EXCEPT ![first].segs = g.nos \o SubSeq(@, Len(g.nos) + 1, Len(@))]}
  BY <1>5, <1>6, Zenon DEF ParseSegs
<1>13. ParseSegs(s, g) = {t}
  <2> HIDE DEF first
  <2> QED
    BY <1>4, <1>5, <1>8, <1>12, Zenon
<1> QED
  BY <1>1, <1>5, <1>11, <1>13, Zenon DEF Writes

LEMMA SegsRefused ==
    ASSUME NEW T, NEW N, NEW n \in Nat, NEW ids \in [1 .. n -> T],
           NEW sg, NEW g \in Group(T, N), ~GroupOk(ids, n, g)
    PROVE  ParseSegs(Streams(ids, sg), g) = {}
<1>1. PICK s : s = Streams(ids, sg)
  OBVIOUS
<1>2. s = [i \in 1 .. n |-> [type |-> ids[i], segs |-> sg[i]]]
  BY <1>1 DEF Streams
<1> DEFINE at == {i \in DOMAIN s : s[i].type = g.type}
<1>3. Len(g.nos) \in Nat
  BY DEF Group
<1>4. at = {} \/ g.nos = <<>> \/ Len(g.nos) >= StreamSegsMax
  <2>1. CASE \E k \in 1 .. n : ids[k] = g.type
    <3>1. Len(g.nos) \notin 1 .. StreamSegsMax - 1
      BY <2>1 DEF GroupOk
    <3>2. Len(g.nos) = 0 \/ Len(g.nos) >= StreamSegsMax
      BY <1>3, <3>1, StreamAssumption
    <3>3. Len(g.nos) = 0 => g.nos = <<>>
      BY DEF Group
    <3> QED
      BY <3>2, <3>3
  <2>2. CASE ~\E k \in 1 .. n : ids[k] = g.type
    BY <1>2, <2>2
  <2> QED
    BY <2>1, <2>2
<1>5. ParseSegs(s, g) = {}
  BY <1>4, Zenon DEF ParseSegs
<1> QED
  BY <1>1, <1>5

LEMMA GroupRead ==
    ASSUME NEW T, NEW N, NEW n \in Nat, NEW ids \in [1 .. n -> T], Apart(ids, n),
           NEW m \in Nat, NEW segs \in [1 .. m -> Group(T, N)], OneGroup(segs, m),
           NEW i \in 0 .. m, i < m, NEW x, Parsed(ids, n, segs, N, x, i)
    PROVE  Parsed(ids, n, segs, N, ReadGroup(x, segs[i + 1]), i + 1)
<1>1. PICK g \in Group(T, N) : g = segs[i + 1]
  OBVIOUS
<1>2. i + 1 \in 1 .. m /\ \A j \in 1 .. i + 1 : j \in 1 .. i \/ j = i + 1
  OBVIOUS
<1>3. GroupsOk(ids, n, segs, i + 1) <=> GroupsOk(ids, n, segs, i) /\ GroupOk(ids, n, g)
  <2>1. ASSUME GroupsOk(ids, n, segs, i), GroupOk(ids, n, g)
        PROVE  GroupsOk(ids, n, segs, i + 1)
    BY <1>1, <1>2, <2>1 DEF GroupsOk
  <2>2. ASSUME GroupsOk(ids, n, segs, i + 1)
        PROVE  GroupsOk(ids, n, segs, i) /\ GroupOk(ids, n, g)
    <3>1. \A j \in 1 .. i : j \in 1 .. i + 1
      OBVIOUS
    <3>2. i + 1 \in 1 .. i + 1
      OBVIOUS
    <3> QED
      BY <1>1, <2>2, <3>1, <3>2 DEF GroupsOk
  <2> QED
    BY <2>1, <2>2
<1>4. CASE ~GroupsOk(ids, n, segs, i)
  <2>1. x = {}
    BY <1>4 DEF Parsed
  <2>2. ReadGroup(x, g) = {}
    BY <2>1 DEF ReadGroup
  <2> QED
    BY <1>1, <1>3, <1>4, <2>2, Zenon DEF Parsed
<1>5. CASE GroupsOk(ids, n, segs, i)
  <2>1. PICK sg \in [1 .. n -> Seq(N)] : x = {Streams(ids, sg)} /\ Filled(ids, n, segs, sg, i)
    BY <1>5 DEF Parsed
  <2>2. ReadGroup(x, g) = ParseSegs(Streams(ids, sg), g)
    <3>1. PICK s : s = Streams(ids, sg)
      OBVIOUS
    <3>2. UNION {ParseSegs(r, g) : r \in {s}} = ParseSegs(s, g)
      OBVIOUS
    <3> QED
      BY <2>1, <3>1, <3>2, Zenon DEF ReadGroup
  <2>3. CASE ~GroupOk(ids, n, g)
    <3>1. ReadGroup(x, g) = {}
      BY <2>2, <2>3, SegsRefused
    <3> QED
      BY <1>1, <1>3, <2>3, <3>1, Zenon DEF Parsed
  <2>4. CASE GroupOk(ids, n, g)
    <3>1. PICK k \in 1 .. n : ids[k] = g.type
      BY <2>4 DEF GroupOk
    <3>2. \A j \in 1 .. i : segs[j].type # g.type
      BY <1>1, <1>2 DEF OneGroup
    <3>3. sg[k] = <<>>
      BY <2>1, <3>1, <3>2 DEF Filled
    <3>4. Len(g.nos) \in 1 .. StreamSegsMax - 1
      BY <2>4 DEF GroupOk
    <3>5. PICK h : h = [sg EXCEPT ![k] = g.nos]
      OBVIOUS
    <3>6. ParseSegs(Streams(ids, sg), g) = {Streams(ids, h)}
      <4>1. Writes(ids, sg, g, k)
        BY <3>1, <3>3, <3>4, SegsRead
      <4> QED
        BY <3>5, <4>1, Zenon DEF Writes
    <3>7. h \in [1 .. n -> Seq(N)] /\ h[k] = g.nos /\ \A l \in 1 .. n : l # k => h[l] = sg[l]
      BY <3>5 DEF Group
    <3>8. Filled(ids, n, segs, h, i + 1)
      <4>1. SUFFICES ASSUME NEW l \in 1 .. n
                     PROVE  /\ \A j \in 1 .. i + 1 : segs[j].type = ids[l] => h[l] = segs[j].nos
                            /\ (\A j \in 1 .. i + 1 : segs[j].type # ids[l]) => h[l] = <<>>
        BY DEF Filled
      <4>2. CASE l = k
        <5>1. ASSUME NEW j \in 1 .. i + 1, segs[j].type = ids[l]
              PROVE  h[l] = segs[j].nos
          <6>1. j = i + 1
            BY <1>2, <3>1, <3>2, <4>2, <5>1
          <6> QED
            BY <1>1, <3>7, <4>2, <6>1
        <5>2. ~\A j \in 1 .. i + 1 : segs[j].type # ids[l]
          <6>1. i + 1 \in 1 .. i + 1
            OBVIOUS
          <6> QED
            BY <1>1, <3>1, <4>2, <6>1
        <5> QED
          BY <5>1, <5>2
      <4>3. CASE l # k
        <5>1. ids[l] # g.type
          BY <3>1, <4>3 DEF Apart
        <5>2. h[l] = sg[l]
          BY <3>7, <4>3
        <5>3. ASSUME NEW j \in 1 .. i + 1, segs[j].type = ids[l]
              PROVE  h[l] = segs[j].nos
          <6>1. j \in 1 .. i
            BY <1>1, <1>2, <5>1, <5>3
          <6> QED
            BY <2>1, <5>2, <5>3, <6>1 DEF Filled
        <5>4. ASSUME \A j \in 1 .. i + 1 : segs[j].type # ids[l]
              PROVE  h[l] = <<>>
          <6>1. \A j \in 1 .. i : segs[j].type # ids[l]
            BY <5>4
          <6> QED
            BY <2>1, <5>2, <6>1 DEF Filled
        <5> QED
          BY <5>3, <5>4
      <4> QED
        BY <4>2, <4>3
    <3>9. GroupsOk(ids, n, segs, i + 1)
      BY <1>3, <1>5, <2>4
    <3>10. ReadGroup(x, segs[i + 1]) = {Streams(ids, h)}
      BY <1>1, <2>2, <3>6, Zenon
    <3> QED
      BY <3>7, <3>8, <3>9, <3>10, Zenon DEF Parsed
  <2> QED
    BY <2>3, <2>4
<1> QED
  BY <1>4, <1>5

LEMMA IdsRead ==
    ASSUME NEW T, NEW N, NEW n \in Nat, NEW ids \in [1 .. n -> T], NEW segs
    PROVE  Parsed(ids, n, segs, N, ParseStreamFileIds(ids), 0)
<1>1. GroupsOk(ids, n, segs, 0) <=> Known(ids, n)
  BY DEF GroupsOk
<1>2. DOMAIN ids = 1 .. n /\ (n > 0 <=> ids # <<>>)
  OBVIOUS
<1>3. CASE Known(ids, n)
  <2>1. PICK sg : sg = [k \in 1 .. n |-> <<>>]
    OBVIOUS
  <2>2. sg \in [1 .. n -> Seq(N)] /\ \A k \in 1 .. n : sg[k] = <<>>
    BY <2>1
  <2>3. Filled(ids, n, segs, sg, 0)
    BY <2>2 DEF Filled
  <2>4. ParseStreamFileIds(ids) = {[k \in 1 .. n |-> [type |-> ids[k], segs |-> <<>>]]}
    BY <1>2, <1>3, Zenon DEF ParseStreamFileIds, Known
  <2>5. Streams(ids, sg) = [k \in 1 .. n |-> [type |-> ids[k], segs |-> <<>>]]
    BY <1>2, <2>2 DEF Streams
  <2>6. ParseStreamFileIds(ids) = {Streams(ids, sg)}
    BY <2>4, <2>5, Zenon
  <2> QED
    BY <1>1, <1>3, <2>2, <2>3, <2>6, Zenon DEF Parsed
<1>4. CASE ~Known(ids, n)
  <2>1. ParseStreamFileIds(ids) = {}
    BY <1>2, <1>4, Zenon DEF ParseStreamFileIds, Known
  <2> QED
    BY <1>1, <1>4, <2>1, Zenon DEF Parsed
<1> QED
  BY <1>3, <1>4

LEMMA PlayExists ==
    ASSUME NEW T, NEW N, NEW n \in Nat, NEW ids \in [1 .. n -> T], Apart(ids, n),
           NEW m \in Nat, NEW segs \in [1 .. m -> Group(T, N)], OneGroup(segs, m), m = Len(segs)
    PROVE  \E f : PlayEq(f, ids, segs)
<1> DEFINE A == SUBSET {Streams(ids, sg) : sg \in [1 .. n -> Seq(N)]}
           G(p) == ReadGroup(p[2], segs[p[1]])
           F == [p \in (0 .. m) \X A |-> IF G(p) \in A THEN G(p) ELSE {}]
           P(x, i) == Parsed(ids, n, segs, N, x, i)
<1>1. F \in [(0 .. m) \X A -> A]
  <2>1. {} \in A
    OBVIOUS
  <2> HIDE DEF A, G
  <2> QED
    BY <2>1
<1>2. ASSUME NEW x, NEW i, P(x, i)
      PROVE  x \in A
  BY <1>2 DEF Parsed
<1>3. P(ParseStreamFileIds(ids), 0)
  BY IdsRead
<1>4. PICK x0 \in A : x0 = ParseStreamFileIds(ids)
  <2> HIDE DEF A, P
  <2> QED
    BY <1>2, <1>3
<1>5. PICK f : Turned(f, 0, m, A, x0, F)
  <2>1. 0 \in Nat /\ 0 <= m
    OBVIOUS
  <2> HIDE DEF A, F
  <2> QED
    BY <1>1, <2>1, Iterated
<1>6. f \in [0 .. m -> A] /\ f[0] = x0 /\ \A k \in 0 + 1 .. m : f[k] = F[<<k, f[k - 1]>>]
  BY <1>5 DEF Turned
<1>7. ASSUME NEW i \in 0 .. m, i < m, P(f[i], i)
      PROVE  f[i + 1] = ReadGroup(f[i], segs[i + 1]) /\ P(f[i + 1], i + 1)
  <2>1. P(ReadGroup(f[i], segs[i + 1]), i + 1)
    BY <1>7, GroupRead
  <2>2. PICK q : q = <<i + 1, f[i]>>
    OBVIOUS
  <2>3. q \in (0 .. m) \X A /\ q[1] = i + 1 /\ q[2] = f[i]
    BY <1>6, <1>7, <2>2, SMTT(30)
  <2>4. G(q) = ReadGroup(f[i], segs[i + 1])
    BY <2>3
  <2>5. f[i + 1] = F[q]
    <3>1. i + 1 \in 0 + 1 .. m /\ i + 1 - 1 = i
      BY <1>7
    <3> HIDE DEF F
    <3> QED
      BY <1>6, <2>2, <3>1
  <2>6. G(q) \in A
    <3> HIDE DEF A, P, G
    <3> QED
      BY <1>2, <2>1, <2>4
  <2>7. F[q] = G(q)
    <3> HIDE DEF A, G
    <3> QED
      BY <2>3, <2>6
  <2>8. f[i + 1] = ReadGroup(f[i], segs[i + 1])
    <3> HIDE DEF F, G
    <3> QED
      BY <2>4, <2>5, <2>7
  <2> HIDE DEF P
  <2> QED
    BY <2>1, <2>8
<1> DEFINE S == {i \in 0 .. m : P(f[i], i)}
<1>8. \A i \in 0 .. m : P(f[i], i)
  <2>1. 0 \in S
    <3> HIDE DEF P
    <3> QED
      BY <1>3, <1>4, <1>6
  <2>2. ASSUME NEW i \in 0 .. m, i \in S, i < m
        PROVE  i + 1 \in S
    <3>1. i + 1 \in 0 .. m
      BY <2>2
    <3> HIDE DEF P
    <3> QED
      BY <1>7, <2>2, <3>1
  <2>3. \A i \in 0 .. m : i \in S
    <3>1. 0 \in Nat
      OBVIOUS
    <3> HIDE DEF S
    <3> QED
      BY <2>1, <2>2, <3>1, UpTo
  <2> HIDE DEF P
  <2> QED
    BY <2>3
<1> HIDE DEF P, F, A
<1>9. ASSUME NEW i \in 0 .. m
      PROVE  f[i] = IF i = 0 THEN ParseStreamFileIds(ids) ELSE ReadGroup(f[i - 1], segs[i])
  <2>1. CASE i = 0
    BY <1>4, <1>6, <2>1
  <2>2. CASE i # 0
    <3>1. PICK j \in 0 .. m : i = j + 1 /\ j < m /\ j = i - 1
      BY <2>2
    <3>2. f[j + 1] = ReadGroup(f[j], segs[j + 1])
      BY <1>7, <1>8, <3>1
    <3> QED
      BY <2>2, <3>1, <3>2
  <2> QED
    BY <2>1, <2>2
<1>10. f = [i \in 0 .. m |-> f[i]]
  BY <1>6
<1>11. [i \in 0 .. m |-> f[i]] =
         [i \in 0 .. m |-> IF i = 0 THEN ParseStreamFileIds(ids) ELSE ReadGroup(f[i - 1], segs[i])]
  BY <1>9
<1> QED
  BY <1>10, <1>11, Zenon DEF PlayEq

LEMMA PlayAlways ==
    ASSUME NEW T, NEW N, NEW n \in Nat, NEW ids \in [1 .. n -> T], Apart(ids, n),
           NEW m \in Nat, NEW segs \in [1 .. m -> Group(T, N)], OneGroup(segs, m), m = Len(segs),
           NEW f, PlayEq(f, ids, segs)
    PROVE  Parsed(ids, n, segs, N, f[m], m)
<1>1. \A i \in 0 .. m : f[i] = IF i = 0 THEN ParseStreamFileIds(ids) ELSE ReadGroup(f[i - 1], segs[i])
  BY DEF PlayEq
<1> DEFINE P(x, i) == Parsed(ids, n, segs, N, x, i)
           S == {i \in 0 .. m : P(f[i], i)}
<1>2. 0 \in S
  <2>1. P(ParseStreamFileIds(ids), 0)
    BY IdsRead
  <2> HIDE DEF P
  <2> QED
    BY <1>1, <2>1
<1>3. ASSUME NEW i \in 0 .. m, i \in S, i < m
      PROVE  i + 1 \in S
  <2>1. P(ReadGroup(f[i], segs[i + 1]), i + 1)
    BY <1>3, GroupRead
  <2>2. i + 1 \in 0 .. m /\ i + 1 # 0 /\ i + 1 - 1 = i
    BY <1>3
  <2>3. f[i + 1] = ReadGroup(f[i], segs[i + 1])
    BY <1>1, <2>2
  <2> HIDE DEF P
  <2> QED
    BY <2>1, <2>2, <2>3
<1>4. \A i \in 0 .. m : i \in S
  <2>1. 0 \in Nat
    OBVIOUS
  <2> HIDE DEF S
  <2> QED
    BY <1>2, <1>3, <2>1, UpTo
<1>5. m \in 0 .. m
  OBVIOUS
<1> QED
  BY <1>4, <1>5

(* The index of the stream of a type, when no other stream has it. *)
LEMMA IndexFound ==
    ASSUME NEW T, NEW n \in Nat, n <= StreamTypeTotal, NEW ids \in [1 .. n -> T], Apart(ids, n), NEW sg
    PROVE  LET s == Streams(ids, sg)
           IN  /\ \A k \in 1 .. n : ids[k] = "mp4" => DownloadIndex(s) = k - 1
               /\ (\A k \in 1 .. n : ids[k] # "mp4") =>
                    /\ \A k \in 1 .. n : ids[k] = "flv" => DownloadIndex(s) = k - 1
                    /\ (\A k \in 1 .. n : ids[k] # "flv") => DownloadIndex(s) = -1
<1>1. PICK s : s = Streams(ids, sg)
  OBVIOUS
<1>2. s = [i \in 1 .. n |-> [type |-> ids[i], segs |-> sg[i]]]
  BY <1>1 DEF Streams
<1> DEFINE of(t) == {i \in DOMAIN s : i <= StreamTypeTotal /\ s[i].type = t}
           low(t) == CHOOSE i \in of(t) : \A j \in of(t) : i <= j
           high(t) == CHOOSE i \in of(t) : \A j \in of(t) : j <= i
<1>3. ASSUME NEW t
      PROVE  of(t) = {i \in 1 .. n : ids[i] = t}
  <2>1. \A i \in 1 .. n : i <= StreamTypeTotal /\ s[i].type = ids[i]
    BY <1>2, StreamAssumption
  <2>2. DOMAIN s = 1 .. n
    BY <1>2
  <2> QED
    BY <2>1, <2>2
<1>4. ASSUME NEW t, NEW k \in 1 .. n, ids[k] = t
      PROVE  of(t) = {k}
  <2>1. {i \in 1 .. n : ids[i] = t} = {k}
    BY <1>4 DEF Apart
  <2>2. of(t) = {i \in 1 .. n : ids[i] = t}
    BY <1>3
  <2> HIDE DEF of
  <2> QED
    BY <2>1, <2>2, Zenon
<1>5. DownloadIndex(s) = IF of("mp4") # {} THEN low("mp4") - 1
                         ELSE IF of("flv") # {} THEN high("flv") - 1 ELSE -1
  BY Zenon DEF DownloadIndex
<1> HIDE DEF of
<1>6. ASSUME NEW t, NEW k \in 1 .. n, ids[k] = t
      PROVE  low(t) = k /\ high(t) = k
  <2>1. of(t) = {k}
    BY <1>4, <1>6
  <2>2. k \in of(t) /\ \A j \in of(t) : k <= j /\ j <= k
    BY <2>1
  <2>3. low(t) \in of(t) /\ high(t) \in of(t)
    BY <2>2, Zenon
  <2> HIDE DEF low, high
  <2> QED
    BY <2>1, <2>3
<1> HIDE DEF low, high
<1>7. ASSUME NEW k \in 1 .. n, ids[k] = "mp4"
      PROVE  DownloadIndex(s) = k - 1
  <2>1. of("mp4") = {k} /\ low("mp4") = k
    BY <1>4, <1>6, <1>7
  <2> QED
    BY <1>5, <2>1
<1>8. ASSUME \A k \in 1 .. n : ids[k] # "mp4"
      PROVE  /\ \A k \in 1 .. n : ids[k] = "flv" => DownloadIndex(s) = k - 1
             /\ (\A k \in 1 .. n : ids[k] # "flv") => DownloadIndex(s) = -1
  <2>1. of("mp4") = {}
    BY <1>3, <1>8
  <2>2. ASSUME NEW k \in 1 .. n, ids[k] = "flv"
        PROVE  DownloadIndex(s) = k - 1
    <3>1. of("flv") = {k} /\ high("flv") = k
      BY <1>4, <1>6, <2>2
    <3> QED
      BY <1>5, <2>1, <3>1
  <2>3. ASSUME \A k \in 1 .. n : ids[k] # "flv"
        PROVE  DownloadIndex(s) = -1
    <3>1. of("flv") = {}
      BY <1>3, <2>3
    <3> QED
      BY <1>5, <2>1, <3>1
  <2> QED
    BY <2>2, <2>3
<1> QED
  BY <1>1, <1>7, <1>8

(* The stream to download is at place k, or there is none. *)
BestAt(ids, n, k) ==
    ids[k] = "mp4" \/ (ids[k] = "flv" /\ \A i \in 1 .. n : ids[i] # "mp4")

LEMMA SegmentsOf ==
    ASSUME NEW T, NEW n \in Nat, n <= StreamTypeTotal, NEW pl, NEW ids \in [1 .. n -> T], Apart(ids, n),
           NEW sg, ParsePlaylist(pl) = {Streams(ids, sg)}
    PROVE  /\ \A k \in 1 .. n : BestAt(ids, n, k) => SegmentsAsked(pl) = {sg[k]}
           /\ (\A k \in 1 .. n : ~BestAt(ids, n, k)) => SegmentsAsked(pl) = {}
<1>1. PICK s : s = Streams(ids, sg)
  OBVIOUS
<1>2. \A k \in 1 .. n : s[k].segs = sg[k]
  BY <1>1 DEF Streams
<1>3. PICK d : d = DownloadIndex(s)
  OBVIOUS
<1>4. /\ \A k \in 1 .. n : ids[k] = "mp4" => d = k - 1
      /\ (\A k \in 1 .. n : ids[k] # "mp4") =>
            /\ \A k \in 1 .. n : ids[k] = "flv" => d = k - 1
            /\ (\A k \in 1 .. n : ids[k] # "flv") => d = -1
  BY <1>1, <1>3, IndexFound, Zenon
<1>5. SegmentsAsked(pl) = {r[DownloadIndex(r) + 1].segs : r \in {t \in {s} : DownloadIndex(t) >= 0}}
  BY <1>1, Zenon DEF SegmentsAsked
<1>6. d >= 0 => SegmentsAsked(pl) = {s[d + 1].segs}
  BY <1>3, <1>5
<1>7. ~(d >= 0) => SegmentsAsked(pl) = {}
  BY <1>3, <1>5
<1>8. ASSUME NEW k \in 1 .. n, BestAt(ids, n, k)
      PROVE  SegmentsAsked(pl) = {sg[k]}
  <2>1. d = k - 1
    BY <1>4, <1>8 DEF BestAt
  <2>2. d >= 0 /\ d + 1 = k
    BY <2>1
  <2> QED
    BY <1>2, <1>6, <2>2
<1>9. ASSUME \A k \in 1 .. n : ~BestAt(ids, n, k)
      PROVE  SegmentsAsked(pl) = {}
  <2>1. d = -1
    BY <1>4, <1>9 DEF BestAt
  <2>2. ~(d >= 0)
    BY <2>1
  <2> QED
    BY <1>7, <2>2
<1> QED
  BY <1>8, <1>9

(* The download of a playlist is what it should be, for every number of    *)
(* streams that streams[] holds and any groups of any segments.            *)
THEOREM PlaylistParsed ==
    ASSUME NEW T, NEW N, NEW pl, NEW n \in Nat, n <= StreamTypeTotal, pl.ids \in [1 .. n -> T],
           Apart(pl.ids, n), NEW m \in Nat, m = Len(pl.segs), pl.segs \in [1 .. m -> Group(T, N)],
           OneGroup(pl.segs, m)
    PROVE  PlaylistRight(pl)
<1>1. PICK ids \in [1 .. n -> T] : ids = pl.ids
  OBVIOUS
<1>2. PICK segs \in [1 .. m -> Group(T, N)] : segs = pl.segs
  OBVIOUS
<1>3. Apart(ids, n) /\ OneGroup(segs, m) /\ m = Len(segs)
  BY <1>1, <1>2
<1> DEFINE f == CHOOSE g : PlayEq(g, pl.ids, pl.segs)
           named == {pl.ids[i] : i \in DOMAIN pl.ids}
           group == {pl.segs[i] : i \in DOMAIN pl.segs}
           best == IF "mp4" \in named THEN "mp4" ELSE "flv"
           nos == {g.nos : g \in {h \in group : h.type = best}}
           right == /\ named \subseteq StreamType /\ best \in named /\ group # {}
                    /\ \A g \in group : g.type \in named /\ Len(g.nos) \in 1 .. StreamSegsMax - 1
<1>4. PlayEq(f, ids, segs)
  <2>1. \E g : PlayEq(g, ids, segs)
    BY <1>3, PlayExists
  <2>2. PlayEq(f, pl.ids, pl.segs)
    BY <1>1, <1>2, <2>1, Zenon
  <2> HIDE DEF f
  <2> QED
    BY <1>1, <1>2, <2>2, Zenon
<1>5. ParsePlaylist(pl) = IF m = 0 THEN {} ELSE f[m]
  <2>1. ParsePlaylist(pl) = IF pl.segs = <<>> THEN {} ELSE f[Len(pl.segs)]
    BY Zenon DEF ParsePlaylist, PlayEq, ReadGroup
  <2>2. pl.segs = <<>> <=> m = 0
    BY <1>2, <1>3
  <2> HIDE DEF f
  <2> QED
    BY <2>1, <2>2
<1>6. m # 0 => Parsed(ids, n, segs, N, ParsePlaylist(pl), m)
  <2>1. PICK g : g = f
    OBVIOUS
  <2> HIDE DEF f
  <2>2. Parsed(ids, n, segs, N, g[m], m)
    BY <1>3, <1>4, <2>1, PlayAlways
  <2> QED
    BY <1>5, <2>1, <2>2
<1> HIDE DEF f
<1>7. SUFFICES SegmentsAsked(pl) = IF right THEN (IF nos = {} THEN {<<>>} ELSE nos) ELSE {}
  BY <1>7, Zenon DEF PlaylistRight
<1>8. named = {ids[i] : i \in 1 .. n} /\ group = {segs[i] : i \in 1 .. m}
  BY <1>1, <1>2
<1> HIDE DEF named, group
<1>9. right <=> m # 0 /\ GroupsOk(ids, n, segs, m) /\ best \in named
  <2>1. best \in named => (named \subseteq StreamType <=> Known(ids, n))
    <3>1. (\A k \in 1 .. n : ids[k] \in StreamType) <=> named \subseteq StreamType
      BY <1>8
    <3>2. best \in named => n > 0
      BY <1>8
    <3> HIDE DEF best
    <3> QED
      BY <3>1, <3>2 DEF Known
  <2>2. (\A g \in group : g.type \in named /\ Len(g.nos) \in 1 .. StreamSegsMax - 1)
          <=> \A j \in 1 .. m : GroupOk(ids, n, segs[j])
    <3> DEFINE Fits(g) == g.type \in named /\ Len(g.nos) \in 1 .. StreamSegsMax - 1
    <3>1. ASSUME NEW g
          PROVE  Fits(g) <=> GroupOk(ids, n, g)
      <4>1. g.type \in named <=> \E k \in 1 .. n : ids[k] = g.type
        BY <1>8
      <4> QED
        BY <4>1, Zenon DEF GroupOk
    <3> HIDE DEF Fits
    <3>2. (\A g \in group : Fits(g)) <=> \A j \in 1 .. m : Fits(segs[j])
      BY <1>8
    <3>3. (\A g \in group : Fits(g)) <=> \A j \in 1 .. m : GroupOk(ids, n, segs[j])
      BY <3>1, <3>2
    <3> QED
      BY <3>3, Zenon DEF Fits
  <2>3. group # {} <=> m # 0
    BY <1>8
  <2> HIDE DEF best
  <2> QED
    BY <2>1, <2>2, <2>3 DEF GroupsOk
<1>10. CASE ~(m # 0 /\ GroupsOk(ids, n, segs, m))
  <2>1. ParsePlaylist(pl) = {}
    BY <1>5, <1>6, <1>10 DEF Parsed
  <2>2. SegmentsAsked(pl) = {}
    BY <2>1 DEF SegmentsAsked
  <2> HIDE DEF right, nos
  <2> QED
    BY <1>9, <1>10, <2>2
<1>11. CASE m # 0 /\ GroupsOk(ids, n, segs, m)
  <2>1. PICK sg \in [1 .. n -> Seq(N)] : ParsePlaylist(pl) = {Streams(ids, sg)} /\ Filled(ids, n, segs, sg, m)
    BY <1>6, <1>11 DEF Parsed
  <2>2. /\ \A k \in 1 .. n : BestAt(ids, n, k) => SegmentsAsked(pl) = {sg[k]}
        /\ (\A k \in 1 .. n : ~BestAt(ids, n, k)) => SegmentsAsked(pl) = {}
    BY <1>3, <2>1, SegmentsOf
  <2>3. \A k \in 1 .. n : BestAt(ids, n, k) <=> ids[k] = best
    BY <1>8 DEF BestAt
  <2>4. CASE best \notin named
    <3>1. \A k \in 1 .. n : ~BestAt(ids, n, k)
      BY <1>8, <2>3, <2>4
    <3> HIDE DEF right, nos
    <3> QED
      BY <1>9, <2>2, <2>4, <3>1
  <2>5. CASE best \in named
    <3>1. PICK k \in 1 .. n : ids[k] = best
      BY <1>8, <2>5
    <3> HIDE DEF best
    <3>2. SegmentsAsked(pl) = {sg[k]}
      BY <2>2, <2>3, <3>1
    <3>3. CASE \E j \in 1 .. m : segs[j].type = best
      <4>1. PICK j \in 1 .. m : segs[j].type = best
        BY <3>3
      <4>2. sg[k] = segs[j].nos
        BY <2>1, <3>1, <4>1 DEF Filled
      <4>3. {h \in group : h.type = best} = {segs[j]}
        BY <1>3, <1>8, <4>1 DEF OneGroup
      <4>4. nos = {segs[j].nos}
        BY <4>3
      <4>5. nos = {sg[k]} /\ nos # {}
        <5> HIDE DEF nos
        <5> QED
          BY <4>2, <4>4
      <4> HIDE DEF right, nos
      <4> QED
        BY <1>9, <1>11, <2>5, <3>2, <4>5
    <3>4. CASE ~\E j \in 1 .. m : segs[j].type = best
      <4>1. sg[k] = <<>>
        BY <2>1, <3>1, <3>4 DEF Filled
      <4>2. nos = {}
        BY <1>8, <3>4
      <4> HIDE DEF right, nos
      <4> QED
        BY <1>9, <1>11, <2>5, <3>2, <4>1, <4>2
    <3> QED
      BY <3>3, <3>4
  <2> QED
    BY <2>4, <2>5
<1> QED
  BY <1>10, <1>11

=============================================================================
