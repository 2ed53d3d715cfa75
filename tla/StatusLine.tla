---------------------------- MODULE StatusLine -----------------------------
(***************************************************************************)
(* The parser of a HTTP status line: http_parse_status_line of             *)
(* hot_cache/util/net_util.c, with which the Snooping Client reads every   *)
(* reply, and the copy in stock Nginx it was taken from                    *)
(* (ngx_http_parse_status_line), which keeps its state between two reads.  *)
(* A character is a string; those the parser does not name behave alike.   *)
(***************************************************************************)
EXTENDS Integers, Sequences

Digit == {"0", "1", "2", "3", "4", "5", "6", "7", "8", "9"}
DigitOf == [c \in Digit |->
    CHOOSE n \in 0 .. 9 : <<"0", "1", "2", "3", "4", "5", "6", "7", "8", "9">>[n + 1] = c]

(* The state the loop is in, the digits of the status read so far, their   *)
(* value, and what is returned: AGAIN while the line may go on.            *)
StartLine == [sw |-> "start", count |-> 0, code |-> 0, ret |-> "AGAIN"]

(* The states that wait for one character, and the states they go to. *)
Expected == [start |-> "H", H |-> "T", HT |-> "T", HTT |-> "P", HTTP |-> "/"]
Follows == [start |-> "H", H |-> "HT", HT |-> "HTT", HTT |-> "HTTP", HTTP |-> "first_major"]

(* The state after character c in state sw; "done" and "error" end the     *)
(* loop.                                                                   *)
NextSw(sw, c) ==
    CASE sw \in DOMAIN Expected /\ c = Expected[sw] -> Follows[sw]
      [] sw = "first_major" /\ c \in Digit \ {"0"} -> "major"
      [] sw = "major" /\ c = "." -> "first_minor"
      [] sw = "major" /\ c \in Digit -> "major"
      [] sw = "first_minor" /\ c \in Digit -> "minor"
      [] sw = "minor" /\ c = "SP" -> "status"
      [] sw = "minor" /\ c \in Digit -> "minor"
      [] sw = "status" /\ c \in Digit \cup {"SP"} -> "status"
      [] sw = "after_status" /\ c \in {"SP", "."} -> "text"
      [] sw \in {"after_status", "text"} /\ c = "CR" -> "almost_done"
      [] sw \in {"after_status", "text", "almost_done"} /\ c = "LF" -> "done"
      [] sw = "text" /\ c \notin {"CR", "LF"} -> "text"
      [] OTHER -> "error"

(* A faulty step: the third digit of the status does not end it. *)
ReadCharNoCount(p, c) ==
    LET sw == NextSw(p.sw, c)
        digit == p.sw = "status" /\ c \in Digit
    IN  IF p.ret # "AGAIN" THEN p
        ELSE [sw |-> IF digit /\ p.count >= 3 THEN "after_status" ELSE sw,
              count |-> IF digit THEN p.count + 1 ELSE p.count,
              code |-> IF digit THEN 10 * p.code + DigitOf[c] ELSE p.code,
              ret |-> CASE sw = "done" -> "OK" [] sw = "error" -> "ERROR" [] OTHER -> "AGAIN"]

(* One turn of the loop: the third digit ends the status. *)
ReadChar(p, c) ==
    LET sw == NextSw(p.sw, c)
        digit == p.sw = "status" /\ c \in Digit
    IN  IF p.ret # "AGAIN" THEN p
        ELSE [sw |-> IF digit /\ p.count = 2 THEN "after_status" ELSE sw,
              count |-> IF digit THEN p.count + 1 ELSE p.count,
              code |-> IF digit THEN 10 * p.code + DigitOf[c] ELSE p.code,
              ret |-> CASE sw = "done" -> "OK" [] sw = "error" -> "ERROR" [] OTHER -> "AGAIN"]

(* ngx_http_parse_status_line: the loop over what one read brought, from   *)
(* the state r->state kept.                                                *)
NgxParseStatusLine(p, buf) ==
    LET run[i \in 0 .. Len(buf)] == IF i = 0 THEN p ELSE ReadChar(run[i - 1], buf[i])
    IN  run[Len(buf)]

(* http_parse_status_line: an answer that ends before the line does is an  *)
(* error too.  The status, or -1.                                          *)
ParseStatusLine(buf) ==
    LET p == NgxParseStatusLine(StartLine, buf)
    IN  IF p.ret = "OK" THEN p.code ELSE -1

-----------------------------------------------------------------------------
(* What a status line is, without an automaton: the positions of the dot   *)
(* of the version, of the space after it, of the three digits of the       *)
(* status, between which there may be spaces, and of the LF.               *)
IsStatusLine(s, dot, sp, d, lf) ==
    /\ \A i \in 1 .. 5 : s[i] = <<"H", "T", "T", "P", "/">>[i]
    /\ 7 <= dot /\ s[6] # "0" /\ (\A i \in 6 .. dot - 1 : s[i] \in Digit) /\ s[dot] = "."
    /\ dot + 2 <= sp /\ (\A i \in dot + 1 .. sp - 1 : s[i] \in Digit) /\ s[sp] = "SP"
    /\ sp < d[1] /\ d[1] < d[2] /\ d[2] < d[3] /\ \A k \in 1 .. 3 : s[d[k]] \in Digit
    /\ \A i \in sp + 1 .. d[3] : i \notin {d[1], d[2], d[3]} => s[i] = "SP"
    /\ d[3] < lf /\ s[d[3] + 1] \in {"SP", ".", "CR", "LF"} /\ s[lf] = "LF"
    /\ \A i \in d[3] + 1 .. lf - 1 : s[i] # "LF" /\ (s[i] = "CR" => i = lf - 1)

(* The status of the line s begins with, or -1. *)
StatusOf(s) ==
    LET at(C) == {i \in 6 .. Len(s) : s[i] \in C}
        status == {d \in at(Digit) \X at(Digit) \X at(Digit) :
                     \E dot \in at({"."}), sp \in at({"SP"}), lf \in at({"LF"}) :
                        IsStatusLine(s, dot, sp, d, lf)}
        value(d) == 100 * DigitOf[s[d[1]]] + 10 * DigitOf[s[d[2]]] + DigitOf[s[d[3]]]
    IN  IF status = {} THEN -1 ELSE value(CHOOSE d \in status : TRUE)
=============================================================================
