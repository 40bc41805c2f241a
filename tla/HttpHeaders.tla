---------------------------- MODULE HttpHeaders ----------------------------
(***************************************************************************)
(* proksi/http.c: http_read_headers takes bytes from a socket one by one   *)
(* until its automaton has seen CR LF CR LF, the peer closes, or the       *)
(* buffer is full; http_get_content_length then looks into the buffer.     *)
(*                                                                         *)
(* A symbol stands for a byte, but KEY for the fifteen bytes of            *)
(* "Content-Length:" (in any case), SP for a blank or a tab, and X for any *)
(* byte that is none of the others.  Left out are the bytes to which       *)
(* strtoull gives a meaning of their own: the signs, which it takes before *)
(* a number, \v and \f, which it skips, and a NUL, where the text of the   *)
(* headers would end for it and for strstr.                                *)
(*                                                                         *)
(* The result of read is kept in a size_t.  -1 becomes the largest size_t, *)
(* so the branch for n < 0, with its retry after EINTR, is dead: a failed  *)
(* read falls through and stores the byte that c still holds.              *)
(*                                                                         *)
(* The operators carry the name of their component, since a proof module   *)
(* extends several components together.                                    *)
(***************************************************************************)
EXTENDS Integers, Sequences, FiniteSetsExt

CONSTANTS
  MaxLen,        \* maxlen, the size of the buffer
  MaxFailures    \* bound: reads that fail (a signal, a reset) in one call

ASSUME HttpAssumption == MaxLen \in Nat \ {0} /\ MaxFailures \in Nat

Symbols == {"CR", "LF", "KEY", "SP", "DIGIT", "X"}

VARIABLES
  sent,        \* what the peer has sent and read has delivered
  buf,         \* the buffer up to total
  c,           \* the last byte read, uninitialised at first
  state,       \* the state of the automaton
  failures,    \* how many reads failed
  result       \* "reading", or how the loop ended

headersVars == <<sent, buf, c, state, failures, result>>

HeadersInit ==
  /\ sent = <<>> /\ buf = <<>>
  /\ c \in Symbols \ {"KEY"}
  /\ state = 0 /\ failures = 0 /\ result = "reading"

-----------------------------------------------------------------------------
(* http_read_headers                                                       *)

(* Mutant: no way back to 0 between the two line ends.                     *)
FollowSticky(s, b) ==
  CASE s = 0 /\ b = "CR" -> 1
    [] s = 1 /\ b = "LF" -> 2
    [] s = 2 /\ b = "CR" -> 3
    [] s = 2 /\ b # "CR" -> 2
    [] OTHER -> 0

(* The automaton: a symbol that does not fit leads back to 0, a CR too.    *)
Follow(s, b) ==
  CASE s = 0 /\ b = "CR" -> 1
    [] s = 1 /\ b = "LF" -> 2
    [] s = 2 /\ b = "CR" -> 3
    [] OTHER -> 0

Room == result = "reading" /\ Len(buf) < MaxLen - 1

(* buf[total++] = c, and the switch.                                       *)
Store(b) ==
  /\ buf' = Append(buf, b)
  /\ result' = IF state = 3 /\ b = "LF" THEN "terminated" ELSE "reading"
  /\ state' = IF state = 3 /\ b = "LF" THEN state ELSE Follow(state, b)

ReadByte(b) ==
  /\ Room
  /\ sent' = Append(sent, b)
  /\ c' = IF b = "KEY" THEN "X" ELSE b
  /\ Store(b)
  /\ UNCHANGED failures

ReadFails ==
  /\ Room
  /\ failures < MaxFailures /\ failures' = failures + 1
  /\ Store(c)
  /\ UNCHANGED <<sent, c>>

ReadEof ==
  /\ Room
  /\ result' = "closed"
  /\ UNCHANGED <<sent, buf, c, state, failures>>

BufferFull ==
  /\ result = "reading" /\ ~Room
  /\ result' = "full"
  /\ UNCHANGED <<sent, buf, c, state, failures>>

HeadersNext ==
  \/ \E b \in Symbols : ReadByte(b)
  \/ ReadFails \/ ReadEof \/ BufferFull

HeadersSpec == HeadersInit /\ [][HeadersNext]_headersVars

-----------------------------------------------------------------------------
(* http_get_content_length                                                 *)

Crlf(s, e) == e \in 1 .. Len(s) - 1 /\ s[e] = "CR" /\ s[e + 1] = "LF"

(* Where the loop over the lines can stand: p is the start of a line.      *)
LineStarts(s) ==
  {p \in 1 .. Len(s) : p = 1 \/ (p > 2 /\ Crlf(s, p - 2))}

(* strstr(p, "\r\n"); 0 stands for NULL.                                   *)
LineEnd(s, p) ==
  LET ends == {e \in p .. Len(s) : Crlf(s, e)}
  IN  IF ends = {} THEN 0 ELSE Min(ends)

(* Mutant: line_len >= key_len.                                            *)
IsLengthLineEmpty(s, p) == s[p] = "KEY" /\ LineEnd(s, p) >= p + 1

(* line_len > key_len and the line begins with the key.                    *)
IsLengthLine(s, p) == s[p] = "KEY" /\ LineEnd(s, p) > p + 1

(* strtoull from position v on: it skips white space, line ends included,  *)
(* and takes the digits that follow.  The result is where they are.        *)
Number(s, v) ==
  LET solid == {k \in v .. Len(s) : s[k] \notin {"SP", "CR", "LF"}}
  IN  {k \in v .. Len(s) :
         solid # {} /\ k >= Min(solid)
         /\ \A m \in Min(solid) .. k : s[m] = "DIGIT"}

(* The first line that carries the key decides.  {} stands for -1.         *)
ContentLength(s) ==
  LET found == {p \in LineStarts(s) : IsLengthLine(s, p)}
  IN  IF found = {} THEN {} ELSE Number(s, Min(found) + 1)

-----------------------------------------------------------------------------
(* Properties                                                              *)

HeadersTypeOK ==
  /\ sent \in Seq(Symbols) /\ buf \in Seq(Symbols)
  /\ c \in Symbols \ {"KEY"}
  /\ state \in 0 .. 3
  /\ failures \in 0 .. MaxFailures
  /\ result \in {"reading", "terminated", "closed", "full"}

(* s has CR LF CR LF at the positions k-3 .. k.                            *)
Blank(s, k) == k >= 4 /\ Crlf(s, k - 3) /\ Crlf(s, k - 1)

(* When the call ends with a terminator, the peer has sent one, just now.  *)
(* Failed reads repeat bytes, but cannot forge the end of the headers; the *)
(* only exception is a first read that fails, whose byte is arbitrary.     *)
TerminatorWasSent ==
  /\ HeadersTypeOK
  /\ Len(buf) = Len(sent) + failures /\ Len(buf) < MaxLen
  /\ result = "terminated" =>
       \/ Blank(buf, Len(buf)) /\ Blank(sent, Len(sent))
       \/ failures > 0 /\ sent = <<"LF", "CR", "LF">>

(* The call stops at the first CR LF CR LF in the buffer that has no CR in *)
(* front; a CR in front can make the automaton miss it.                    *)
TerminatorFound ==
  \A k \in 1 .. Len(buf) :
    Blank(buf, k) =>
      \/ result = "terminated" /\ k = Len(buf)
      \/ k > 4 /\ buf[k - 4] = "CR"

(* Both together: the call ends where the peer ended its headers, up to    *)
(* the exceptions named.                                                   *)
EndsAtTerminator == TerminatorWasSent /\ TerminatorFound

(* What the field says: the digits right after the key, on its own line.   *)
Declared(s, p) ==
  {k \in p + 1 .. LineEnd(s, p) - 1 :
     \E d \in p + 1 .. k : /\ \A m \in p + 1 .. d - 1 : s[m] = "SP"
                           /\ \A m \in d .. k : s[m] = "DIGIT"}

(* A length is read exactly when the first non-empty Content-Length line   *)
(* declares one, and it is that one, unless a line break (or a bare CR or  *)
(* LF) is all that follows the key's blanks: strtoull takes it for white   *)
(* space and a number from beyond it for the length.                       *)
LengthFromItsLine ==
  result # "reading" =>
    LET lines == {p \in LineStarts(buf) : buf[p] = "KEY" /\ LineEnd(buf, p) # 0
                                          /\ LineEnd(buf, p) # p + 1}
    IN  IF lines = {} THEN ContentLength(buf) = {}
        ELSE \/ ContentLength(buf) = Declared(buf, Min(lines))
             \/ \E e \in Min(lines) + 1 .. LineEnd(buf, Min(lines)) :
                  /\ buf[e] \in {"CR", "LF"}
                  /\ \A m \in Min(lines) + 1 .. e - 1 : buf[m] = "SP"
=============================================================================
