------------------------------- MODULE Escape -------------------------------
(***************************************************************************)
(* Escaping of a text for a string literal (mysql/utils.go), and how MySQL *)
(* reads the literal.  A character is its name if it has one, and itself   *)
(* otherwise; character sets of several bytes are left out.                *)
(***************************************************************************)
EXTENDS Integers, Sequences

(* The characters that escapeBytesBackslash replaces, and what follows the  *)
(* backslash.                                                               *)
ReplacedNotBackslash ==  \* fault: the backslash is left as it is
  [c \in {"NUL", "LF", "CR", "SUB", "quote", "dquote"} |->
     CASE c = "NUL" -> "0" [] c = "LF" -> "n" [] c = "CR" -> "r" [] c = "SUB" -> "Z" [] OTHER -> c]

Replaced ==
  [c \in {"NUL", "LF", "CR", "SUB", "quote", "dquote", "backslash"} |->
     CASE c = "NUL" -> "0" [] c = "LF" -> "n" [] c = "CR" -> "r" [] c = "SUB" -> "Z" [] OTHER -> c]

(* reserveBuffer: the capacity for what is there and size more.             *)
Reserved(buf, capacity, size) ==
  IF capacity < Len(buf) + size THEN 2 * Len(buf) + size ELSE capacity

(* What is put behind the text so far for a character, by escapeBytesBackslash *)
(* or, for the SQL mode NO_BACKSLASH_ESCAPES, by escapeBytesQuotes.         *)
Escaped(c, backslashes) ==
  IF backslashes THEN (IF c \in DOMAIN Replaced THEN <<"backslash", Replaced[c]>> ELSE <<c>>)
                 ELSE (IF c = "quote" THEN <<"quote", "quote">> ELSE <<c>>)

-----------------------------------------------------------------------------
(* MySQL's lexer behind the quote that opens a literal: the text so far, and *)
(* where it is.  A quote may be the first of two.                           *)
Unescaped(c) == CASE c = "0" -> "NUL" [] c = "n" -> "LF" [] c = "r" -> "CR" [] c = "Z" -> "SUB" [] OTHER -> c

Opened == [text |-> <<>>, at |-> "in"]

Lex(lexer, c, backslashes) ==
  CASE lexer.at = "after"                       -> lexer
    [] lexer.at = "escape"                      -> [text |-> Append(lexer.text, Unescaped(c)), at |-> "in"]
    [] lexer.at = "quote" /\ c = "quote"        -> [text |-> Append(lexer.text, c), at |-> "in"]
    [] lexer.at = "quote" /\ c # "quote"        -> [lexer EXCEPT !.at = "after"]
    [] lexer.at = "in" /\ c = "quote"           -> [lexer EXCEPT !.at = "quote"]
    [] lexer.at = "in" /\ c = "backslash" /\ backslashes -> [lexer EXCEPT !.at = "escape"]
    [] OTHER                                    -> [lexer EXCEPT !.text = Append(@, c)]

(* The one or two characters s. *)
LexAll(lexer, s, backslashes) ==
  IF Len(s) = 1 THEN Lex(lexer, s[1], backslashes)
                ELSE Lex(Lex(lexer, s[1], backslashes), s[2], backslashes)

-----------------------------------------------------------------------------
(* MySQL reads a literal with the escaped text as the text and, with a      *)
(* quote behind it, ends it there; what was in the buffer is still there,   *)
(* and all of it fits what was reserved.                                    *)
LiteralReadsBack(v, buf, capacity, backslashes, whole, lexer) ==
  /\ SubSeq(whole, 1, Len(buf)) = buf
  /\ Len(whole) <= Reserved(buf, capacity, 2 * Len(v))
  /\ LexAll(lexer, <<"quote", "end">>, backslashes) = [text |-> v, at |-> "after"]
=============================================================================
