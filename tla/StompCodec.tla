----------------------------- MODULE StompCodec ------------------------------
(***************************************************************************)
(* Frames as text: what StompEncoderDecoder makes of the characters of a   *)
(* frame, and the text it writes for one.  A text is a sequence of pieces: *)
(* the line end, the colon and the space are pieces of their own, any      *)
(* other piece is a word the code does not look into.  The null character  *)
(* that ends a frame is not part of its text.                              *)
(***************************************************************************)
EXTENDS Integers, Sequences, FiniteSets, SequencesExt, FiniteSetsExt

CONSTANTS
  NonAscii   \* pieces outside ASCII, of more than one byte each

NL == "\n"
Colon == ":"
Blank == " "

\* The parts of t between the occurrences of c.
Split(t, c) ==
  LET add(parts, x) == IF x = c THEN Append(parts, <<>>)
                       ELSE Append(Front(parts), Append(Last(parts), x))
  IN  FoldLeft(add, << <<>> >>, t)

\* String.split("\n"): without the empty parts at the end, unless there is
\* nothing to split.
SplitLines(t) ==
  LET parts == Split(t, NL)
      kept  == {k \in DOMAIN parts : parts[k] # <<>>}
  IN  IF Len(parts) = 1 THEN parts
      ELSE SubSeq(parts, 1, IF kept = {} THEN 0 ELSE Max(kept))

\* What comes before and after the first colon.
Before(t) == LET i == SelectInSeq(t, LAMBDA x : x = Colon) IN SubSeq(t, 1, i - 1)
After(t) == LET i == SelectInSeq(t, LAMBDA x : x = Colon) IN SubSeq(t, i + 1, Len(t))

HasColon(t) == Contains(t, Colon)

Trim(t) ==
  LET ink == {i \in DOMAIN t : t[i] \notin {NL, Blank}}
  IN  IF ink = {} THEN <<>> ELSE SubSeq(t, Min(ink), Max(ink))

\* decodeNextByte makes a character of each byte: one of several bytes
\* becomes as many other characters.
Mangled(c) == "mangled " \o c

DecodeText(t) == [i \in DOMAIN t |-> IF t[i] \in NonAscii THEN Mangled(t[i]) ELSE t[i]]

\* The lines up to the first blank one, without the command.
HeaderLines(lines) ==
  LET blanks == {i \in 2..Len(lines) : lines[i] = <<>>}
  IN  2..(IF blanks = {} THEN Len(lines) ELSE Min(blanks) - 1)

\* No line at all, or a header without a colon: an exception.
Unparsable(t) ==
  LET lines == SplitLines(t)
  IN  lines = <<>> \/ \E i \in HeaderLines(lines) : ~ HasColon(lines[i])

\* A later header replaces an earlier one; the body ends up trimmed.
ParseFrame(t) ==
  LET lines == SplitLines(t)
      H     == HeaderLines(lines)
      body  == SubSeq(lines, Cardinality(H) + 3, Len(lines))
  IN  [command |-> lines[1],
       headers |-> [k \in {Before(lines[i]) : i \in H} |->
                      After(lines[Max({i \in H : Before(lines[i]) = k})])],
       body    |-> Trim(FlattenSeq([j \in DOMAIN body |-> Append(body[j], NL)]))]

\* encode, with the keys in the order in which the hash map has them.
EncodeFrame(f, keys) ==
  f.command \o <<NL>>
    \o FlattenSeq([i \in DOMAIN keys |->
                     keys[i] \o <<Colon>> \o f.headers[keys[i]] \o <<NL>>])
    \o <<NL>> \o f.body
=============================================================================
