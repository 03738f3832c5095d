-------------------------------- MODULE Forms --------------------------------
(***************************************************************************)
(* Form data as both MicroPython programs decode it: url_unquote,          *)
(* parse_kv_pairs and split_path_query, which are the same text in         *)
(* src/v2/main.py and src/main.py.  A string is a sequence of symbols; a   *)
(* symbol is a character, or a word in which nothing is ever escaped.      *)
(***************************************************************************)
EXTENDS Integers, Sequences, SequencesExt

CONSTANTS
  Symbol,  \* the characters and the words
  Utf8,    \* the bytes of each character that has more than one; a byte is
           \* written as the character that chr() makes of it
  Chr      \* what chr(int(xy, 16)) makes of the symbols x, y where int accepts
           \* them: two hexadecimal digits, or a sign or a blank and one

Text == Seq(Symbol)

\* What the decoder gives a meaning of its own.
Mark == {"%", "+", "&", "="}

\* What an encoder writes after a "%".
Escape == {xy \in DOMAIN Chr : ToSet(xy) \cap Mark = {}}

\* Every mark has an escape, and so has every byte of a longer character.
ASSUME FormsAssumption ==
  /\ " " \in Symbol
  /\ \A xy \in DOMAIN Chr : xy \in Text /\ Len(xy) = 2 /\ Chr[xy] \in Symbol
  /\ \A m \in Mark : \E xy \in Escape : Chr[xy] = m
  /\ \A x \in DOMAIN Utf8 : Utf8[x] \in Seq({Chr[xy] : xy \in Escape})

\* Mutant: the escape at the very end of the text is not seen.
UnquoteShort(value) ==
  LET from[i \in 1 .. Len(value) + 1] ==
        IF i > Len(value) THEN <<>>
        ELSE IF /\ value[i] = "%" /\ i + 2 < Len(value)
                /\ SubSeq(value, i + 1, i + 2) \in DOMAIN Chr
        THEN <<Chr[SubSeq(value, i + 1, i + 2)]>> \o from[i + 3]
        ELSE <<IF value[i] = "+" THEN " " ELSE value[i]>> \o from[i + 1]
  IN  from[1]

\* A "%" that is not followed by a number stands for itself.
url_unquote(value) ==
  LET from[i \in 1 .. Len(value) + 1] ==
        IF i > Len(value) THEN <<>>
        ELSE IF /\ value[i] = "%" /\ i + 2 <= Len(value)
                /\ SubSeq(value, i + 1, i + 2) \in DOMAIN Chr
        THEN <<Chr[SubSeq(value, i + 1, i + 2)]>> \o from[i + 3]
        ELSE <<IF value[i] = "+" THEN " " ELSE value[i]>> \o from[i + 1]
  IN  from[1]

\* What comes before and after the first mark.
Before(text, mark) ==
  LET i == SelectInSeq(text, LAMBDA x : x = mark)
  IN  IF i = 0 THEN text ELSE SubSeq(text, 1, i - 1)
After(text, mark) ==
  LET i == SelectInSeq(text, LAMBDA x : x = mark)
  IN  IF i = 0 THEN <<>> ELSE SubSeq(text, i + 1, Len(text))

\* dict.update: the new value of a key replaces the old one.
Updated(params, new) ==
  [k \in DOMAIN params \cup DOMAIN new |->
     IF k \in DOMAIN new THEN new[k] ELSE params[k]]

\* value.split("&") without its empty items, each as its first and last place.
Items(value) ==
  LET places == 1 .. Len(value) IN
  {ij \in places \X places :
     /\ ij[1] <= ij[2] /\ "&" \notin ToSet(SubSeq(value, ij[1], ij[2]))
     /\ ij[1] = 1 \/ value[ij[1] - 1] = "&"
     /\ ij[2] = Len(value) \/ value[ij[2] + 1] = "&"}

\* The last item with a key gives its value.
parse_kv_pairs(value) ==
  LET Item(ij) == SubSeq(value, ij[1], ij[2])
      Key(ij)  == url_unquote(Before(Item(ij), "="))
      Of(k)    == {ij \in Items(value) : Key(ij) = k}
      LastOf(k) == CHOOSE ij \in Of(k) : \A other \in Of(k) : other[1] <= ij[1]
  IN  [k \in {Key(ij) : ij \in Items(value)} |->
         url_unquote(After(Item(LastOf(k)), "="))]

\* params.get(key, default)
Get(params, key, default) ==
  IF key \in DOMAIN params THEN params[key] ELSE default

-----------------------------------------------------------------------------
\* URLSearchParams of the page: the bytes of the pairs of a form, escaped.
OneByte(text) == ToSet(text) \cap DOMAIN Utf8 = {}

BytesOf(x)  == IF x \in DOMAIN Utf8 THEN Utf8[x] ELSE <<x>>
Bytes(text) == FlattenSeq([i \in 1 .. Len(text) |-> BytesOf(text[i])])

Escaped(x) ==
  IF \E d \in Escape : Chr[d] = x
    THEN <<"%">> \o (CHOOSE d \in Escape : Chr[d] = x)
  ELSE IF x = " " THEN <<"+">> ELSE <<x>>

Quote(bytes) == FlattenSeq([i \in 1 .. Len(bytes) |-> Escaped(bytes[i])])

\* One pair of a form; all but the first follow an "&".
Pair(form, i) ==
  (IF i = 1 THEN <<>> ELSE <<"&">>)
    \o Quote(Bytes(form[i][1])) \o <<"=">> \o Quote(Bytes(form[i][2]))

Encode(form) == FlattenSeq([i \in 1 .. Len(form) |-> Pair(form, i)])

=============================================================================
