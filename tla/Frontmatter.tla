---------------------------- MODULE Frontmatter ----------------------------
(* The frontmatter of an item (frontmatter.rs): parse reads a block of lines  *)
(* in which anything may be missing, repeated or misplaced, and render writes *)
(* the block back, which is what every clean merge does to an item            *)
(* (merge.rs). A line is its indentation, its key and its value; comments,    *)
(* blank lines and lines without a key say nothing and are left out. A text   *)
(* is a word, a number of double quotes and of backslashes in it, and what is *)
(* at its two ends from the outside in: pairs of quotes and spaces.           *)
EXTENDS Naturals, Sequences, SequencesExt

CONSTANTS
  Blank,         \* no value on the line
  Null,          \* an absent field; of a list also null, ~ or an empty pair of quotes
  SampleLines,   \* the lines a block may be put together from
  MaxLines,      \* bound: lines of the first block
  MaxRewrites    \* bound: merges that rewrite it

TextFields == {"title", "expires", "updated"}
Enums      == {"type", "scope", "visibility", "confidence"}
Bare       == {"workspace", "tokens"}
Provenance == {"actor", "session", "source"}
Lists      == {"tags", "refs"}

Top(key, value)   == [indent |-> 0, key |-> key, value |-> value]
Below(key, value) == [indent |-> 1, key |-> key, value |-> value]

(* What is on a line, by its key: the items of a list, or one of them below   *)
(* it; a text everywhere else. An item is the texts between its commas; one   *)
(* that has commas stands for what is left when the quotes around it are off. *)
(* The word of ~ is null. Control characters, which {:?} spells out, are left *)
(* out, and a title's double quotes inside other quotes are among its quotes. *)
ItemTexts == [word : STRING, around : Seq({"quotes", "space"}), quotes : Nat, slashes : Nat]
IsLine(l) ==
  /\ l.indent \in Nat
  /\ l.key \in Lists => l.value \in {Blank, Null} \union Seq(Seq(ItemTexts))
  /\ l.key = "-" => l.value \in Seq(ItemTexts)
  /\ l.key \notin Lists \union {"-"} => l.value \in {Blank} \union ItemTexts

ASSUME NothingIsNoText ==
  /\ Blank # Null
  /\ {Blank, Null} \cap ItemTexts = {}
  /\ {Blank, Null} \cap Seq(Seq(ItemTexts)) = {}

ASSUME SamplesAreLines == \A l \in SampleLines : IsLine(l)

VARIABLES lines, rewrites

frontmatterVars == <<lines, rewrites>>

-----------------------------------------------------------------------------

(* parse_block: an indented line belongs to the last line at the margin       *)
(* before it, and only if that one has a key and no value of its own.         *)
Owner(i) == {j \in 1 .. i - 1 : lines[j].indent = 0 /\ \A k \in j + 1 .. i : lines[k].indent > 0}
ChildOf(i, key) ==
  /\ lines[i].indent > 0
  /\ \E j \in Owner(i) : lines[j].key = key /\ lines[j].value = Blank

Children(j) == {i \in DOMAIN lines : lines[i].indent > 0 /\ Owner(i) = {j}}

(* The lines that say something about a scalar field: its own line, if it has *)
(* a value, and for a field of the provenance also one below provenance:,     *)
(* whatever its value.                                                        *)
LinesAbout(field) ==
  {i \in DOMAIN lines :
     /\ lines[i].key = field
     /\ \/ lines[i].indent = 0 /\ lines[i].value # Blank
        \/ field \in Provenance /\ ChildOf(i, "provenance")}

Latest(S) == CHOOSE i \in S : \A j \in S : j <= i

(* unquote trims a text and takes one pair of quotes off it, no more.         *)
WrappedIn(text, end) == text.around # <<>> /\ Head(text.around) = end
Without(text, end) == IF WrappedIn(text, end) THEN [text EXCEPT !.around = Tail(@)] ELSE text
Unquoted(text) == Without(Without(text, "space"), "quotes")

(* opt_string: null and nothing are the absent value. An enumeration's value  *)
(* is the name it is written with, one the schema knows or any other.         *)
IsOneOf(text, words) == text.word \in words /\ text.around = <<>> /\ text.quotes = 0 /\ text.slashes = 0
ReadText(text) ==
  IF text \in {Blank, Null} THEN Null
  ELSE IF IsOneOf(Unquoted(text), {"null", ""}) THEN Null ELSE Unquoted(text)

Scalar(field) ==
  IF LinesAbout(field) = {} THEN Null ELSE ReadText(lines[Latest(LinesAbout(field))].value)

(* A list is in brackets after its key, one item after its key, or one dash   *)
(* line per item below it; the last line with the key decides, also when      *)
(* nothing is below it. Each item is unquoted; empty ones are dropped.        *)
ItemOf(texts) == IF Len(texts) = 1 THEN <<Unquoted(texts[1])>> ELSE texts
IsEmpty(texts) == Len(texts) = 1 /\ IsOneOf(texts[1], {""})
ItemsOf(list) ==
  FlattenSeq([n \in DOMAIN list |->
                IF IsEmpty(ItemOf(list[n])) THEN <<>> ELSE <<ItemOf(list[n])>>])

Dashes(j) ==
  FlattenSeq([i \in DOMAIN lines |->
                IF i \in Children(j) /\ lines[i].key = "-" THEN <<lines[i].value>> ELSE <<>>])

ListOf(field) ==
  LET says == {i \in DOMAIN lines : lines[i].key = field /\ lines[i].indent = 0}
      value == lines[Latest(says)].value
  IN  IF says = {} THEN <<>>
      ELSE CASE value = Blank -> ItemsOf(Dashes(Latest(says)))
             [] value = Null  -> <<>>
             [] OTHER         -> ItemsOf(value)

AllFields == TextFields \union Bare \union Provenance \union Enums \union Lists

ParseBlock == [f \in AllFields |-> IF f \in Lists THEN ListOf(f) ELSE Scalar(f)]

-----------------------------------------------------------------------------

(* render: what is absent is not written. Titles, dates, actor and session    *)
(* are written with {:?}, in quotes, a backslash before every quote and every *)
(* backslash, and unquote only takes the outer quotes off again. Everything   *)
(* else is written as it is, whatever is at its ends.                         *)
Debugged == TextFields \union {"actor", "session"}

Escaped(text) == [text EXCEPT !.slashes = 2 * @ + text.quotes]
Quoted(text)  == [text EXCEPT !.around = <<"quotes">> \o @]

Written(fm, f) == IF f \in Debugged THEN Quoted(Escaped(fm[f])) ELSE fm[f]

\* fault: a provenance of a source alone is not announced
HasProvenance_Actor(fm) == fm["actor"] # Null \/ fm["session"] # Null

HasProvenance(fm) == \E f \in Provenance : fm[f] # Null

(* A list is joined with commas, which part an item that has one itself.      *)
Joined(items) == FlattenSeq([n \in DOMAIN items |-> [m \in DOMAIN items[n] |-> <<items[n][m]>>]])

LineFor(fm, f) ==
  CASE f = "provenance" -> IF HasProvenance(fm) THEN <<Top(f, Blank)>> ELSE <<>>
    [] f \in Lists      -> IF fm[f] = <<>> THEN <<>> ELSE <<Top(f, Joined(fm[f]))>>
    [] OTHER            -> IF fm[f] = Null THEN <<>>
                           ELSE IF f \in Provenance THEN <<Below(f, Written(fm, f))>>
                           ELSE <<Top(f, Written(fm, f))>>

Order == <<"title", "type", "scope", "workspace", "visibility", "provenance", "actor", "session",
           "source", "confidence", "expires", "tokens", "tags", "refs", "updated">>

Render(fm) == FlattenSeq([n \in DOMAIN Order |-> LineFor(fm, Order[n])])

Rewrite ==
  /\ rewrites < MaxRewrites
  /\ rewrites' = rewrites + 1
  /\ lines' = Render(ParseBlock)

FrontmatterInit ==
  /\ \E n \in 0 .. MaxLines : lines \in [1 .. n -> SampleLines]
  /\ rewrites = 0

FrontmatterSpec == FrontmatterInit /\ [][Rewrite]_frontmatterVars

-----------------------------------------------------------------------------

(* However the first block is disordered, repeats itself or says things in    *)
(* the wrong place, a rewrite keeps what parse made of it, but for what       *)
(* render does not undo. Backslashes add up in a title, a date, an actor or a *)
(* session with quotes. Every other field loses the spaces and one pair of    *)
(* quotes at its ends, each time it is written, until it may say null and is  *)
(* gone; and so does every item of a list, of which one with a comma becomes  *)
(* two.                                                                       *)
Rewritten(fm, f) ==
  CASE f \in Lists    -> ItemsOf(Joined(fm[f]))
    [] f \in Debugged -> IF fm[f] = Null THEN Null ELSE Escaped(fm[f])
    [] OTHER          -> ReadText(fm[f])

RewriteKeepsTheItem ==
  [][lines' # lines => \A f \in AllFields : ParseBlock'[f] = Rewritten(ParseBlock, f)]_lines

=============================================================================
