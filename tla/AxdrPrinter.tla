------------------------------ MODULE AxdrPrinter ------------------------------
(***************************************************************************)
(* AxdrPrinter (lib/AxdrPrinter.cpp, .h) and the one object of it, gPrinter *)
(* (lib/CosemClient.cpp), which prints every dump of the process: Start,    *)
(* Append for each tag that csm_axdr_decode_tags finds in the application   *)
(* buffer, End.  The text is a sequence of lines, a line what it says and   *)
(* how far it is indented.  A value is a tree; its tags come in the order   *)
(* of the encoding, and fewer of them when the buffer holds only a part.    *)
(***************************************************************************)
EXTENDS Integers, Sequences, FiniteSets

CONSTANTS
  ByteValues, \* the values of a byte
  Sizes,      \* bound: how many elements an array or a structure may have
  NumberTypes,\* bound: the types of the numbers the meter sends
  Numbers,    \* bound: the numbers the meter sends
  MaxTags     \* bound: the tags of one dump

ASSUME ByteAssumption == ByteValues \in Nat \ {0}

Containers == {"ARRAY", "STRUCTURE"}
Signed == {"INTEGER8", "INTEGER16", "INTEGER32", "INTEGER64"}
Unsigned == {"UNSIGNED8", "UNSIGNED16", "UNSIGNED32", "UNSIGNED64"}

ASSUME TagAssumption ==
  /\ Sizes \subseteq Nat /\ MaxTags \in Nat
  /\ NumberTypes \subseteq Signed \cup Unsigned /\ Numbers \subseteq Int

VARIABLES
  mLevels,    \* the elements that are open, outermost first
  mStream,    \* the text, a sequence of lines
  printing,   \* TRUE between Start and End
  left,       \* history: elements of the value that are still to come
  tags,       \* history: what Append was given since Start
  cut         \* history: an earlier dump ended before its value did

printerVars == <<mLevels, mStream, printing, left, tags, cut>>

Element == [counter : Nat, size : Nat, type : Containers]
Line == [kind : {"root", "open", "value", "close", "end"}, indent : Nat,
         type : Containers \cup Signed \cup Unsigned \cup {"Root"}, text : Int]

-----------------------------------------------------------------------------
(* The numbers                                                             *)

Square(n) == n * n

\* How many numbers the bytes of a type can tell.
Values(type) ==
  CASE type \in {"INTEGER8", "UNSIGNED8"} -> ByteValues
    [] type \in {"INTEGER16", "UNSIGNED16"} -> Square(ByteValues)
    [] type \in {"INTEGER32", "UNSIGNED32"} -> Square(Square(ByteValues))
    [] type \in {"INTEGER64", "UNSIGNED64"} -> Square(Square(Square(ByteValues)))

\* The numbers a type can carry.
InRange(type, n) ==
  IF type \in Signed THEN -Values(type) <= 2 * n /\ 2 * n < Values(type)
                     ELSE 0 <= n /\ n < Values(type)

\* What the meter sends: two's complement.
Encoded(type, n) == n % Values(type)

\* The number of the value of a type that bytes stand for.
Decoded(type, data) ==
  IF type \in Signed /\ 2 * data >= Values(type) THEN data - Values(type) ELSE data

\* Variant: INTEGER16 is read as the others are, and INTEGER8 in half a byte.
DataToStringCut(type, data) == data % Values("INTEGER8")

\* DataToString: GET_BE16 goes through an int16_t, the other signed types
\* through an unsigned one, which a long of 64 bits keeps as it is.
DataToString(type, data) ==
  IF type = "INTEGER16" THEN Decoded(type, data) ELSE data

-----------------------------------------------------------------------------
(* The printer                                                             *)

\* Variant: one element more than the size.
FinishedPast(element) == element.counter > element.size

Finished(element) == element.counter >= element.size

\* mLevels.back().counter++, if there is one.
Counted(levels) ==
  [i \in DOMAIN levels |->
     IF i = Len(levels) THEN [levels[i] EXCEPT !.counter = @ + 1] ELSE levels[i]]

\* Variant: the levels around a finished one are not looked at.
RemainingInnermost(levels) ==
  IF levels # <<>> /\ Finished(levels[Len(levels)]) THEN Len(levels) - 1 ELSE Len(levels)

\* "at least current level is finished, go back N levels": how many remain.
Remaining(levels) ==
  CHOOSE n \in 0..Len(levels) :
    /\ n = 0 \/ ~Finished(levels[n])
    /\ \A i \in n + 1..Len(levels) : Finished(levels[i])

\* Variant: their names from the outside in.
ClosingOutermostFirst(levels) ==
  [i \in 1..Len(levels) - Remaining(levels) |->
     [kind |-> "close", indent |-> Len(levels) - i,
      type |-> levels[Remaining(levels) + i].type, text |-> 0]]

\* The closing tags, innermost first, each at the indent of what is left.
Closing(levels) ==
  [i \in 1..Len(levels) - Remaining(levels) |->
     [kind |-> "close", indent |-> Len(levels) - i,
      type |-> levels[Len(levels) + 1 - i].type, text |-> 0]]

\* Variant: indented like what is inside.
OpeningInside(tag) ==
  [kind |-> "open", indent |-> Len(mLevels) + 1, type |-> tag.type, text |-> tag.size]

Opening(tag) ==
  [kind |-> "open", indent |-> Len(mLevels), type |-> tag.type, text |-> tag.size]

Leaf(tag) ==
  [kind |-> "value", indent |-> Len(mLevels), type |-> tag.type,
   text |-> DataToString(tag.type, tag.data)]

\* Variant: the new element counts itself, and not for the one around it.
OpenedThenCounted(tag) ==
  Counted(Append(mLevels, [counter |-> 0, size |-> tag.size, type |-> tag.type]))

Opened(tag) ==
  Append(Counted(mLevels), [counter |-> 0, size |-> tag.size, type |-> tag.type])

\* Append(type, size, data)
AppendTag(tag) ==
  LET container == tag.type \in Containers
      levels == IF container THEN Opened(tag) ELSE Counted(mLevels)
      line == IF container THEN Opening(tag) ELSE Leaf(tag)
  IN  /\ mStream' = Append(mStream, line) \o Closing(levels)
      /\ mLevels' = SubSeq(levels, 1, Remaining(levels))

Root == [kind |-> "root", indent |-> 0, type |-> "Root", text |-> 0]
EndRoot == [kind |-> "end", indent |-> 0, type |-> "Root", text |-> 0]

PrinterInit ==
  /\ mLevels = <<>> /\ mStream = <<>>
  /\ printing = FALSE /\ left = 0 /\ tags = <<>> /\ cut = FALSE

\* Start: the text is cleared, mLevels is not.
Start ==
  /\ ~printing /\ printing' = TRUE
  /\ mStream' = <<Root>>
  /\ left' = 1 /\ tags' = <<>> /\ cut' = (cut \/ left > 0)
  /\ UNCHANGED mLevels

NumberTag(type, n) == [type |-> type, size |-> 0, data |-> Encoded(type, n)]

Tag ==
  [type : Containers, size : Sizes, data : {0}]
    \cup UNION {{NumberTag(t, n) : n \in {m \in Numbers : InRange(t, m)}} :
                 t \in NumberTypes}

\* csm_axdr_decode_tags calls AxdrData with the next tag of the value.
AxdrData(tag) ==
  /\ printing /\ left > 0
  /\ AppendTag(tag)
  /\ left' = left - 1 + (IF tag.type \in Containers THEN tag.size ELSE 0)
  /\ tags' = Append(tags, tag)
  /\ UNCHANGED <<printing, cut>>

\* End, after the last tag of the value or before, when the buffer holds only a
\* part of it: the result of csm_axdr_decode_tags is not looked at.
End ==
  /\ printing /\ printing' = FALSE
  /\ mStream' = Append(mStream, EndRoot)
  /\ UNCHANGED <<mLevels, left, tags, cut>>

PrinterNext ==
  \/ Start
  \/ \E tag \in Tag : Len(tags) < MaxTags /\ AxdrData(tag)
  \/ End

PrinterSpec == PrinterInit /\ [][PrinterNext]_printerVars

-----------------------------------------------------------------------------
(* Properties                                                              *)

\* The type of every variable.  No element holds more than its size, and the
\* innermost one that is open is not finished.
PrinterTypeOK ==
  /\ mLevels \in Seq(Element) /\ mStream \in Seq(Line)
  /\ printing \in BOOLEAN /\ left \in Nat /\ cut \in BOOLEAN
  /\ \A i \in DOMAIN mLevels : mLevels[i].counter <= mLevels[i].size
  /\ mLevels # <<>> => ~Finished(mLevels[Len(mLevels)])
  /\ tags \in Seq([type : Containers \cup Signed \cup Unsigned, size : Nat, data : Nat])

\* The line at j closes the one at i: same element, same indent, and
\* everything in between is inside.
Closes(j, i) ==
  /\ i < j /\ mStream[i].kind = "open" /\ mStream[j].kind = "close"
  /\ mStream[i].indent = mStream[j].indent /\ mStream[i].type = mStream[j].type
  /\ \A k \in i + 1..j - 1 : mStream[k].indent > mStream[i].indent

\* The dumps of the process share mLevels.  As long as no dump has been cut
\* short, every closing tag closes the innermost element that is open, of its own kind.
ClosesMatch ==
  ~cut => \A j \in DOMAIN mStream :
             mStream[j].kind = "close" => \E i \in DOMAIN mStream : Closes(j, i)

\* An element that is not closed yet is one of mLevels, and in its place.
OpensMatch ==
  ~cut => \A i \in DOMAIN mStream :
    mStream[i].kind = "open" =>
      \/ \E j \in DOMAIN mStream : Closes(j, i)
      \/ LET n == mStream[i].indent + 1
         IN  n \in DOMAIN mLevels /\ mLevels[n].type = mStream[i].type
                                  /\ mLevels[n].size = mStream[i].text

\* The lines directly inside the element that the line at i opens.
Children(i, j) ==
  {k \in i + 1..j - 1 : mStream[k].kind \in {"open", "value"}
                        /\ mStream[k].indent = mStream[i].indent + 1}

\* The size an element states is the number of elements it has in the text.
SizesTrue ==
  ~cut => \A i, j \in DOMAIN mStream :
             Closes(j, i) => Cardinality(Children(i, j)) = mStream[i].text

\* All elements are closed when the whole value has been printed and not
\* before: no level remains for the next dump.
CompleteMeansClosed ==
  ~cut /\ tags # <<>> => (left = 0 <=> mLevels = <<>>)

\* The lines that show a tag, in the order of the text.
Elements == {k \in DOMAIN mStream : mStream[k].kind \in {"open", "value"}}

\* Whatever was left by an earlier dump, the lines tell the tags in their
\* order, each with its type and size, and a number so that its bytes, and with
\* the type the number the meter sent, can be told from what is printed.
TextTellsTags ==
  /\ Cardinality(Elements) = Len(tags)
  /\ \A j \in Elements :
       LET tag == tags[Cardinality({k \in Elements : k <= j})]
       IN  /\ mStream[j].type = tag.type
           /\ IF tag.type \in Containers
                THEN mStream[j].text = tag.size
                ELSE mStream[j].text % Values(tag.type) = tag.data

================================================================================
