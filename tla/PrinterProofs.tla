----------------------------- MODULE PrinterProofs -----------------------------
(***************************************************************************)
(* Proofs about AxdrPrinter, for values of every depth and size, and any    *)
(* number of dumps.                                                         *)
(***************************************************************************)
EXTENDS AxdrPrinter, SequenceTheorems, FiniteSetTheorems, WellFoundedInduction, TLAPS

TagType == [type : Containers \cup Signed \cup Unsigned, size : Nat, data : Nat]

-----------------------------------------------------------------------------
(* A set of numbers has a smallest one                                     *)

Less == {ss \in Nat \X Nat : ss[1] < ss[2]}

\* The order of the numbers has no infinite descent.
LEMMA LessWellFounded == IsWellFoundedOn(Less, Nat)
<1>1. OpToRel(<, Nat) = Less
  BY DEF OpToRel, Less
<1> QED
  BY <1>1, NatLessThanWellFounded

\* A set of numbers that is not empty has a smallest one.
LEMMA Smallest ==
  ASSUME NEW T, T \subseteq Nat, T # {}
  PROVE  \E x \in T : \A y \in T : x <= y
<1>1. PICK x \in T : \A y \in T : ~ (<<y, x>> \in Less)
  BY LessWellFounded, WFMin, Zenon
<1>2. ASSUME NEW y \in T PROVE x <= y
  <2>1. x \in Nat /\ y \in Nat
    OBVIOUS
  <2>2. <<y, x>> \in Nat \X Nat /\ <<y, x>>[1] = y /\ <<y, x>>[2] = x
    BY <2>1
  <2>3. ~ (<<y, x>>[1] < <<y, x>>[2])
    BY <1>1, <2>2 DEF Less
  <2> QED
    BY <2>1, <2>2, <2>3
<1> QED
  BY <1>2

-----------------------------------------------------------------------------
(* The levels                                                              *)

\* The loop at the end of Append stops at the innermost unfinished level.
LEMMA RemainingProperties ==
  ASSUME NEW levels \in Seq(Element)
  PROVE  /\ Remaining(levels) \in 0..Len(levels)
         /\ Remaining(levels) = 0 \/ ~Finished(levels[Remaining(levels)])
         /\ \A i \in Remaining(levels) + 1..Len(levels) : Finished(levels[i])
<1> DEFINE n == Len(levels)
           T == {k \in 0..n : n - k = 0 \/ ~Finished(levels[n - k])}
<1>1. n \in Nat
  OBVIOUS
<1>2. T \subseteq Nat /\ n \in T
  BY <1>1
<1>3. PICK k \in T : \A y \in T : k <= y
  <2> HIDE DEF T
  <2> QED
    BY <1>2, Smallest
<1>4. n - k \in 0..n /\ (n - k = 0 \/ ~Finished(levels[n - k]))
  BY <1>1
<1>5. ASSUME NEW i \in n - k + 1..n PROVE Finished(levels[i])
  <2>1. n - i \in 0..n /\ n - (n - i) = i /\ n - i < k
    BY <1>1, <1>4
  <2>2. ~ (n - i \in T)
    BY <1>3, <2>1
  <2> QED
    BY <2>1, <2>2
<1>6. \E m \in 0..n : (m = 0 \/ ~Finished(levels[m]))
                      /\ \A i \in m + 1..n : Finished(levels[i])
  BY <1>4, <1>5
<1> QED
  BY <1>6 DEF Remaining

\* What Append makes of the levels before it closes any, and the line of the tag.
Grown(tag) == IF tag.type \in Containers THEN Opened(tag) ELSE Counted(mLevels)
LineOf(tag) == IF tag.type \in Containers THEN Opening(tag) ELSE Leaf(tag)

\* Counting an element changes one counter, which stays within its size.
LEMMA CountedProperties ==
  ASSUME PrinterTypeOK
  PROVE  /\ Counted(mLevels) \in Seq(Element) /\ Len(Counted(mLevels)) = Len(mLevels)
         /\ \A i \in 1..Len(mLevels) :
              /\ Counted(mLevels)[i].type = mLevels[i].type
              /\ Counted(mLevels)[i].size = mLevels[i].size
              /\ Counted(mLevels)[i].counter =
                   IF i = Len(mLevels) THEN mLevels[i].counter + 1 ELSE mLevels[i].counter
              /\ Counted(mLevels)[i].counter <= Counted(mLevels)[i].size
<1> DEFINE n == Len(mLevels)
<1>1. mLevels \in Seq(Element) /\ n \in Nat /\ DOMAIN mLevels = 1..n
  BY DEF PrinterTypeOK
<1>2. ASSUME NEW i \in 1..n
      PROVE  /\ Counted(mLevels)[i] \in Element
             /\ Counted(mLevels)[i].type = mLevels[i].type
             /\ Counted(mLevels)[i].size = mLevels[i].size
             /\ Counted(mLevels)[i].counter =
                  IF i = n THEN mLevels[i].counter + 1 ELSE mLevels[i].counter
             /\ Counted(mLevels)[i].counter <= Counted(mLevels)[i].size
  <2>1. mLevels[i] \in Element /\ mLevels[i].counter <= mLevels[i].size
    BY <1>1 DEF PrinterTypeOK
  <2>2. i = n => ~Finished(mLevels[i])
    BY <1>1 DEF PrinterTypeOK
  <2>3. Counted(mLevels)[i] =
          IF i = n THEN [mLevels[i] EXCEPT !.counter = @ + 1] ELSE mLevels[i]
    BY <1>1 DEF Counted
  <2>4. mLevels[i] = [counter |-> mLevels[i].counter, size |-> mLevels[i].size,
                      type |-> mLevels[i].type]
        /\ mLevels[i].counter \in Nat /\ mLevels[i].size \in Nat
    BY <2>1 DEF Element
  <2> QED
    BY <2>1, <2>2, <2>3, <2>4 DEF Element, Finished
<1>3. Counted(mLevels) \in [1..n -> Element]
  BY <1>1, <1>2 DEF Counted
<1>4. Counted(mLevels) \in Seq(Element)
  BY <1>1, <1>3
<1>5. Len(Counted(mLevels)) = n
  BY <1>1, <1>3, <1>4
<1> QED
  BY <1>2, <1>4, <1>5

\* The levels that were there, counted, and the one of the tag.
LEMMA LevelsProperties ==
  ASSUME PrinterTypeOK, NEW tag \in TagType
  PROVE  /\ Grown(tag) \in Seq(Element)
         /\ Len(Grown(tag)) = IF tag.type \in Containers THEN Len(mLevels) + 1
                                                          ELSE Len(mLevels)
         /\ \A i \in 1..Len(mLevels) :
              /\ Grown(tag)[i].type = mLevels[i].type
              /\ Grown(tag)[i].size = mLevels[i].size
              /\ Grown(tag)[i].counter =
                   IF i = Len(mLevels) THEN mLevels[i].counter + 1 ELSE mLevels[i].counter
         /\ tag.type \in Containers =>
              Grown(tag)[Len(mLevels) + 1]
                = [counter |-> 0, size |-> tag.size, type |-> tag.type]
         /\ \A i \in 1..Len(Grown(tag)) : Grown(tag)[i].counter <= Grown(tag)[i].size
<1> DEFINE e == [counter |-> 0, size |-> tag.size, type |-> tag.type]
<1>1. Len(mLevels) \in Nat
  BY DEF PrinterTypeOK
<1>2. CASE tag.type \in Containers
  <2>1. e \in Element /\ e.counter <= e.size
    BY <1>2 DEF Element, TagType
  <2>2. Grown(tag) = Append(Counted(mLevels), e)
    BY <1>2 DEF Grown, Opened
  <2> HIDE DEF e
  <2>3. /\ Grown(tag) \in Seq(Element)
        /\ Len(Grown(tag)) = Len(mLevels) + 1
        /\ \A i \in 1..Len(mLevels) : Grown(tag)[i] = Counted(mLevels)[i]
        /\ Grown(tag)[Len(mLevels) + 1] = e
    BY <1>1, <2>1, <2>2, CountedProperties, AppendProperties
  <2>4. \A i \in 1..Len(mLevels) + 1 : i \in 1..Len(mLevels) \/ i = Len(mLevels) + 1
    BY <1>1
  <2> QED
    BY <1>1, <1>2, <2>1, <2>3, <2>4, CountedProperties DEF e
<1>3. CASE tag.type \notin Containers
  BY <1>3, CountedProperties DEF Grown
<1> QED
  BY <1>2, <1>3

-----------------------------------------------------------------------------
(* The text                                                                *)

\* A square of a positive number is one.
LEMMA SquareProperties ==
  ASSUME NEW n \in Nat \ {0}
  PROVE  Square(n) \in Nat \ {0}
  BY DEF Square

\* The number of values of a type is positive.
LEMMA ValuesProperties ==
  ASSUME NEW type \in Signed \cup Unsigned
  PROVE  Values(type) \in Nat \ {0}
<1> DEFINE V1 == ByteValues
           V2 == Square(ByteValues)
           V4 == Square(V2)
           V8 == Square(V4)
<1>1. /\ V1 \in Nat \ {0} /\ V2 \in Nat \ {0}
      /\ V4 \in Nat \ {0} /\ V8 \in Nat \ {0}
  BY ByteAssumption, SquareProperties
<1>2. Values(type) = CASE type \in {"INTEGER8", "UNSIGNED8"} -> V1
                       [] type \in {"INTEGER16", "UNSIGNED16"} -> V2
                       [] type \in {"INTEGER32", "UNSIGNED32"} -> V4
                       [] type \in {"INTEGER64", "UNSIGNED64"} -> V8
  BY DEF Values
<1> HIDE DEF V1, V2, V4, V8
<1>3. \/ type \in {"INTEGER8", "UNSIGNED8"} \/ type \in {"INTEGER16", "UNSIGNED16"}
      \/ type \in {"INTEGER32", "UNSIGNED32"} \/ type \in {"INTEGER64", "UNSIGNED64"}
  BY DEF Signed, Unsigned
<1>4. Values(type) \in {V1, V2, V4, V8}
  BY <1>2, <1>3
<1> QED
  BY <1>1, <1>4

\* What the meter sends are tags.
LEMMA TagsTyped == Tag \subseteq TagType
<1>1. [type : Containers, size : Sizes, data : {0}] \subseteq TagType
  <2>1. Containers \subseteq Containers \cup Signed \cup Unsigned /\ {0} \subseteq Nat
    OBVIOUS
  <2> QED
    BY <2>1, TagAssumption, Zenon DEF TagType
<1>2. ASSUME NEW t \in NumberTypes, NEW n \in Numbers
      PROVE  NumberTag(t, n) \in TagType
  <2>1. t \in Signed \cup Unsigned /\ n \in Int
    BY TagAssumption
  <2>2. Values(t) \in Nat \ {0}
    BY <2>1, ValuesProperties
  <2>3. n % Values(t) \in Nat
    BY <2>1, <2>2
  <2> QED
    BY <2>1, <2>3 DEF NumberTag, Encoded, TagType
<1> QED
  BY <1>1, <1>2 DEF Tag

\* The line of a tag, indented by the levels that are open.
LEMMA ShownProperties ==
  ASSUME PrinterTypeOK, NEW tag \in TagType
  PROVE  /\ LineOf(tag) \in Line /\ LineOf(tag).indent = Len(mLevels)
         /\ LineOf(tag).kind = IF tag.type \in Containers THEN "open" ELSE "value"
         /\ tag.type \in Containers =>
              LineOf(tag).type = tag.type /\ LineOf(tag).text = tag.size
<1>1. Len(mLevels) \in Nat /\ tag.data \in Nat /\ tag.size \in Nat
      /\ tag.type \in Containers \cup Signed \cup Unsigned
  BY DEF PrinterTypeOK, TagType
<1>2. CASE tag.type \in Containers
  BY <1>1, <1>2 DEF LineOf, Opening, Line
<1>3. CASE tag.type \notin Containers
  <2>1. tag.type \in Signed \cup Unsigned
    BY <1>3 DEF TagType
  <2>2. Values(tag.type) \in Nat
    BY <2>1, ValuesProperties
  <2>3. DataToString(tag.type, tag.data) \in Int
    BY <1>1, <2>2 DEF DataToString, Decoded
  <2> QED
    BY <1>1, <1>3, <2>3 DEF LineOf, Leaf, Line
<1> QED
  BY <1>2, <1>3

\* What a tag does to the text and to the levels.
LEMMA TagStep ==
  ASSUME PrinterTypeOK, NEW tag \in TagType, AxdrData(tag)
  PROVE  LET levels == Grown(tag)
             m == Len(levels)
             r == Remaining(levels)
             n == Len(mStream)
         IN  /\ mLevels' \in Seq(Element) /\ Len(mLevels') = r
             /\ \A i \in 1..r : mLevels'[i] = levels[i]
             /\ mStream' \in Seq(Line) /\ Len(mStream') = n + 1 + (m - r)
             /\ \A i \in 1..n : mStream'[i] = mStream[i]
             /\ mStream'[n + 1] = LineOf(tag)
             /\ \A i \in 1..m - r :
                  mStream'[n + 1 + i] = [kind |-> "close", indent |-> m - i,
                                         type |-> levels[m + 1 - i].type, text |-> 0]
<1> DEFINE levels == Grown(tag)
           m == Len(levels)
           r == Remaining(levels)
           n == Len(mStream)
           shown == LineOf(tag)
           closing == Closing(levels)
           s == Append(mStream, shown)
<1>1. mStream' = s \o closing /\ mLevels' = SubSeq(levels, 1, r)
  BY DEF AxdrData, AppendTag, Grown, LineOf
<1>2. levels \in Seq(Element) /\ m \in Nat
  <2>1. levels \in Seq(Element)
    BY LevelsProperties, Zenon
  <2> QED
    BY <2>1, LenProperties
<1>3. r \in 0..m
  BY <1>2, RemainingProperties
<1>4. mStream \in Seq(Line) /\ n \in Nat /\ shown \in Line
  BY ShownProperties DEF PrinterTypeOK
<1>5. closing \in [1..m - r -> Line]
  <2>1. ASSUME NEW i \in 1..m - r
        PROVE  [kind |-> "close", indent |-> m - i,
                type |-> levels[m + 1 - i].type, text |-> 0] \in Line
    <3>1. m - i \in Nat /\ m + 1 - i \in 1..m
      BY <1>2, <1>3
    <3>2. levels[m + 1 - i] \in Element
      BY <1>2, <3>1
    <3> QED
      BY <3>1, <3>2 DEF Element, Line
  <2> QED
    BY <2>1 DEF Closing
<1>6. \A i \in 1..m - r :
        closing[i] = [kind |-> "close", indent |-> m - i,
                      type |-> levels[m + 1 - i].type, text |-> 0]
  BY DEF Closing
<1> HIDE DEF levels, shown, closing, r
<1>7. closing \in Seq(Line) /\ Len(closing) = m - r
  <2>1. m - r \in Nat
    BY <1>2, <1>3
  <2>2. closing \in Seq(Line)
    BY <1>5, <2>1
  <2> QED
    BY <1>5, <2>1, <2>2
<1>8. /\ s \in Seq(Line) /\ Len(s) = n + 1 /\ s[n + 1] = shown
      /\ \A i \in 1..n : s[i] = mStream[i]
  BY <1>4, AppendProperties
<1> HIDE DEF s
<1>9. /\ s \o closing \in Seq(Line) /\ Len(s \o closing) = n + 1 + (m - r)
      /\ \A i \in 1..n + 1 + (m - r) :
           (s \o closing)[i] = IF i <= n + 1 THEN s[i] ELSE closing[i - (n + 1)]
  <2>1. /\ s \o closing \in Seq(Line) /\ Len(s \o closing) = Len(s) + Len(closing)
        /\ \A i \in 1..Len(s) + Len(closing) :
             (s \o closing)[i] = IF i <= Len(s) THEN s[i] ELSE closing[i - Len(s)]
    BY <1>7, <1>8, ConcatProperties
  <2> QED
    BY <1>7, <1>8, <2>1
<1>10. /\ \A i \in 1..n + 1 : (s \o closing)[i] = s[i]
       /\ \A i \in 1..m - r : (s \o closing)[n + 1 + i] = closing[i]
  <2>1. m - r \in Nat
    BY <1>2, <1>3
  <2> QED
    BY <1>4, <1>9, <2>1
<1>11. /\ SubSeq(levels, 1, r) \in Seq(Element) /\ Len(SubSeq(levels, 1, r)) = r
       /\ \A i \in 1..r : SubSeq(levels, 1, r)[i] = levels[i]
  BY <1>2, <1>3
<1>12. \A i \in 1..n : i \in 1..n + 1
  BY <1>4
<1>13. n + 1 \in 1..n + 1
  BY <1>4
<1> QED
  BY <1>1, <1>6, <1>8, <1>9, <1>10, <1>11, <1>12, <1>13 DEF levels, shown, r

-----------------------------------------------------------------------------
(* Types                                                                   *)

\* Nothing is open and nothing has been printed.
LEMMA TypeInit == PrinterInit => PrinterTypeOK
<1> SUFFICES ASSUME PrinterInit PROVE PrinterTypeOK
  OBVIOUS
<1>1. /\ mLevels = <<>> /\ mStream = <<>> /\ tags = <<>>
      /\ printing \in BOOLEAN /\ left \in Nat /\ cut \in BOOLEAN
  BY DEF PrinterInit
<1>2. mLevels \in Seq(Element) /\ mStream \in Seq(Line) /\ tags \in Seq(TagType)
  BY <1>1, EmptySeq
<1>3. \A i \in DOMAIN mLevels : mLevels[i].counter <= mLevels[i].size
  BY <1>1
<1> QED
  BY <1>1, <1>2, <1>3 DEF PrinterTypeOK, TagType

\* Append keeps the types.
LEMMA TypeTag ==
  ASSUME PrinterTypeOK, NEW tag \in TagType, AxdrData(tag)
  PROVE  PrinterTypeOK'
<1> DEFINE levels == Grown(tag)
           r == Remaining(levels)
<1>1. levels \in Seq(Element) /\ \A i \in 1..Len(levels) : levels[i].counter <= levels[i].size
  BY LevelsProperties
<1>2. r \in 0..Len(levels) /\ (r = 0 \/ ~Finished(levels[r]))
  BY <1>1, RemainingProperties
<1>3. /\ mLevels' \in Seq(Element) /\ Len(mLevels') = r
      /\ \A i \in 1..r : mLevels'[i] = levels[i]
      /\ mStream' \in Seq(Line)
  BY TagStep
<1> HIDE DEF levels, r
<1>4. \A i \in DOMAIN mLevels' : mLevels'[i].counter <= mLevels'[i].size
  <2>1. \A i \in 1..r : i \in 1..Len(levels)
    BY <1>1, <1>2
  <2>2. DOMAIN mLevels' = 1..r
    BY <1>3
  <2> QED
    BY <1>1, <1>3, <2>1, <2>2
<1>5. mLevels' # <<>> => ~Finished(mLevels'[Len(mLevels')])
  <2> SUFFICES ASSUME mLevels' # <<>> PROVE ~Finished(mLevels'[Len(mLevels')])
    OBVIOUS
  <2>1. r # 0
    BY <1>3, EmptySeq
  <2>2. r \in 1..r
    BY <1>1, <1>2, <2>1
  <2> QED
    BY <1>2, <1>3, <2>1, <2>2
<1>6. tags' \in Seq(TagType)
  BY AppendProperties DEF AxdrData, PrinterTypeOK, TagType
<1>7. left' \in Nat
  BY DEF AxdrData, PrinterTypeOK, TagType
<1>8. printing' \in BOOLEAN /\ cut' \in BOOLEAN
  BY DEF AxdrData, PrinterTypeOK
<1> QED
  BY <1>3, <1>4, <1>5, <1>6, <1>7, <1>8 DEF PrinterTypeOK, TagType, Finished

\* The lines of Start and End.
LEMMA RootLines == Root \in Line /\ EndRoot \in Line
  BY DEF Root, EndRoot, Line

\* Every step of the printer keeps the types.
LEMMA TypeNext == PrinterTypeOK /\ [PrinterNext]_printerVars => PrinterTypeOK'
<1> SUFFICES ASSUME PrinterTypeOK, [PrinterNext]_printerVars PROVE PrinterTypeOK'
  OBVIOUS
<1>1. CASE Start
  <2>1. <<Root>> \in Seq(Line) /\ <<>> \in Seq(TagType)
    BY RootLines, EmptySeq
  <2>2. /\ mStream' = <<Root>> /\ tags' = <<>> /\ mLevels' = mLevels
        /\ printing' = TRUE /\ left' = 1 /\ cut' = (cut \/ left > 0)
    BY <1>1 DEF Start
  <2> QED
    BY <2>1, <2>2 DEF PrinterTypeOK, TagType, Finished
<1>2. CASE \E tag \in Tag : Len(tags) < MaxTags /\ AxdrData(tag)
  BY <1>2, TypeTag, TagsTyped
<1>3. CASE End
  <2>1. Append(mStream, EndRoot) \in Seq(Line)
    BY RootLines, AppendProperties DEF PrinterTypeOK
  <2> QED
    BY <1>3, <2>1 DEF End, PrinterTypeOK, Finished
<1>4. CASE UNCHANGED printerVars
  BY <1>4 DEF printerVars, PrinterTypeOK, Finished
<1> QED
  BY <1>1, <1>2, <1>3, <1>4 DEF PrinterNext

\* The types of the printer, for values of every depth: append never counts past
\* the size of an element, and never leaves a finished one innermost.
THEOREM PrinterTypeCorrect == PrinterSpec => []PrinterTypeOK
<1> QED
  BY TypeInit, TypeNext, PTL DEF PrinterSpec

-----------------------------------------------------------------------------
(* When the value is complete                                              *)

\* g[i]: how many elements the i outermost levels still wait for.  A level that
\* is finished waits for none.
Balance(levels, g) ==
  /\ g \in [0..Len(levels) -> Nat] /\ g[0] = 0
  /\ \A i \in 1..Len(levels) : g[i] = g[i - 1] + (levels[i].size - levels[i].counter)
  /\ \A i, j \in 0..Len(levels) :
       i <= j /\ (\A k \in i + 1..j : Finished(levels[k])) => g[i] = g[j]

\* The elements still to come are those the levels wait for.
Counts ==
  ~cut => IF tags = <<>> THEN mLevels = <<>> /\ left \in {0, 1}
          ELSE \E g : Balance(mLevels, g) /\ g[Len(mLevels)] = left

\* Grown that wait for nothing are all closed, and no others.
LEMMA CountsComplete == PrinterTypeOK /\ Counts => CompleteMeansClosed
<1> SUFFICES ASSUME PrinterTypeOK, Counts, ~cut, tags # <<>>
             PROVE  left = 0 <=> mLevels = <<>>
  BY DEF CompleteMeansClosed
<1> DEFINE n == Len(mLevels)
<1>1. PICK g : Balance(mLevels, g) /\ g[n] = left
  BY DEF Counts
<1>2. n \in Nat /\ mLevels \in Seq(Element)
  BY DEF PrinterTypeOK
<1>3. CASE mLevels = <<>>
  BY <1>1, <1>3 DEF Balance
<1>4. CASE mLevels # <<>>
  <2>1. n \in 1..n /\ n - 1 \in 0..n
    BY <1>2, <1>4, EmptySeq
  <2>2. mLevels[n] \in Element /\ ~Finished(mLevels[n])
    BY <1>2, <1>4, <2>1 DEF PrinterTypeOK
  <2>3. g[n - 1] \in Nat /\ g[n] = g[n - 1] + (mLevels[n].size - mLevels[n].counter)
    BY <1>1, <2>1 DEF Balance
  <2> QED
    BY <1>1, <1>4, <2>2, <2>3 DEF Finished, Element
<1> QED
  BY <1>3, <1>4

\* Append takes one from the innermost level and adds what the new one needs.
LEMMA BalanceTagged ==
  ASSUME PrinterTypeOK, NEW tag \in TagType, NEW g, Balance(mLevels, g),
         g[Len(mLevels)] > 0
  PROVE  \E h : /\ Balance(Grown(tag), h)
               /\ h[Len(Grown(tag))]
                    = g[Len(mLevels)] - 1 + (IF tag.type \in Containers THEN tag.size ELSE 0)
<1> DEFINE levels == Grown(tag)
           n == Len(mLevels)
           m == Len(levels)
           h == [i \in 0..m |-> IF i < n THEN g[i]
                                ELSE IF i = n THEN g[n] - 1 ELSE g[n] - 1 + tag.size]
<1>1. /\ mLevels \in Seq(Element) /\ n \in Nat /\ tag.size \in Nat
      /\ m = IF tag.type \in Containers THEN n + 1 ELSE n
      /\ levels \in Seq(Element)
  <2>1. levels \in Seq(Element) /\ m = IF tag.type \in Containers THEN n + 1 ELSE n
    BY LevelsProperties
  <2>2. mLevels \in Seq(Element) /\ tag.size \in Nat
    BY DEF PrinterTypeOK, TagType
  <2> QED
    BY <2>1, <2>2, LenProperties
<1>2. /\ g \in [0..n -> Nat] /\ g[0] = 0 /\ g[n] > 0 /\ g[n] \in Nat
      /\ \A i \in 1..n : g[i] = g[i - 1] + (mLevels[i].size - mLevels[i].counter)
      /\ \A i, j \in 0..n : i <= j /\ (\A k \in i + 1..j : Finished(mLevels[k])) => g[i] = g[j]
  BY <1>1 DEF Balance
<1>3. n # 0
  BY <1>2
<1>4. /\ \A i \in 1..n : mLevels[i] \in Element
      /\ \A i \in 1..n : levels[i].counter =
                           IF i = n THEN mLevels[i].counter + 1 ELSE mLevels[i].counter
      /\ \A i \in 1..n : levels[i].size = mLevels[i].size
      /\ m = n + 1 => levels[m].counter = 0 /\ levels[m].size = tag.size
      /\ \A i \in 1..m : levels[i].counter <= levels[i].size
      /\ \A i \in 1..m : levels[i].counter \in Nat /\ levels[i].size \in Nat
  <2>1. \A i \in 1..m : levels[i] \in Element
    BY <1>1
  <2>2. \A i \in 1..m : levels[i].counter \in Nat /\ levels[i].size \in Nat
    <3> HIDE DEF levels, m
    <3> QED
      BY <2>1 DEF Element
  <2>3. \A i \in 1..n : mLevels[i] \in Element
    BY <1>1
  <2>4. /\ \A i \in 1..n : levels[i].counter =
                           IF i = n THEN mLevels[i].counter + 1 ELSE mLevels[i].counter
        /\ \A i \in 1..n : levels[i].size = mLevels[i].size
        /\ \A i \in 1..m : levels[i].counter <= levels[i].size
    BY LevelsProperties
  <2>5. m = n + 1 => levels[m].counter = 0 /\ levels[m].size = tag.size
    <3> SUFFICES ASSUME m = n + 1 PROVE levels[m].counter = 0 /\ levels[m].size = tag.size
      OBVIOUS
    <3>1. tag.type \in Containers
      <4> HIDE DEF m
      <4> QED
        BY <1>1
    <3>2. levels[n + 1] = [counter |-> 0, size |-> tag.size, type |-> tag.type]
      BY <3>1, LevelsProperties
    <3> QED
      BY <3>2
  <2> HIDE DEF levels, m, n
  <2> QED
    BY <2>2, <2>3, <2>4, <2>5
<1> HIDE DEF levels, m
<1>5. h \in [0..m -> Nat] /\ h[0] = 0
  BY <1>1, <1>2, <1>3
<1>6. \A i \in 1..m : h[i] = h[i - 1] + (levels[i].size - levels[i].counter)
  <2> SUFFICES ASSUME NEW i \in 1..m
               PROVE  h[i] = h[i - 1] + (levels[i].size - levels[i].counter)
    OBVIOUS
  <2>1. i \in 0..m /\ i - 1 \in 0..m
    BY <1>1
  <2>2. CASE i <= n
    <3>1. i \in 1..n /\ g[i - 1] \in Nat
      BY <1>1, <1>2, <2>2
    <3>2. mLevels[i].counter \in Nat /\ mLevels[i].size \in Nat
      BY <1>4, <3>1 DEF Element
    <3>3. h[i - 1] = g[i - 1] /\ h[i] = IF i = n THEN g[i] - 1 ELSE g[i]
      BY <1>1, <2>1, <2>2, <3>1
    <3>4. g[i] = g[i - 1] + (mLevels[i].size - mLevels[i].counter)
      BY <1>2, <3>1
    <3>5. /\ levels[i].size = mLevels[i].size
          /\ levels[i].counter = IF i = n THEN mLevels[i].counter + 1 ELSE mLevels[i].counter
      BY <1>4, <3>1
    <3> HIDE DEF h
    <3> QED
      BY <3>1, <3>2, <3>3, <3>4, <3>5
  <2>3. CASE i > n
    <3>1. i = n + 1 /\ m = n + 1
      BY <1>1, <2>3
    <3>2. h[i - 1] = g[n] - 1 /\ h[i] = g[n] - 1 + tag.size
      BY <1>1, <2>1, <3>1
    <3>3. levels[i].counter = 0 /\ levels[i].size = tag.size
      BY <1>4, <3>1
    <3> QED
      BY <1>1, <1>2, <3>2, <3>3
  <2> QED
    BY <1>1, <2>2, <2>3
<1>7. \A i, j \in 0..m :
        i <= j /\ (\A k \in i + 1..j : Finished(levels[k])) => h[i] = h[j]
  <2> SUFFICES ASSUME NEW i \in 0..m, NEW j \in 0..m, i <= j,
                      \A k \in i + 1..j : Finished(levels[k])
               PROVE  h[i] = h[j]
    OBVIOUS
  <2>1. \A k \in 0..m : k < n => \A l \in 0..k :
          (\A q \in l + 1..k : Finished(levels[q])) => h[l] = h[k]
    <3> SUFFICES ASSUME NEW k \in 0..m, k < n, NEW l \in 0..k,
                        \A q \in l + 1..k : Finished(levels[q])
                 PROVE  h[l] = h[k]
      OBVIOUS
    <3>1. k \in 0..n /\ l \in 0..n /\ l \in 0..m /\ l <= k /\ l < n
      BY <1>1
    <3>2. \A q \in l + 1..k : Finished(mLevels[q])
      <4>1. \A q \in l + 1..k : q \in 1..n /\ q # n
        BY <1>1, <3>1
      <4> QED
        BY <1>4, <4>1 DEF Finished
    <3>3. g[l] = g[k]
      BY <1>2, <3>1, <3>2
    <3> QED
      BY <3>1, <3>3
  <2> HIDE DEF h
  <2>2. \A k \in 1..m : Finished(levels[k]) => h[k] = h[k - 1]
    <3> SUFFICES ASSUME NEW k \in 1..m, Finished(levels[k]) PROVE h[k] = h[k - 1]
      OBVIOUS
    <3>1. h[k - 1] \in Nat /\ h[k] = h[k - 1] + (levels[k].size - levels[k].counter)
      BY <1>1, <1>5, <1>6, SMTT(30)
    <3>2. levels[k].size = levels[k].counter
      BY <1>4 DEF Finished
    <3> QED
      BY <1>4, <3>1, <3>2
  <2>3. ASSUME NEW k \in 0..m, k <= n, NEW l \in 0..k,
               \A q \in l + 1..k : Finished(levels[q])
        PROVE  h[l] = h[k]
    <3>1. CASE k < n
      BY <2>1, <2>3, <3>1
    <3>2. CASE k = n /\ l # k
      <4>1. k - 1 \in 0..m /\ k - 1 < n /\ l \in 0..k - 1 /\ k \in l + 1..k /\ k \in 1..m
        BY <1>1, <1>3, <2>3, <3>2
      <4>2. \A q \in l + 1..k - 1 : Finished(levels[q])
        <5>1. \A q \in l + 1..k - 1 : q \in l + 1..k
          BY <4>1
        <5> QED
          BY <2>3, <5>1
      <4> QED
        BY <2>1, <2>2, <2>3, <4>1, <4>2
    <3>3. CASE l = k
      BY <3>3
    <3> QED
      BY <1>1, <2>3, <3>1, <3>2, <3>3
  <2>4. CASE j <= n
    BY <2>3, <2>4
  <2>5. CASE j = n + 1 /\ i # j
    <3>1. j - 1 \in 0..m /\ j - 1 <= n /\ i \in 0..j - 1 /\ j \in i + 1..j /\ j \in 1..m
      BY <1>1, <2>5
    <3>2. \A q \in i + 1..j - 1 : Finished(levels[q])
      <4>1. \A q \in i + 1..j - 1 : q \in i + 1..j
        BY <3>1
      <4> QED
        BY <4>1
    <3> QED
      BY <2>2, <2>3, <3>1, <3>2
  <2> QED
    BY <1>1, <2>4, <2>5
<1>8. h[m] = g[n] - 1 + (IF tag.type \in Containers THEN tag.size ELSE 0)
  BY <1>1, <1>2
<1> HIDE DEF h
<1>9. Balance(levels, h)
  BY <1>5, <1>6, <1>7 DEF Balance, m
<1> QED
  BY <1>8, <1>9 DEF levels, m

\* What is waited for when the finished levels have been closed: the same.
LEMMA BalancePopped ==
  ASSUME NEW levels \in Seq(Element), NEW g, Balance(levels, g),
         NEW low \in Seq(Element), Len(low) = Remaining(levels),
         \A i \in 1..Len(low) : low[i] = levels[i]
  PROVE  \E h : Balance(low, h) /\ h[Len(low)] = g[Len(levels)]
<1> DEFINE m == Len(levels)
           r == Len(low)
           h == [i \in 0..r |-> g[i]]
<1>1. m \in Nat /\ r \in 0..m /\ \A i \in r + 1..m : Finished(levels[i])
  BY RemainingProperties
<1>2. /\ g \in [0..m -> Nat] /\ g[0] = 0
      /\ \A i \in 1..m : g[i] = g[i - 1] + (levels[i].size - levels[i].counter)
      /\ \A i, j \in 0..m : i <= j /\ (\A k \in i + 1..j : Finished(levels[k])) => g[i] = g[j]
  BY DEF Balance
<1>3. \A i \in 1..r : low[i] = levels[i]
  OBVIOUS
<1> HIDE DEF m, r
<1>4. h \in [0..r -> Nat] /\ h[0] = 0
  BY <1>1, <1>2
<1>5. \A i \in 1..r : h[i] = h[i - 1] + (low[i].size - low[i].counter)
  <2>1. \A i \in 1..r : i \in 1..m /\ i \in 0..r /\ i - 1 \in 0..r
    BY <1>1
  <2> QED
    BY <1>2, <1>3, <2>1
<1>6. \A i, j \in 0..r : i <= j /\ (\A k \in i + 1..j : Finished(low[k])) => h[i] = h[j]
  <2> SUFFICES ASSUME NEW i \in 0..r, NEW j \in 0..r, i <= j,
                      \A k \in i + 1..j : Finished(low[k])
               PROVE  h[i] = h[j]
    OBVIOUS
  <2>1. \A k \in i + 1..j : k \in 1..r
    BY <1>1
  <2>2. \A k \in i + 1..j : Finished(levels[k])
    BY <1>3, <2>1
  <2>3. i \in 0..m /\ j \in 0..m
    BY <1>1
  <2> QED
    BY <1>2, <2>2, <2>3
<1>7. h[r] = g[m]
  <2>1. r \in 0..m /\ m \in 0..m /\ r \in 0..r /\ r <= m
    BY <1>1
  <2>2. g[r] = g[m]
    BY <1>1, <1>2, <2>1
  <2> QED
    BY <2>1, <2>2
<1> HIDE DEF h
<1>8. Balance(low, h)
  BY <1>4, <1>5, <1>6 DEF Balance, r
<1> QED
  BY <1>7, <1>8 DEF m, r

\* The first tag finds no level, and leaves its own or none.
LEMMA BalanceFirst ==
  ASSUME PrinterTypeOK, NEW tag \in TagType, mLevels = <<>>
  PROVE  \E h : /\ Balance(Grown(tag), h)
               /\ h[Len(Grown(tag))] = IF tag.type \in Containers THEN tag.size ELSE 0
<1> DEFINE levels == Grown(tag)
           m == Len(levels)
           h == [i \in 0..m |-> IF i = 0 THEN 0 ELSE tag.size]
<1>1. Len(mLevels) = 0 /\ tag.size \in Nat
  BY DEF TagType
<1>2. /\ levels \in Seq(Element) /\ m = IF tag.type \in Containers THEN 1 ELSE 0
      /\ tag.type \in Containers =>
           levels[1] = [counter |-> 0, size |-> tag.size, type |-> tag.type]
  <2>1. 0 + 1 = 1
    OBVIOUS
  <2> QED
    BY <1>1, <2>1, LevelsProperties
<1> HIDE DEF levels, m
<1>3. m = 1 => levels[1].size = tag.size /\ levels[1].counter = 0
  BY <1>2
<1>4. h \in [0..m -> Nat] /\ h[0] = 0 /\ m \in {0, 1}
  BY <1>1, <1>2
<1>5. \A i \in 1..m : h[i] = h[i - 1] + (levels[i].size - levels[i].counter)
  <2>1. \A i \in 1..m : i = 1 /\ m = 1
    BY <1>4
  <2> QED
    BY <1>1, <1>3, <2>1
<1>6. \A i, j \in 0..m : i <= j /\ (\A k \in i + 1..j : Finished(levels[k])) => h[i] = h[j]
  <2> SUFFICES ASSUME NEW i \in 0..m, NEW j \in 0..m, i <= j, i # j,
                      \A k \in i + 1..j : Finished(levels[k])
               PROVE  h[i] = h[j]
    OBVIOUS
  <2>1. i = 0 /\ j = 1 /\ m = 1 /\ 1 \in i + 1..j
    BY <1>4
  <2>2. Finished(levels[1])
    BY <2>1
  <2>3. tag.size = 0
    BY <1>1, <1>3, <2>1, <2>2 DEF Finished
  <2> QED
    BY <2>1, <2>3
<1>7. h[m] = IF tag.type \in Containers THEN tag.size ELSE 0
  BY <1>2
<1> HIDE DEF h
<1>8. Balance(levels, h)
  BY <1>4, <1>5, <1>6 DEF Balance, m
<1> QED
  BY <1>7, <1>8 DEF levels, m

\* Append keeps the balance.
LEMMA CountsTag ==
  ASSUME PrinterTypeOK, Counts, NEW tag \in TagType, AxdrData(tag)
  PROVE  Counts'
<1> DEFINE more == IF tag.type \in Containers THEN tag.size ELSE 0
<1> SUFFICES ASSUME ~cut'
             PROVE  IF tags' = <<>> THEN mLevels' = <<>> /\ left' \in {0, 1}
                    ELSE \E g : Balance(mLevels', g) /\ g[Len(mLevels')] = left'
  BY Zenon DEF Counts, Balance, Finished
<1>1. ~cut /\ left > 0 /\ left' = left - 1 + more /\ tags' = Append(tags, tag)
  BY DEF AxdrData
<1>2. tags' # <<>>
  <2>1. tags \in Seq(TagType) /\ Len(tags) \in Nat
    BY DEF PrinterTypeOK, TagType
  <2>2. Len(Append(tags, tag)) = Len(tags) + 1
    BY <2>1, AppendProperties
  <2> QED
    BY <1>1, <2>1, <2>2
<1>3. \E g : Balance(Grown(tag), g) /\ g[Len(Grown(tag))] = left'
  <2>1. CASE tags = <<>>
    <3>1. mLevels = <<>> /\ left \in {0, 1}
      BY <1>1, <2>1 DEF Counts
    <3>2. left' = more
      BY <1>1, <3>1 DEF TagType
    <3> QED
      BY <3>1, <3>2, BalanceFirst
  <2>2. CASE tags # <<>>
    <3>1. PICK g : Balance(mLevels, g) /\ g[Len(mLevels)] = left
      BY <1>1, <2>2 DEF Counts
    <3> QED
      BY <1>1, <3>1, BalanceTagged
  <2> QED
    BY <2>1, <2>2
<1>4. /\ Grown(tag) \in Seq(Element)
      /\ mLevels' \in Seq(Element) /\ Len(mLevels') = Remaining(Grown(tag))
      /\ \A i \in 1..Len(mLevels') : mLevels'[i] = Grown(tag)[i]
  <2>1. Grown(tag) \in Seq(Element)
    BY LevelsProperties
  <2>2. /\ mLevels' \in Seq(Element) /\ Len(mLevels') = Remaining(Grown(tag))
        /\ \A i \in 1..Remaining(Grown(tag)) : mLevels'[i] = Grown(tag)[i]
    BY TagStep
  <2> QED
    BY <2>1, <2>2
<1>5. \E g : Balance(mLevels', g) /\ g[Len(mLevels')] = left'
  BY <1>3, <1>4, BalancePopped
<1> QED
  BY <1>2, <1>5

\* No level, nothing to come.
LEMMA CountsInit == PrinterInit => Counts
  BY DEF PrinterInit, Counts

\* A dump that begins after whole ones begins without levels.
LEMMA StartEmpty ==
  ASSUME PrinterTypeOK, Counts, Start, ~cut'
  PROVE  ~cut /\ mLevels = <<>>
<1>1. ~cut /\ ~ (left > 0)
  BY DEF Start
<1>2. left = 0
  BY <1>1 DEF PrinterTypeOK
<1>3. tags # <<>> => mLevels = <<>>
  BY <1>1, <1>2, CountsComplete DEF CompleteMeansClosed
<1>4. tags = <<>> => mLevels = <<>>
  BY <1>1 DEF Counts
<1> QED
  BY <1>1, <1>3, <1>4

\* Every step of the printer keeps the balance.
LEMMA CountsNext == PrinterTypeOK /\ Counts /\ [PrinterNext]_printerVars => Counts'
<1> SUFFICES ASSUME PrinterTypeOK, Counts, [PrinterNext]_printerVars PROVE Counts'
  OBVIOUS
<1>1. CASE Start
  <2> SUFFICES ASSUME ~cut' PROVE mLevels' = <<>> /\ left' \in {0, 1} /\ tags' = <<>>
    BY DEF Counts
  <2> QED
    BY <1>1, StartEmpty DEF Start
<1>2. CASE \E tag \in Tag : Len(tags) < MaxTags /\ AxdrData(tag)
  BY <1>2, CountsTag, TagsTyped
<1>3. CASE UNCHANGED <<mLevels, left, tags, cut>>
  BY <1>3 DEF Counts, Balance, Finished
<1> QED
  BY <1>1, <1>2, <1>3 DEF PrinterNext, End, printerVars

\* Values of every depth and size: the whole value has been printed exactly when
\* every element is closed, so that nothing of it remains for the next dump.
THEOREM PrinterComplete == PrinterSpec => []CompleteMeansClosed
<1>1. PrinterInit => PrinterTypeOK /\ Counts
  BY TypeInit, CountsInit
<1>2. PrinterTypeOK /\ Counts /\ [PrinterNext]_printerVars => PrinterTypeOK' /\ Counts'
  BY TypeNext, CountsNext
<1>3. PrinterTypeOK /\ Counts => CompleteMeansClosed
  BY CountsComplete
<1> QED
  BY <1>1, <1>2, <1>3, PTL DEF PrinterSpec

-----------------------------------------------------------------------------
(* The elements of the text                                                *)

\* pos[k]: the line that opened the level k.  What follows is inside of it.
Placed(pos) ==
  /\ pos \in [1..Len(mLevels) -> Nat]
  /\ \A k \in 1..Len(mLevels) :
       /\ pos[k] \in 1..Len(mStream)
       /\ mStream[pos[k]].kind = "open" /\ mStream[pos[k]].indent = k - 1
       /\ mStream[pos[k]].type = mLevels[k].type /\ mStream[pos[k]].text = mLevels[k].size
  /\ printing => \A k \in 1..Len(mLevels) : \A j \in 1..Len(mStream) :
       j > pos[k] => mStream[j].indent >= k
  /\ \A i \in 1..Len(mStream) : mStream[i].kind = "open" =>
       \/ \E j \in 1..Len(mStream) : Closes(j, i)
       \/ \E k \in 1..Len(mLevels) : pos[k] = i

Nested == ~cut => \E pos : Placed(pos)

\* What is open and not closed is one of mLevels.
LEMMA NestedOpens == PrinterTypeOK /\ Nested => OpensMatch
<1> SUFFICES ASSUME PrinterTypeOK, Nested, ~cut,
                    NEW i \in DOMAIN mStream, mStream[i].kind = "open",
                    ~ (\E j \in DOMAIN mStream : Closes(j, i))
             PROVE  LET n == mStream[i].indent + 1
                    IN  n \in DOMAIN mLevels /\ mLevels[n].type = mStream[i].type
                                             /\ mLevels[n].size = mStream[i].text
  BY DEF OpensMatch
<1>1. PICK pos : Placed(pos)
  BY DEF Nested
<1>2. DOMAIN mStream = 1..Len(mStream) /\ DOMAIN mLevels = 1..Len(mLevels)
  BY DEF PrinterTypeOK
<1>3. PICK k \in 1..Len(mLevels) : pos[k] = i
  BY <1>1, <1>2 DEF Placed
<1>4. /\ mStream[i].indent = k - 1
      /\ mStream[i].type = mLevels[k].type /\ mStream[i].text = mLevels[k].size
  BY <1>1, <1>3 DEF Placed
<1>5. mStream[i].indent + 1 = k
  BY <1>4
<1> QED
  BY <1>2, <1>4, <1>5

\* A line that is closed stays closed when the text grows.
LEMMA ClosesKept ==
  ASSUME NEW n \in Nat, \A k \in 1..n : mStream'[k] = mStream[k],
         NEW i \in 1..n, NEW j \in 1..n, Closes(j, i)
  PROVE  Closes(j, i)'
<1>1. \A k \in i + 1..j - 1 : k \in 1..n
  OBVIOUS
<1> QED
  BY <1>1 DEF Closes

\* There is no line yet.
LEMMA NestedInit == PrinterInit => Nested /\ ClosesMatch
<1> SUFFICES ASSUME PrinterInit PROVE Nested /\ ClosesMatch
  OBVIOUS
<1>1. Len(mLevels) = 0 /\ Len(mStream) = 0 /\ DOMAIN mStream = {}
  BY DEF PrinterInit
<1>2. Placed([k \in 1..0 |-> 0])
  BY <1>1 DEF Placed
<1> QED
  BY <1>1, <1>2 DEF Nested, ClosesMatch

\* A new text has no element, and there is no level.
LEMMA NestedStart ==
  ASSUME PrinterTypeOK, Counts, Start
  PROVE  Nested' /\ ClosesMatch'
<1> SUFFICES ASSUME ~cut'
             PROVE  /\ \E pos : Placed(pos)'
                    /\ \A j \in DOMAIN mStream' : mStream'[j].kind # "close"
  BY DEF Nested, ClosesMatch
<1>1. mLevels' = <<>> /\ mStream' = <<Root>>
  BY StartEmpty DEF Start
<1>2. /\ Len(mLevels') = 0 /\ Len(mStream') = 1 /\ DOMAIN mStream' = {1}
      /\ mStream'[1].kind = "root"
  BY <1>1 DEF Root
<1>3. Placed([k \in 1..0 |-> 0])'
  BY <1>2 DEF Placed
<1> QED
  BY <1>2, <1>3

\* The last line is not inside of an element.
LEMMA NestedEnd ==
  ASSUME PrinterTypeOK, Nested, ClosesMatch, End
  PROVE  Nested' /\ ClosesMatch'
<1> DEFINE n == Len(mStream)
<1> SUFFICES ASSUME ~cut'
             PROVE  /\ \E pos : Placed(pos)'
                    /\ \A j \in DOMAIN mStream' : mStream'[j].kind = "close" =>
                         \E i \in DOMAIN mStream' : Closes(j, i)'
  BY DEF Nested, ClosesMatch
<1>1. ~cut /\ mLevels' = mLevels /\ printing' = FALSE /\ mStream' = Append(mStream, EndRoot)
  BY DEF End
<1>2. PICK pos : Placed(pos)
  BY <1>1 DEF Nested
<1>3. mStream \in Seq(Line) /\ n \in Nat /\ DOMAIN mStream = 1..n
  BY DEF PrinterTypeOK
<1>4. /\ Len(mStream') = n + 1 /\ DOMAIN mStream' = 1..n + 1
      /\ \A i \in 1..n : mStream'[i] = mStream[i]
      /\ mStream'[n + 1] = EndRoot
  BY <1>1, <1>3, RootLines, AppendProperties
<1>5. mStream'[n + 1].kind = "end"
  BY <1>4 DEF EndRoot
<1>6. \A i \in 1..n + 1 : i \in 1..n \/ i = n + 1
  BY <1>3
<1>7. \A i \in 1..n : i \in 1..n + 1
  BY <1>3
<1> HIDE DEF n
<1>8. Placed(pos)'
  <2>1. \A k \in 1..Len(mLevels) : pos[k] \in 1..n /\ mStream'[pos[k]] = mStream[pos[k]]
    BY <1>2, <1>4 DEF Placed, n
  <2>2. \A i \in 1..n + 1 : mStream'[i].kind = "open" =>
          \/ \E j \in 1..n + 1 : Closes(j, i)'
          \/ \E k \in 1..Len(mLevels) : pos[k] = i
    <3> SUFFICES ASSUME NEW i \in 1..n + 1, mStream'[i].kind = "open",
                        ~ (\E k \in 1..Len(mLevels) : pos[k] = i)
                 PROVE  \E j \in 1..n + 1 : Closes(j, i)'
      OBVIOUS
    <3>1. i \in 1..n /\ mStream[i].kind = "open"
      BY <1>4, <1>5, <1>6
    <3>2. PICK j \in 1..n : Closes(j, i)
      BY <1>2, <3>1 DEF Placed, n
    <3> QED
      BY <1>3, <1>4, <1>7, <3>1, <3>2, ClosesKept
  <2> QED
    BY <1>1, <1>2, <1>4, <1>7, <2>1, <2>2 DEF Placed
<1>9. ASSUME NEW j \in DOMAIN mStream', mStream'[j].kind = "close"
      PROVE  \E i \in DOMAIN mStream' : Closes(j, i)'
  <2>1. j \in 1..n /\ mStream[j].kind = "close"
    BY <1>4, <1>5, <1>6, <1>9
  <2>2. PICK i \in 1..n : Closes(j, i)
    BY <1>1, <1>3, <2>1 DEF ClosesMatch
  <2> QED
    BY <1>3, <1>4, <1>7, <2>1, <2>2, ClosesKept
<1> QED
  BY <1>8, <1>9

\* The lines that Append adds close exactly the levels it removes.
LEMMA NestedTag ==
  ASSUME PrinterTypeOK, Nested, ClosesMatch, NEW tag \in TagType, AxdrData(tag)
  PROVE  Nested' /\ ClosesMatch'
<1> SUFFICES ASSUME ~cut'
             PROVE  /\ \E pos : Placed(pos)'
                    /\ \A j \in DOMAIN mStream' : mStream'[j].kind = "close" =>
                         \E i \in DOMAIN mStream' : Closes(j, i)'
  BY DEF Nested, ClosesMatch
<1>0. PICK levels, m, r, l, n :
        /\ levels = Grown(tag) /\ m = Len(levels) /\ r = Remaining(levels)
        /\ l = Len(mLevels) /\ n = Len(mStream)
  OBVIOUS
<1> DEFINE end == n + 1 + (m - r)
<1>1. ~cut /\ printing
  BY DEF AxdrData
<1>2. PICK pos : Placed(pos)
  BY <1>1 DEF Nested
<1>3. /\ mStream \in Seq(Line) /\ n \in Nat /\ DOMAIN mStream = 1..n
      /\ mLevels \in Seq(Element) /\ l \in Nat
  BY <1>0 DEF PrinterTypeOK
<1>4. /\ levels \in Seq(Element) /\ m \in Nat
      /\ m = IF tag.type \in Containers THEN l + 1 ELSE l
      /\ \A i \in 1..l : levels[i].type = mLevels[i].type /\ levels[i].size = mLevels[i].size
      /\ tag.type \in Containers => levels[l + 1].type = tag.type /\ levels[l + 1].size = tag.size
  <2>1. /\ levels \in Seq(Element) /\ m = IF tag.type \in Containers THEN l + 1 ELSE l
        /\ \A i \in 1..l : levels[i].type = mLevels[i].type /\ levels[i].size = mLevels[i].size
    BY <1>0, LevelsProperties, ZenonT(60)
  <2>2. tag.type \in Containers =>
          levels[l + 1] = [counter |-> 0, size |-> tag.size, type |-> tag.type]
    BY <1>0, LevelsProperties
  <2>3. m \in Nat
    BY <1>0, <2>1, LenProperties
  <2> QED
    BY <2>1, <2>2, <2>3
<1>5. r \in 0..m
  BY <1>0, <1>4, RemainingProperties
<1>6. /\ mLevels' \in Seq(Element) /\ Len(mLevels') = r
      /\ \A i \in 1..r : mLevels'[i] = levels[i]
      /\ mStream' \in Seq(Line) /\ Len(mStream') = end
      /\ \A i \in 1..n : mStream'[i] = mStream[i]
      /\ mStream'[n + 1] = LineOf(tag)
      /\ \A i \in 1..m - r :
           mStream'[n + 1 + i] = [kind |-> "close", indent |-> m - i,
                                  type |-> levels[m + 1 - i].type, text |-> 0]
  BY <1>0, TagStep
<1>7. /\ mStream'[n + 1].indent = l
      /\ mStream'[n + 1].kind = IF tag.type \in Containers THEN "open" ELSE "value"
      /\ tag.type \in Containers =>
           mStream'[n + 1].type = tag.type /\ mStream'[n + 1].text = tag.size
  BY <1>0, <1>6, ShownProperties
<1>8. \A i \in 1..m - r :
        /\ mStream'[n + 1 + i].kind = "close" /\ mStream'[n + 1 + i].indent = m - i
        /\ mStream'[n + 1 + i].type = levels[m + 1 - i].type
  <2> SUFFICES ASSUME NEW i \in 1..m - r
               PROVE  /\ mStream'[n + 1 + i].kind = "close" /\ mStream'[n + 1 + i].indent = m - i
                      /\ mStream'[n + 1 + i].type = levels[m + 1 - i].type
    OBVIOUS
  <2>1. mStream'[n + 1 + i] = [kind |-> "close", indent |-> m - i,
                               type |-> levels[m + 1 - i].type, text |-> 0]
    BY <1>6
  <2> QED
    BY <2>1
<1>9. /\ pos \in [1..l -> Nat]
      /\ \A k \in 1..l :
           /\ pos[k] \in 1..n
           /\ mStream[pos[k]].kind = "open" /\ mStream[pos[k]].indent = k - 1
           /\ mStream[pos[k]].type = mLevels[k].type
           /\ mStream[pos[k]].text = mLevels[k].size
      /\ \A k \in 1..l : \A j \in 1..n : j > pos[k] => mStream[j].indent >= k
      /\ \A i \in 1..n : mStream[i].kind = "open" =>
           (\E j \in 1..n : Closes(j, i)) \/ (\E k \in 1..l : pos[k] = i)
  BY <1>0, <1>1, <1>2 DEF Placed
<1> DEFINE p == [k \in 1..m |-> IF k <= l THEN pos[k] ELSE n + 1]
           q == [k \in 1..r |-> p[k]]
<1>10. \A k \in 1..m : k \in 1..l \/ (k = l + 1 /\ m = l + 1 /\ tag.type \in Containers)
  BY <1>3, <1>4
<1>11. \A j \in 1..end : j \in 1..n \/ j = n + 1 \/ \E i \in 1..m - r : j = n + 1 + i
  <2> SUFFICES ASSUME NEW j \in 1..end, j > n + 1
               PROVE  \E i \in 1..m - r : j = n + 1 + i
    BY <1>3
  <2>1. j - (n + 1) \in 1..m - r /\ j = n + 1 + (j - (n + 1))
    BY <1>3, <1>4, <1>5
  <2> QED
    BY <2>1
<1>12. ASSUME NEW k \in 1..m
       PROVE  /\ p[k] \in 1..n + 1
              /\ mStream'[p[k]].kind = "open" /\ mStream'[p[k]].indent = k - 1
              /\ mStream'[p[k]].type = levels[k].type
              /\ mStream'[p[k]].text = levels[k].size
  <2>1. CASE k \in 1..l
    <3>1. p[k] = pos[k] /\ pos[k] \in 1..n
      BY <1>3, <1>9, <2>1
    <3>2. mStream'[pos[k]] = mStream[pos[k]]
      BY <1>6, <3>1
    <3>3. pos[k] \in 1..n + 1
      BY <1>3, <3>1
    <3>4. levels[k].type = mLevels[k].type /\ levels[k].size = mLevels[k].size
      BY <1>4, <2>1
    <3>5. /\ mStream[pos[k]].kind = "open" /\ mStream[pos[k]].indent = k - 1
          /\ mStream[pos[k]].type = mLevels[k].type /\ mStream[pos[k]].text = mLevels[k].size
      BY <1>9, <2>1
    <3> HIDE DEF p
    <3> QED
      BY <3>1, <3>2, <3>3, <3>4, <3>5
  <2>2. CASE k = l + 1 /\ m = l + 1 /\ tag.type \in Containers
    <3>1. p[k] = n + 1
      BY <1>3, <2>2
    <3>2. l = k - 1 /\ n + 1 \in 1..n + 1
      BY <1>3, <2>2
    <3> QED
      BY <1>4, <1>7, <2>2, <3>1, <3>2
  <2> QED
    BY <1>10, <2>1, <2>2
<1>13. ASSUME NEW k \in 1..m, NEW j \in 1..n + 1, j > p[k]
       PROVE  mStream'[j].indent >= k
  <2>1. k \in 1..l /\ p[k] = pos[k]
    BY <1>3, <1>10, <1>13
  <2>2. CASE j \in 1..n
    BY <1>6, <1>9, <1>13, <2>1, <2>2
  <2>3. CASE j = n + 1
    BY <1>3, <1>7, <2>1, <2>3
  <2> QED
    BY <1>3, <2>2, <2>3
<1>14. ASSUME NEW k \in r + 1..m
       PROVE  Closes(n + 1 + (m + 1 - k), p[k])'
  <2>1. k \in 1..m /\ m + 1 - k \in 1..m - r /\ m - (m + 1 - k) = k - 1
        /\ m + 1 - (m + 1 - k) = k
    BY <1>4, <1>5
  <2>2. /\ mStream'[n + 1 + (m + 1 - k)].kind = "close"
        /\ mStream'[n + 1 + (m + 1 - k)].indent = k - 1
        /\ mStream'[n + 1 + (m + 1 - k)].type = levels[k].type
    BY <1>8, <2>1
  <2>3. p[k] < n + 1 + (m + 1 - k)
    <3>1. p[k] \in 1..n + 1
      BY <1>12, <2>1
    <3> QED
      BY <1>3, <1>4, <2>1, <3>1
  <2>4. ASSUME NEW j \in p[k] + 1..(n + 1 + (m + 1 - k)) - 1
        PROVE  mStream'[j].indent > mStream'[p[k]].indent
    <3>1. mStream'[p[k]].indent = k - 1 /\ p[k] \in 1..n + 1
      BY <1>12, <2>1
    <3>2. CASE j <= n + 1
      <4>1. j \in 1..n + 1 /\ j > p[k]
        BY <1>3, <3>1, <3>2
      <4>2. mStream'[j].indent >= k /\ mStream'[j].indent \in Nat
        <5>1. j \in 1..end
          BY <1>3, <1>4, <1>5, <4>1
        <5>2. mStream'[j] \in Line
          BY <1>6, <5>1
        <5> QED
          BY <1>13, <2>1, <4>1, <5>2 DEF Line
      <4> QED
        BY <2>1, <3>1, <4>2
    <3>3. CASE j > n + 1
      <4> DEFINE i == j - (n + 1)
      <4>1. i \in 1..m - r /\ i < m + 1 - k /\ j = n + 1 + i
        <5>1. j \in Int /\ j <= n + (m + 1 - k)
          BY <1>3, <1>4, <2>1, <3>1
        <5> QED
          BY <1>3, <1>4, <1>5, <2>1, <3>3, <5>1
      <4>2. mStream'[j].indent = m - i
        BY <1>8, <4>1
      <4>3. m - i > k - 1
        BY <1>4, <2>1, <4>1
      <4> QED
        BY <3>1, <4>2, <4>3
    <3> QED
      BY <1>3, <3>1, <3>2, <3>3
  <2>5. /\ mStream'[p[k]].kind = "open" /\ mStream'[p[k]].indent = k - 1
        /\ mStream'[p[k]].type = levels[k].type
    BY <1>12, <2>1
  <2> HIDE DEF p
  <2> QED
    BY <2>2, <2>3, <2>4, <2>5 DEF Closes
<1>15. \A i \in 1..n + 1 : i \in 1..end
  BY <1>3, <1>4, <1>5
<1>16. \A k \in r + 1..m : n + 1 + (m + 1 - k) \in 1..end /\ k \in 1..m
  BY <1>3, <1>4, <1>5
<1>17. \A k \in 1..r : k \in 1..m
  BY <1>4, <1>5
<1> HIDE DEF p
<1>18. Placed(q)'
  <2>1. q \in [1..r -> Nat]
    BY <1>3, <1>12, <1>17
  <2>2. ASSUME NEW k \in 1..r
        PROVE  /\ q[k] \in 1..end
               /\ mStream'[q[k]].kind = "open" /\ mStream'[q[k]].indent = k - 1
               /\ mStream'[q[k]].type = mLevels'[k].type
               /\ mStream'[q[k]].text = mLevels'[k].size
    BY <1>6, <1>12, <1>15, <1>17
  <2>3. ASSUME NEW k \in 1..r, NEW j \in 1..end, j > q[k]
        PROVE  mStream'[j].indent >= k
    <3>1. CASE j \in 1..n + 1
      BY <1>13, <1>17, <2>3, <3>1
    <3>2. CASE \E i \in 1..m - r : j = n + 1 + i
      <4>1. PICK i \in 1..m - r : j = n + 1 + i
        BY <3>2
      <4>2. mStream'[j].indent = m - i
        BY <1>8, <4>1
      <4>3. m - i >= k
        BY <1>4, <1>5
      <4> QED
        BY <4>2, <4>3
    <3>3. \A i \in 1..n : i \in 1..n + 1
      BY <1>3
    <3>4. n + 1 \in 1..n + 1
      BY <1>3
    <3> QED
      BY <1>11, <3>1, <3>2, <3>3, <3>4
  <2>4. ASSUME NEW i \in 1..end, mStream'[i].kind = "open"
        PROVE  (\E j \in 1..end : Closes(j, i)') \/ (\E k \in 1..r : q[k] = i)
    <3>1. \A k \in 1..m : p[k] = i =>
            (\E j \in 1..end : Closes(j, i)') \/ (\E h \in 1..r : q[h] = i)
      <4> SUFFICES ASSUME NEW k \in 1..m, p[k] = i
                   PROVE  (\E j \in 1..end : Closes(j, i)') \/ (\E h \in 1..r : q[h] = i)
        OBVIOUS
      <4>1. CASE k \in 1..r
        BY <4>1
      <4>2. CASE k \in r + 1..m
        BY <1>14, <1>16, <4>2
      <4> QED
        BY <1>4, <1>5, <4>1, <4>2
    <3>2. CASE i \in 1..n
      <4>1. mStream[i].kind = "open"
        BY <1>6, <2>4, <3>2
      <4>2. CASE \E j \in 1..n : Closes(j, i)
        <5>1. PICK j \in 1..n : Closes(j, i)
          BY <4>2
        <5>2. Closes(j, i)'
          BY <1>3, <1>6, <3>2, <5>1, ClosesKept
        <5>3. j \in 1..end
          BY <1>3, <1>4, <1>5
        <5> QED
          BY <5>2, <5>3
      <4>3. CASE \E k \in 1..l : pos[k] = i
        <5>1. PICK k \in 1..l : pos[k] = i
          BY <4>3
        <5>2. k \in 1..m /\ p[k] = i
          BY <1>3, <1>4, <5>1 DEF p
        <5> QED
          BY <3>1, <5>2
      <4> QED
        BY <1>9, <3>2, <4>1, <4>2, <4>3
    <3>3. CASE i = n + 1
      <4>1. tag.type \in Containers
        BY <1>7, <2>4, <3>3
      <4>2. m \in 1..m /\ p[m] = i
        BY <1>3, <1>4, <3>3, <4>1 DEF p
      <4> QED
        BY <3>1, <4>2
    <3>4. CASE \E j \in 1..m - r : i = n + 1 + j
      BY <1>8, <2>4, <3>4
    <3> QED
      BY <1>11, <3>2, <3>3, <3>4
  <2> HIDE DEF q, end
  <2> QED
    BY <1>6, <2>1, <2>2, <2>3, <2>4 DEF Placed
<1>19. ASSUME NEW j \in 1..end, mStream'[j].kind = "close"
       PROVE  \E i \in 1..end : Closes(j, i)'
  <2>1. CASE j \in 1..n
    <3>1. PICK i \in 1..n : Closes(j, i)
      BY <1>1, <1>3, <1>6, <1>19, <2>1 DEF ClosesMatch
    <3>2. Closes(j, i)'
      BY <1>3, <1>6, <2>1, <3>1, ClosesKept
    <3>3. i \in 1..end
      BY <1>3, <1>4, <1>5
    <3> QED
      BY <3>2, <3>3
  <2>2. CASE j = n + 1
    BY <1>7, <1>19, <2>2
  <2>3. CASE \E i \in 1..m - r : j = n + 1 + i
    <3>1. PICK i \in 1..m - r : j = n + 1 + i
      BY <2>3
    <3>2. m + 1 - i \in r + 1..m /\ m + 1 - (m + 1 - i) = i
      BY <1>4, <1>5
    <3>3. Closes(j, p[m + 1 - i])'
      BY <1>14, <3>1, <3>2
    <3>4. p[m + 1 - i] \in 1..end
      BY <1>12, <1>15, <1>16, <3>2
    <3> QED
      BY <3>3, <3>4
  <2> QED
    BY <1>11, <2>1, <2>2, <2>3
<1>20. DOMAIN mStream' = 1..end
  BY <1>6
<1> HIDE DEF q
<1> QED
  BY <1>18, <1>19, <1>20

\* Values of every depth, any number of dumps that were not cut short: a closing
\* tag closes the innermost open element, and what is open is one of mLevels.
THEOREM PrinterNesting == PrinterSpec => [](ClosesMatch /\ OpensMatch)
<1> DEFINE IInv == PrinterTypeOK /\ Counts /\ Nested /\ ClosesMatch
<1>1. PrinterInit => IInv
  BY TypeInit, CountsInit, NestedInit
<1>2. IInv /\ [PrinterNext]_printerVars => IInv'
  <2> SUFFICES ASSUME IInv, [PrinterNext]_printerVars PROVE Nested' /\ ClosesMatch'
    BY TypeNext, CountsNext
  <2>1. CASE Start
    BY <2>1, NestedStart
  <2>2. CASE \E tag \in Tag : Len(tags) < MaxTags /\ AxdrData(tag)
    BY <2>2, NestedTag, TagsTyped
  <2>3. CASE End
    BY <2>3, NestedEnd
  <2>4. CASE UNCHANGED printerVars
    BY <2>4 DEF printerVars, Nested, Placed, ClosesMatch, Closes
  <2> QED
    BY <2>1, <2>2, <2>3, <2>4 DEF PrinterNext
<1>3. IInv => ClosesMatch /\ OpensMatch
  BY NestedOpens
<1> QED
  BY <1>1, <1>2, <1>3, PTL DEF PrinterSpec
-----------------------------------------------------------------------------
(* The tags in the text                                                    *)

\* Division with remainder.
LEMMA DivMod ==
  ASSUME NEW x \in Int, NEW n \in Nat \ {0}
  PROVE  /\ x \div n \in Int /\ x % n \in 0..n - 1
         /\ x = n * (x \div n) + (x % n)
<1>1. x = n * (x \div n) + (x % n)
  BY Z3
<1>2. x \div n \in Int
  BY Z3
<1>3. x % n \in Int /\ 0 <= x % n /\ x % n < n
  BY SMT
<1> QED
  BY <1>1, <1>2, <1>3, SMT

\* The bytes of a number can be told from it, also when it was taken for
\* a negative one.
LEMMA BytesTold ==
  ASSUME NEW v \in Nat \ {0}, NEW d \in 0..v - 1
  PROVE  d % v = d /\ (d - v) % v = d
<1>1. d % v = d
  BY SMT
<1>2. (d - v) % v = d
  <2>1. PICK x \in Int : x = d - v
    BY SMT
  <2>2. PICK q \in Int, r \in 0..v - 1 : q = x \div v /\ r = x % v
    BY <2>1, DivMod
  <2>3. x = v * q + r
    BY <2>2, DivMod, Zenon
  <2>4. v * (q + 1) = v * q + v
    BY Z3
  <2>5. PICK w \in Int : w = v * (q + 1)
    BY SMT
  <2>6. w = d - r
    BY <2>1, <2>3, <2>4, <2>5, SMT
  <2>7. q + 1 >= 1 => w >= v
    <3> SUFFICES ASSUME q + 1 >= 1 PROVE w >= v
      OBVIOUS
    <3>1. v * (q + 1) >= v
      BY Z3
    <3> QED
      BY <2>5, <3>1
  <2>8. q + 1 <= -1 => w <= -v
    <3> SUFFICES ASSUME q + 1 <= -1 PROVE w <= -v
      OBVIOUS
    <3>1. v * (q + 1) <= -v
      BY Z3
    <3> QED
      BY <2>5, <3>1
  <2>9. q + 1 = 0
    BY <2>6, <2>7, <2>8, SMT
  <2>10. w = 0
    BY <2>5, <2>9, SMT
  <2> QED
    BY <2>1, <2>2, <2>6, <2>10, SMT
<1> QED
  BY <1>1, <1>2

\* The line of a tag tells its type, and its size or the bytes of its number.
LEMMA LineTells ==
  ASSUME NEW tag \in Tag
  PROVE  /\ LineOf(tag).type = tag.type
         /\ IF tag.type \in Containers
              THEN LineOf(tag).text = tag.size
              ELSE LineOf(tag).text % Values(tag.type) = tag.data
<1>1. CASE tag.type \in Containers
  BY <1>1 DEF LineOf, Opening
<1>2. CASE tag.type \notin Containers
  <2>1. PICK t \in NumberTypes, n \in Numbers : tag = NumberTag(t, n)
    BY <1>2 DEF Tag
  <2>2. t \in Signed \cup Unsigned /\ n \in Int
    BY <2>1, TagAssumption
  <2>3. PICK v \in Nat \ {0} : v = Values(t)
    BY <2>2, ValuesProperties
  <2>4. PICK d \in 0..v - 1 : d = n % v
    BY <2>2, DivMod
  <2>5. tag.type = t /\ tag.data = d
    BY <2>1, <2>3, <2>4, Zenon DEF NumberTag, Encoded
  <2>6. LineOf(tag).type = t /\ LineOf(tag).text = DataToString(t, d)
    BY <1>2, <2>5, Zenon DEF LineOf, Leaf
  <2>7. DataToString(t, d) \in {d, d - v}
    BY <2>3, Zenon DEF DataToString, Decoded
  <2>8. DataToString(t, d) % v = d
    BY <2>7, BytesTold
  <2> QED
    BY <1>2, <2>3, <2>5, <2>6, <2>8, Zenon
<1> QED
  BY <1>1, <1>2

\* The elements are some of the lines.
LEMMA ElementsFinite ==
  ASSUME PrinterTypeOK
  PROVE  /\ Len(mStream) \in Nat /\ DOMAIN mStream = 1..Len(mStream)
         /\ Elements \subseteq 1..Len(mStream) /\ IsFiniteSet(Elements)
<1>1. Len(mStream) \in Nat /\ DOMAIN mStream = 1..Len(mStream)
  BY DEF PrinterTypeOK
<1>2. Elements \subseteq 1..Len(mStream)
  BY <1>1 DEF Elements
<1>3. IsFiniteSet(1..Len(mStream))
  BY <1>1, FS_Interval
<1> QED
  BY <1>1, <1>2, <1>3, FS_Subset

\* A tag adds one element, behind the others.
LEMMA ElementsTag ==
  ASSUME PrinterTypeOK, NEW tag \in TagType, AxdrData(tag)
  PROVE  Elements' = Elements \cup {Len(mStream) + 1}
<1>0. PICK levels, m, r, n :
        /\ levels = Grown(tag) /\ m = Len(levels) /\ r = Remaining(levels)
        /\ n = Len(mStream)
  OBVIOUS
<1>1. n \in Nat /\ DOMAIN mStream = 1..n
  BY <1>0, ElementsFinite
<1>2. levels \in Seq(Element) /\ m \in Nat
  <2>1. levels \in Seq(Element)
    BY <1>0, LevelsProperties, Zenon
  <2> QED
    BY <1>0, <2>1, LenProperties
<1>3. r \in 0..m
  BY <1>0, <1>2, RemainingProperties
<1>4. /\ mStream' \in Seq(Line) /\ Len(mStream') = n + 1 + (m - r)
      /\ \A i \in 1..n : mStream'[i] = mStream[i]
      /\ mStream'[n + 1] = LineOf(tag)
      /\ \A i \in 1..m - r :
           mStream'[n + 1 + i] = [kind |-> "close", indent |-> m - i,
                                  type |-> levels[m + 1 - i].type, text |-> 0]
  BY <1>0, TagStep
<1>5. LineOf(tag).kind \in {"open", "value"}
  BY ShownProperties
<1>6. DOMAIN mStream' = 1..n + 1 + (m - r)
  BY <1>4
<1>7. \A i \in 1..m - r : mStream'[n + 1 + i].kind = "close"
  <2> SUFFICES ASSUME NEW i \in 1..m - r PROVE mStream'[n + 1 + i].kind = "close"
    OBVIOUS
  <2>1. mStream'[n + 1 + i] = [kind |-> "close", indent |-> m - i,
                               type |-> levels[m + 1 - i].type, text |-> 0]
    BY <1>4
  <2> QED
    BY <2>1
<1>8. ASSUME NEW k \in 1..n + 1 + (m - r)
      PROVE  k \in Elements' <=> k \in Elements \/ k = n + 1
  <2>1. k \in Elements' <=> mStream'[k].kind \in {"open", "value"}
    BY <1>6 DEF Elements
  <2>2. CASE k \in 1..n
    <3>1. k # n + 1
      BY <1>1, <2>2
    <3>2. mStream'[k] = mStream[k]
      BY <1>4, <2>2
    <3>3. k \in Elements <=> mStream[k].kind \in {"open", "value"}
      BY <1>1, <2>2 DEF Elements
    <3> QED
      BY <2>1, <3>1, <3>2, <3>3
  <2>3. CASE k = n + 1
    BY <1>4, <1>5, <2>1, <2>3
  <2>4. CASE k \notin 1..n /\ k # n + 1
    <3>1. k - (n + 1) \in 1..m - r /\ k = n + 1 + (k - (n + 1))
      BY <1>1, <1>2, <1>3, <2>4
    <3>2. mStream'[k].kind = "close"
      BY <1>7, <3>1
    <3>3. k \notin Elements
      BY <1>1, <2>4 DEF Elements
    <3> QED
      BY <2>1, <2>4, <3>2, <3>3
  <2> QED
    BY <2>2, <2>3, <2>4
<1>9. Elements \subseteq 1..n + 1 + (m - r) /\ n + 1 \in 1..n + 1 + (m - r)
  <2>1. \A k \in 1..n : k \in 1..n + 1 + (m - r)
    BY <1>1, <1>2, <1>3
  <2>2. Elements \subseteq 1..n
    BY <1>1 DEF Elements
  <2>3. n + 1 \in 1..n + 1 + (m - r)
    BY <1>1, <1>2, <1>3
  <2> QED
    BY <2>1, <2>2, <2>3
<1>10. Elements' \subseteq 1..n + 1 + (m - r)
  BY <1>6 DEF Elements
<1> QED
  BY <1>0, <1>8, <1>9, <1>10

\* Append puts the tag behind the others, in the text as in the list.
LEMMA TellsTag ==
  ASSUME PrinterTypeOK, TextTellsTags, NEW tag \in Tag, AxdrData(tag)
  PROVE  TextTellsTags'
<1>0. PICK n : n = Len(mStream)
  OBVIOUS
<1>1. tag \in TagType
  BY TagsTyped
<1>2. /\ n \in Nat /\ Elements \subseteq 1..n /\ IsFiniteSet(Elements)
  BY <1>0, ElementsFinite
<1>3. Elements' = Elements \cup {n + 1} /\ n + 1 \notin Elements
  BY <1>0, <1>1, <1>2, ElementsTag
<1>4. PICK c \in Nat : c = Cardinality(Elements) /\ c = Len(tags)
  BY <1>2, FS_CardinalityType DEF TextTellsTags
<1>5. Cardinality(Elements') = c + 1
  BY <1>2, <1>3, <1>4, FS_AddElement
<1>6. tags \in Seq(TagType) /\ tags' = Append(tags, tag)
  BY DEF PrinterTypeOK, TagType, AxdrData
<1>7. /\ Len(tags') = c + 1 /\ tags'[c + 1] = tag
      /\ \A i \in 1..c : tags'[i] = tags[i]
  BY <1>1, <1>4, <1>6, AppendProperties
<1>8. /\ \A i \in 1..n : mStream'[i] = mStream[i]
      /\ mStream'[n + 1] = LineOf(tag)
  BY <1>0, <1>1, TagStep
<1>9. ASSUME NEW j \in Elements'
      PROVE  LET t == tags'[Cardinality({k \in Elements' : k <= j})]
             IN  /\ mStream'[j].type = t.type
                 /\ IF t.type \in Containers
                      THEN mStream'[j].text = t.size
                      ELSE mStream'[j].text % Values(t.type) = t.data
  <2>1. CASE j = n + 1
    <3>1. {k \in Elements' : k <= j} = Elements'
      <4>1. \A k \in Elements' : k <= j
        BY <1>2, <1>3, <2>1
      <4> QED
        BY <4>1, Zenon
    <3>2. tags'[Cardinality({k \in Elements' : k <= j})] = tag
      BY <1>5, <1>7, <3>1
    <3> QED
      BY <1>8, <2>1, <3>2, LineTells
  <2>2. CASE j \in Elements
    <3>1. {k \in Elements' : k <= j} = {k \in Elements : k <= j}
      BY <1>2, <1>3, <2>2
    <3>2. PICK i : i = Cardinality({k \in Elements : k <= j})
      OBVIOUS
    <3>3. i \in 1..c
      <4> DEFINE T == {k \in Elements : k <= j}
      <4>1. T \in SUBSET Elements /\ j \in T
        BY <1>2, <2>2
      <4> HIDE DEF T
      <4>2. IsFiniteSet(T) /\ Cardinality(T) <= c
        BY <1>2, <1>4, <4>1, FS_Subset
      <4>3. Cardinality(T) \in Nat /\ Cardinality(T) # 0
        BY <4>1, <4>2, FS_EmptySet, FS_CardinalityType
      <4>4. i = Cardinality(T)
        BY <3>2, Zenon DEF T
      <4> QED
        BY <4>2, <4>3, <4>4
    <3>4. tags'[i] = tags[i] /\ mStream'[j] = mStream[j]
      BY <1>2, <1>7, <1>8, <2>2, <3>3
    <3>5. /\ mStream[j].type = tags[i].type
          /\ IF tags[i].type \in Containers
               THEN mStream[j].text = tags[i].size
               ELSE mStream[j].text % Values(tags[i].type) = tags[i].data
      BY <2>2, <3>2, Zenon DEF TextTellsTags
    <3> QED
      BY <3>1, <3>2, <3>4, <3>5, Zenon
  <2> QED
    BY <1>3, <2>1, <2>2
<1> QED
  BY <1>4, <1>5, <1>7, <1>9, Zenon DEF TextTellsTags

\* A new text, and its last line.
LEMMA TellsOther ==
  ASSUME PrinterTypeOK, TextTellsTags, Start \/ End
  PROVE  TextTellsTags'
<1>1. CASE Start
  <2>1. mStream' = <<Root>> /\ tags' = <<>>
    BY <1>1 DEF Start
  <2>2. Elements' = {}
    BY <2>1 DEF Elements, Root
  <2> QED
    BY <2>1, <2>2, FS_EmptySet DEF TextTellsTags
<1>2. CASE End
  <2>1. mStream' = Append(mStream, EndRoot) /\ tags' = tags
    BY <1>2 DEF End
  <2>2. PICK n \in Nat : n = Len(mStream) /\ DOMAIN mStream = 1..n
    BY ElementsFinite
  <2>3. /\ DOMAIN mStream' = 1..n + 1 /\ mStream'[n + 1] = EndRoot
        /\ \A i \in 1..n : mStream'[i] = mStream[i]
    BY <2>1, <2>2, RootLines, AppendProperties DEF PrinterTypeOK
  <2>4. mStream'[n + 1].kind = "end"
    BY <2>3 DEF EndRoot
  <2>5. Elements' = Elements
    <3>1. \A k \in 1..n + 1 : k \in 1..n \/ k = n + 1
      BY <2>2
    <3>2. \A k \in 1..n : k \in 1..n + 1
      BY <2>2
    <3> QED
      BY <2>2, <2>3, <2>4, <3>1, <3>2 DEF Elements
  <2>6. \A j \in Elements : mStream'[j] = mStream[j]
    BY <2>2, <2>3 DEF Elements
  <2> QED
    BY <2>1, <2>5, <2>6, Zenon DEF TextTellsTags
<1> QED
  BY <1>1, <1>2

\* Values of every depth and size, any number of dumps, cut short or not: the
\* text has one line for every tag, in their order, with the type and the size or
\* the bytes of the number (lib/AxdrPrinter.cpp:211-303, 328-394).
THEOREM PrinterTells == PrinterSpec => []TextTellsTags
<1>1. PrinterInit => PrinterTypeOK /\ TextTellsTags
  <2> SUFFICES ASSUME PrinterInit PROVE TextTellsTags
    BY TypeInit
  <2>1. mStream = <<>> /\ tags = <<>>
    BY DEF PrinterInit
  <2>2. Elements = {}
    BY <2>1 DEF Elements
  <2> QED
    BY <2>1, <2>2, FS_EmptySet DEF TextTellsTags
<1>2. PrinterTypeOK /\ TextTellsTags /\ [PrinterNext]_printerVars => PrinterTypeOK' /\ TextTellsTags'
  <2> SUFFICES ASSUME PrinterTypeOK, TextTellsTags, [PrinterNext]_printerVars
               PROVE  TextTellsTags'
    BY TypeNext
  <2>1. CASE \E tag \in Tag : Len(tags) < MaxTags /\ AxdrData(tag)
    BY <2>1, TellsTag
  <2>2. CASE UNCHANGED printerVars
    BY <2>2, Zenon DEF printerVars, TextTellsTags, Elements
  <2> QED
    BY <2>1, <2>2, TellsOther DEF PrinterNext
<1> QED
  BY <1>1, <1>2, PTL DEF PrinterSpec
-----------------------------------------------------------------------------
(* The sizes in the text                                                   *)

\* The elements directly inside the one of line i, as far as they are printed.
Inside(i) == {k \in Elements : i < k /\ mStream[k].indent = mStream[i].indent + 1}

\* The element of line i is open.
Unclosed(i) ==
  mStream[i].kind = "open" /\ ~ \E j \in DOMAIN mStream : Closes(j, i)

\* The level of an element that is open counts what is in it.
Filled ==
  ~cut => \A i \in DOMAIN mStream :
    Unclosed(i) => Cardinality(Inside(i)) = mLevels[mStream[i].indent + 1].counter

\* Every line has an indent.
LEMMA LineIndent ==
  \A s \in Seq(Line) : \A i \in 1..Len(s) : s[i] \in Line /\ s[i].indent \in Nat
<1> SUFFICES ASSUME NEW s \in Seq(Line), NEW i \in 1..Len(s)
             PROVE  s[i] \in Line /\ s[i].indent \in Nat
  OBVIOUS
<1>1. s[i] \in Line
  BY LenProperties
<1> QED
  BY <1>1 DEF Line

\* A tag is inside the element whose level is the innermost.
LEMMA InsideTag ==
  ASSUME PrinterTypeOK, NEW tag \in TagType, AxdrData(tag),
         NEW i \in 1..Len(mStream)
  PROVE  /\ Inside(i)' = IF Len(mLevels) = mStream[i].indent + 1
                           THEN Inside(i) \cup {Len(mStream) + 1} ELSE Inside(i)
         /\ IsFiniteSet(Inside(i)) /\ Len(mStream) + 1 \notin Inside(i)
<1>0. PICK n : n = Len(mStream)
  OBVIOUS
<1>1. n \in Nat /\ Elements \subseteq 1..n /\ IsFiniteSet(Elements) /\ i \in 1..n
  BY <1>0, ElementsFinite
<1>2. Elements' = Elements \cup {n + 1}
  BY <1>0, ElementsTag
<1>3. /\ \A k \in 1..n : mStream'[k] = mStream[k]
      /\ mStream'[n + 1] = LineOf(tag)
  BY <1>0, TagStep
<1>4. mStream'[n + 1].indent = Len(mLevels)
  BY <1>3, ShownProperties
<1>5. \A k : k \in Inside(i)' <=>
        /\ k \in Elements \cup {n + 1}
        /\ i < k /\ mStream'[k].indent = mStream[i].indent + 1
  BY <1>1, <1>2, <1>3 DEF Inside
<1>6. \A k \in Elements : mStream'[k] = mStream[k]
  BY <1>1, <1>3
<1>7. i < n + 1
  BY <1>1
<1>8. \A k : k \in Inside(i)' <=>
        \/ k \in Inside(i)
        \/ k = n + 1 /\ Len(mLevels) = mStream[i].indent + 1
  BY <1>4, <1>5, <1>6, <1>7, Zenon DEF Inside
<1>9. Inside(i)' = IF Len(mLevels) = mStream[i].indent + 1
                     THEN Inside(i) \cup {n + 1} ELSE Inside(i)
  BY <1>8, Zenon
<1>10. Inside(i) \in SUBSET Elements
  BY DEF Inside
<1>11. n + 1 \notin Inside(i)
  BY <1>1, <1>10
<1> QED
  BY <1>0, <1>1, <1>9, <1>10, <1>11, FS_Subset

\* Before it closes any, Append has counted what is in each open element.
LEMMA GrownFilled ==
  ASSUME PrinterTypeOK, OpensMatch, Filled, ~cut,
         NEW tag \in TagType, AxdrData(tag),
         NEW i \in 1..Len(mStream) + 1, mStream'[i].kind = "open",
         i <= Len(mStream) => Unclosed(i)
  PROVE  \E k \in 1..Len(Grown(tag)) :
           /\ mStream'[i].indent = k - 1 /\ mStream'[i].text = Grown(tag)[k].size
           /\ Cardinality(Inside(i)') = Grown(tag)[k].counter
<1>0. PICK n, l : n = Len(mStream) /\ l = Len(mLevels)
  OBVIOUS
<1>1. /\ n \in Nat /\ DOMAIN mStream = 1..n
      /\ mStream \in Seq(Line) /\ mLevels \in Seq(Element)
      /\ l \in Nat /\ DOMAIN mLevels = 1..l
  BY <1>0 DEF PrinterTypeOK
<1>2. /\ \A k \in 1..n : mStream'[k] = mStream[k]
      /\ mStream'[n + 1] = LineOf(tag)
  BY <1>0, TagStep
<1>3. /\ Len(Grown(tag)) = IF tag.type \in Containers THEN l + 1 ELSE l
      /\ \A k \in 1..l :
           /\ Grown(tag)[k].size = mLevels[k].size
           /\ Grown(tag)[k].counter =
                IF k = l THEN mLevels[k].counter + 1 ELSE mLevels[k].counter
      /\ tag.type \in Containers =>
           Grown(tag)[l + 1] = [counter |-> 0, size |-> tag.size, type |-> tag.type]
  BY <1>0, LevelsProperties
<1>4. CASE i \in 1..n
  <2>1. Unclosed(i) /\ mStream[i].kind = "open"
    BY <1>0, <1>1, <1>4 DEF Unclosed
  <2>2. mStream[i] \in Line /\ mStream[i].indent \in Nat
    BY <1>1, <1>4, LineIndent
  <2>3. PICK k : k = mStream[i].indent + 1
    OBVIOUS
  <2>4. k \in 1..l /\ mLevels[k].size = mStream[i].text
    BY <1>1, <1>4, <2>1, <2>3, Zenon DEF OpensMatch, Unclosed
  <2>5. Cardinality(Inside(i)) = mLevels[k].counter
    BY <1>1, <1>4, <2>1, <2>3, Zenon DEF Filled
  <2>6. /\ Inside(i)' = IF l = k THEN Inside(i) \cup {n + 1} ELSE Inside(i)
        /\ IsFiniteSet(Inside(i)) /\ n + 1 \notin Inside(i)
    BY <1>0, <1>4, <2>3, InsideTag
  <2>7. Cardinality(Inside(i) \cup {n + 1}) = Cardinality(Inside(i)) + 1
    BY <2>6, FS_AddElement
  <2>8. Cardinality(Inside(i)') = Grown(tag)[k].counter
    BY <1>3, <2>4, <2>5, <2>6, <2>7, Zenon
  <2>9. k \in 1..Len(Grown(tag)) /\ mStream[i].indent = k - 1
    BY <1>1, <1>3, <2>2, <2>3, <2>4
  <2> QED
    BY <1>2, <1>3, <1>4, <2>4, <2>8, <2>9, Zenon
<1>5. CASE i = n + 1
  <2>1. /\ mStream'[i].indent = l /\ tag.type \in Containers
        /\ mStream'[i].text = tag.size
    BY <1>0, <1>2, <1>5, ShownProperties
  <2>2. Inside(i)' = {}
    <3>1. Elements' = Elements \cup {n + 1} /\ Elements \subseteq 1..n
      BY <1>0, ElementsTag, ElementsFinite
    <3>2. \A k \in Elements' : ~ (i < k)
      BY <1>1, <1>5, <3>1
    <3> QED
      BY <3>2, Zenon DEF Inside
  <2>3. Grown(tag)[l + 1].counter = 0 /\ Grown(tag)[l + 1].size = tag.size
    BY <1>3, <2>1
  <2>4. l + 1 \in 1..Len(Grown(tag)) /\ l = (l + 1) - 1
    BY <1>1, <1>3, <2>1
  <2> QED
    BY <2>1, <2>2, <2>3, <2>4, FS_EmptySet
<1>6. i \in 1..n \/ i = n + 1
  BY <1>0, <1>1
<1> QED
  BY <1>4, <1>5, <1>6

\* Append closes an element when it has counted as many elements as it states.
LEMMA SizesTag ==
  ASSUME PrinterTypeOK, OpensMatch, OpensMatch', Filled, SizesTrue,
         NEW tag \in TagType, AxdrData(tag)
  PROVE  Filled' /\ SizesTrue'
<1>0. PICK levels, m, r, n :
        /\ levels = Grown(tag) /\ m = Len(levels) /\ r = Remaining(levels)
        /\ n = Len(mStream)
  OBVIOUS
<1>1. n \in Nat /\ DOMAIN mStream = 1..n /\ mStream \in Seq(Line)
  BY <1>0 DEF PrinterTypeOK
<1>2. /\ levels \in Seq(Element) /\ m \in Nat
      /\ \A k \in 1..m : levels[k].counter <= levels[k].size
  <2>1. levels \in Seq(Element) /\ \A k \in 1..m : levels[k].counter <= levels[k].size
    BY <1>0, LevelsProperties, Zenon
  <2> QED
    BY <1>0, <2>1, LenProperties
<1>3. r \in 0..m /\ \A k \in r + 1..m : Finished(levels[k])
  BY <1>0, <1>2, RemainingProperties
<1>4. /\ mLevels' \in Seq(Element) /\ Len(mLevels') = r
      /\ \A i \in 1..r : mLevels'[i] = levels[i]
      /\ mStream' \in Seq(Line) /\ Len(mStream') = n + 1 + (m - r)
      /\ \A i \in 1..n : mStream'[i] = mStream[i]
      /\ mStream'[n + 1] = LineOf(tag)
      /\ \A i \in 1..m - r :
           mStream'[n + 1 + i] = [kind |-> "close", indent |-> m - i,
                                  type |-> levels[m + 1 - i].type, text |-> 0]
  BY <1>0, TagStep
<1>5. \A i \in 1..m - r : mStream'[n + 1 + i].kind = "close"
                          /\ mStream'[n + 1 + i].indent = m - i
  <2> SUFFICES ASSUME NEW i \in 1..m - r
               PROVE  mStream'[n + 1 + i].kind = "close" /\ mStream'[n + 1 + i].indent = m - i
    OBVIOUS
  <2>1. mStream'[n + 1 + i] = [kind |-> "close", indent |-> m - i,
                               type |-> levels[m + 1 - i].type, text |-> 0]
    BY <1>4
  <2> QED
    BY <2>1
<1>6. DOMAIN mStream' = 1..n + 1 + (m - r) /\ DOMAIN mLevels' = 1..r
  BY <1>4
<1>7. mStream'[n + 1].kind # "close"
  BY <1>4, ShownProperties
<1>8. Elements' = Elements \cup {n + 1} /\ Elements \subseteq 1..n
  BY <1>0, ElementsTag, ElementsFinite
<1>9. \A j \in DOMAIN mStream' : j \in 1..n + 1 \/ \E x \in 1..m - r : j = n + 1 + x
  <2> SUFFICES ASSUME NEW j \in DOMAIN mStream', j \notin 1..n + 1
               PROVE  \E x \in 1..m - r : j = n + 1 + x
    OBVIOUS
  <2>1. j - (n + 1) \in 1..m - r /\ j = n + 1 + (j - (n + 1))
    BY <1>1, <1>2, <1>3, <1>6
  <2> QED
    BY <2>1
<1>10. \A i \in 1..n + 1 : i \in 1..n \/ i = n + 1
  BY <1>1
<1>11. cut' = cut
  BY DEF AxdrData
<1>12. ASSUME NEW i \in DOMAIN mStream', mStream'[i].kind = "open"
       PROVE  i \in 1..n + 1
  BY <1>5, <1>9, <1>12
\* What has been counted so far.
<1>13. ASSUME ~cut, NEW i \in 1..n + 1, mStream'[i].kind = "open", i <= n => Unclosed(i)
       PROVE  \E k \in 1..m :
                /\ mStream'[i].indent = k - 1 /\ mStream'[i].text = levels[k].size
                /\ Cardinality(Inside(i)') = levels[k].counter
  BY <1>0, <1>13, GrownFilled
<1>14. Filled'
  <2> SUFFICES ASSUME ~cut', NEW i \in DOMAIN mStream', Unclosed(i)'
               PROVE  Cardinality(Inside(i)') = mLevels'[mStream'[i].indent + 1].counter
    BY DEF Filled
  <2>1. /\ mStream'[i].kind = "open" /\ i \in 1..n + 1
        /\ ~ \E j \in DOMAIN mStream' : Closes(j, i)'
    BY <1>12 DEF Unclosed
  <2>2. i <= n => Unclosed(i)
    <3> SUFFICES ASSUME i <= n PROVE Unclosed(i)
      OBVIOUS
    <3>1. i \in 1..n
      BY <1>1, <2>1
    <3>2. mStream[i].kind = "open"
      BY <1>4, <2>1, <3>1
    <3>3. ASSUME NEW j \in 1..n, Closes(j, i) PROVE FALSE
      <4>1. Closes(j, i)'
        BY <1>1, <1>4, <3>1, <3>3, ClosesKept
      <4>2. j \in DOMAIN mStream'
        BY <1>1, <1>2, <1>3, <1>6
      <4> QED
        BY <2>1, <4>1, <4>2
    <3> QED
      BY <1>1, <3>2, <3>3 DEF Unclosed
  <2>3. PICK k \in 1..m :
          /\ mStream'[i].indent = k - 1 /\ mStream'[i].text = levels[k].size
          /\ Cardinality(Inside(i)') = levels[k].counter
    BY <1>11, <1>13, <2>1, <2>2
  <2>4. mStream'[i].indent + 1 \in DOMAIN mLevels'
    BY <2>1, Zenon DEF OpensMatch
  <2>5. mStream'[i].indent + 1 = k
    BY <1>2, <2>3
  <2>6. mLevels'[k] = levels[k]
    BY <1>4, <1>6, <2>4, <2>5
  <2> QED
    BY <2>3, <2>5, <2>6
<1>15. SizesTrue'
  <2> SUFFICES ASSUME ~cut', NEW i \in DOMAIN mStream', NEW j \in DOMAIN mStream',
                      Closes(j, i)'
               PROVE  Cardinality(Children(i, j)') = mStream'[i].text
    BY DEF SizesTrue
  <2>1. /\ mStream'[i].kind = "open" /\ mStream'[j].kind = "close" /\ i < j
        /\ mStream'[i].indent = mStream'[j].indent /\ mStream'[i].type = mStream'[j].type
        /\ \A k \in i + 1..j - 1 : mStream'[k].indent > mStream'[i].indent
    BY DEF Closes
  <2>2. i \in 1..n + 1
    BY <1>12, <2>1
  <2>3. CASE j \in 1..n
    <3>1. i \in 1..n
      BY <1>1, <2>1, <2>2, <2>3
    <3>2. \A k \in i + 1..j - 1 : k \in 1..n /\ mStream'[k] = mStream[k]
      BY <1>1, <1>4, <2>3, <3>1
    <3>3. mStream'[i] = mStream[i] /\ mStream'[j] = mStream[j]
      BY <1>4, <2>3, <3>1
    <3>4. Closes(j, i)
      BY <2>1, <3>2, <3>3, Zenon DEF Closes
    <3>5. Children(i, j)' = Children(i, j)
      BY <3>2, <3>3 DEF Children
    <3> QED
      BY <1>1, <1>11, <2>3, <3>1, <3>3, <3>4, <3>5, Zenon DEF SizesTrue
  <2>4. CASE j = n + 1
    BY <1>7, <2>1, <2>4
  <2>5. CASE \E x \in 1..m - r : j = n + 1 + x
    <3>1. PICK x \in 1..m - r : j = n + 1 + x
      BY <2>5
    <3>2. i <= n => Unclosed(i)
      <4> SUFFICES ASSUME i <= n PROVE Unclosed(i)
        OBVIOUS
      <4>1. i \in 1..n
        BY <1>1, <2>2
      <4>2. mStream'[i] = mStream[i]
        BY <1>4, <4>1
      <4>3. ASSUME NEW h \in 1..n, Closes(h, i) PROVE FALSE
        <5>1. i < h /\ mStream[i].indent = mStream[h].indent
          BY <4>3 DEF Closes
        <5>2. h \in i + 1..j - 1
          BY <1>1, <1>2, <1>3, <3>1, <4>1, <5>1
        <5>3. mStream'[h] = mStream[h]
          BY <1>4
        <5>4. mStream'[h].indent > mStream'[i].indent
          BY <2>1, <5>2
        <5>5. mStream[h].indent > mStream[h].indent
          BY <4>2, <5>1, <5>3, <5>4
        <5>6. mStream[h].indent \in Nat
          BY <1>1, LineIndent
        <5> QED
          BY <5>5, <5>6
      <4> QED
        BY <1>1, <2>1, <4>2, <4>3 DEF Unclosed
    <3>3. PICK k \in 1..m :
            /\ mStream'[i].indent = k - 1 /\ mStream'[i].text = levels[k].size
            /\ Cardinality(Inside(i)') = levels[k].counter
      BY <1>11, <1>13, <2>1, <2>2, <3>2
    <3>4. mStream'[j].indent = m - x
      BY <1>5, <3>1
    <3>5. k \in r + 1..m
      <4>1. k - 1 = m - x
        BY <2>1, <3>3, <3>4
      <4> QED
        BY <1>2, <1>3, <4>1
    <3>6. levels[k].counter = levels[k].size
      <4>1. levels[k].counter >= levels[k].size /\ levels[k].counter <= levels[k].size
        BY <1>2, <1>3, <3>5 DEF Finished
      <4>2. levels[k].counter \in Nat /\ levels[k].size \in Nat
        <5>1. levels[k] \in Element
          BY <1>0, <1>2, LenProperties
        <5> QED
          BY <5>1 DEF Element
      <4> QED
        BY <4>1, <4>2
    <3>7. Children(i, j)' = Inside(i)'
      <4>1. \A k1 \in Elements' : k1 \in 1..n + 1 /\ k1 \in DOMAIN mStream'
        <5>1. \A k1 \in Elements' : k1 \in 1..n + 1
          BY <1>1, <1>8
        <5> QED
          BY <5>1 DEF Elements
      <4>2. \A k1 \in i + 1..j - 1 : i < k1 /\ k1 \in DOMAIN mStream'
        BY <1>1, <1>2, <1>3, <1>6, <2>2, <3>1
      <4>3. \A k1 \in 1..n + 1 : i < k1 => k1 \in i + 1..j - 1
        BY <1>1, <2>2, <3>1
      <4>4. \A k1 : k1 \in Children(i, j)' <=>
              /\ k1 \in i + 1..j - 1 /\ mStream'[k1].kind \in {"open", "value"}
              /\ mStream'[k1].indent = mStream'[i].indent + 1
        BY DEF Children
      <4>5. \A k1 : k1 \in Elements' <=>
              k1 \in DOMAIN mStream' /\ mStream'[k1].kind \in {"open", "value"}
        BY DEF Elements
      <4>6. \A k1 : k1 \in Inside(i)' <=>
              k1 \in Elements' /\ i < k1 /\ mStream'[k1].indent = mStream'[i].indent + 1
        BY DEF Inside
      <4>7. \A k1 : k1 \in Children(i, j)' <=> k1 \in Inside(i)'
        BY <4>1, <4>2, <4>3, <4>4, <4>5, <4>6, Zenon
      <4> QED
        BY <4>7, Zenon
    <3> QED
      BY <3>3, <3>6, <3>7
  <2> QED
    BY <1>9, <1>10, <2>3, <2>4, <2>5
<1> QED
  BY <1>14, <1>15

\* A new text has no elements, and its last line is none.
LEMMA SizesOther ==
  ASSUME PrinterTypeOK, Filled, SizesTrue, Start \/ End
  PROVE  Filled' /\ SizesTrue'
<1>1. CASE Start
  <2>1. mStream' = <<Root>>
    BY <1>1 DEF Start
  <2>2. \A i \in DOMAIN mStream' : mStream'[i].kind = "root"
    BY <2>1 DEF Root
  <2> QED
    BY <2>2 DEF Filled, SizesTrue, Unclosed, Closes
<1>2. CASE End
  <2>1. mStream' = Append(mStream, EndRoot) /\ cut' = cut /\ mLevels' = mLevels
    BY <1>2 DEF End
  <2>2. PICK n \in Nat : n = Len(mStream) /\ DOMAIN mStream = 1..n
    BY ElementsFinite
  <2>3. /\ DOMAIN mStream' = 1..n + 1 /\ mStream'[n + 1] = EndRoot
        /\ \A i \in 1..n : mStream'[i] = mStream[i]
    BY <2>1, <2>2, RootLines, AppendProperties DEF PrinterTypeOK
  <2>4. mStream'[n + 1].kind = "end"
    BY <2>3 DEF EndRoot
  <2>5. \A k \in 1..n + 1 : k \in 1..n \/ k = n + 1
    BY <2>2
  <2>6. \A k \in 1..n : k \in 1..n + 1
    BY <2>2
  <2>7. Elements' = Elements
    BY <2>2, <2>3, <2>4, <2>5, <2>6 DEF Elements
  <2>8. ASSUME NEW i \in 1..n PROVE Inside(i)' = Inside(i)
    <3>1. \A k \in Elements : k \in 1..n /\ mStream'[k] = mStream[k]
      BY <2>2, <2>3 DEF Elements
    <3>2. \A k : k \in Inside(i)' <=>
            k \in Elements /\ i < k /\ mStream'[k].indent = mStream[i].indent + 1
      BY <2>3, <2>7 DEF Inside
    <3> QED
      BY <3>1, <3>2, Zenon DEF Inside
  <2>9. ASSUME NEW i \in DOMAIN mStream', mStream'[i].kind = "open"
        PROVE  i \in 1..n /\ mStream'[i] = mStream[i]
    BY <2>3, <2>4, <2>5, <2>9
  <2>10. Filled'
    <3> SUFFICES ASSUME ~cut', NEW i \in DOMAIN mStream', Unclosed(i)'
                 PROVE  Cardinality(Inside(i)') = mLevels'[mStream'[i].indent + 1].counter
      BY DEF Filled
    <3>1. mStream'[i].kind = "open"
      BY DEF Unclosed
    <3>2. i \in 1..n /\ mStream'[i] = mStream[i]
      BY <2>9, <3>1
    <3>3. ASSUME NEW j \in 1..n, Closes(j, i) PROVE FALSE
      <4>1. Closes(j, i)'
        BY <2>3, <3>2, <3>3, ClosesKept
      <4> QED
        BY <2>3, <2>6, <4>1 DEF Unclosed
    <3>4. Unclosed(i)
      BY <2>2, <3>1, <3>2, <3>3 DEF Unclosed
    <3> QED
      BY <2>1, <2>2, <2>8, <3>2, <3>4, Zenon DEF Filled
  <2>11. SizesTrue'
    <3> SUFFICES ASSUME ~cut', NEW i \in DOMAIN mStream', NEW j \in DOMAIN mStream',
                        Closes(j, i)'
                 PROVE  Cardinality(Children(i, j)') = mStream'[i].text
      BY DEF SizesTrue
    <3>1. /\ mStream'[i].kind = "open" /\ mStream'[j].kind = "close" /\ i < j
          /\ mStream'[i].indent = mStream'[j].indent /\ mStream'[i].type = mStream'[j].type
          /\ \A k \in i + 1..j - 1 : mStream'[k].indent > mStream'[i].indent
      BY DEF Closes
    <3>2. i \in 1..n /\ mStream'[i] = mStream[i]
      BY <2>9, <3>1
    <3>3. j \in 1..n
      BY <2>3, <2>4, <2>5, <3>1
    <3>4. mStream'[j] = mStream[j]
      BY <2>3, <3>3
    <3>5. \A k \in i + 1..j - 1 : k \in 1..n /\ mStream'[k] = mStream[k]
      BY <2>2, <2>3, <3>2, <3>3
    <3>6. Closes(j, i)
      BY <3>1, <3>2, <3>4, <3>5, Zenon DEF Closes
    <3>7. Children(i, j)' = Children(i, j)
      BY <3>2, <3>5 DEF Children
    <3> QED
      BY <2>1, <2>2, <3>2, <3>3, <3>6, <3>7, Zenon DEF SizesTrue
  <2> QED
    BY <2>10, <2>11
<1> QED
  BY <1>1, <1>2

\* Values of every depth and size, any number of dumps that were not cut short: an
\* element that is closed has as many elements in it as its opening tag states
\* (lib/AxdrPrinter.cpp:328-394).
THEOREM PrinterSizes == PrinterSpec => []SizesTrue
<1>1. PrinterInit => PrinterTypeOK /\ Filled /\ SizesTrue
  <2> SUFFICES ASSUME PrinterInit PROVE Filled /\ SizesTrue
    BY TypeInit
  <2>1. DOMAIN mStream = {}
    BY DEF PrinterInit
  <2> QED
    BY <2>1 DEF Filled, SizesTrue
<1>2. /\ PrinterTypeOK /\ OpensMatch /\ OpensMatch' /\ Filled /\ SizesTrue
      /\ [PrinterNext]_printerVars
      => PrinterTypeOK' /\ Filled' /\ SizesTrue'
  <2> SUFFICES ASSUME PrinterTypeOK, OpensMatch, OpensMatch', Filled, SizesTrue,
                      [PrinterNext]_printerVars
               PROVE  Filled' /\ SizesTrue'
    BY TypeNext
  <2>1. CASE \E tag \in Tag : Len(tags) < MaxTags /\ AxdrData(tag)
    BY <2>1, SizesTag, TagsTyped
  <2>2. CASE UNCHANGED printerVars
    <3>1. Filled'
      BY <2>2, Zenon DEF printerVars, Filled, Unclosed, Closes, Inside, Elements
    <3>2. SizesTrue'
      <4>1. mStream' = mStream /\ cut' = cut
        BY <2>2, Zenon DEF printerVars
      <4>2. \A i, j : Closes(j, i)' = Closes(j, i) /\ Children(i, j)' = Children(i, j)
        BY <4>1, Zenon DEF Closes, Children
      <4> QED
        BY <4>1, <4>2, Zenon DEF SizesTrue
    <3> QED
      BY <3>1, <3>2
  <2> QED
    BY <2>1, <2>2, SizesOther DEF PrinterNext
<1>3. PrinterSpec => []OpensMatch
  BY PrinterNesting, PTL
<1> QED
  BY <1>1, <1>2, <1>3, PTL DEF PrinterSpec
================================================================================
