--------------------------- MODULE RetrievalProofs ---------------------------
(***************************************************************************)
(* The way of a product page into chunks, and of a chunk into an answer.   *)
(* For any documents, and any sizes of which the overlap is less than      *)
(* half: cutting a document loses nothing of it, its loops come to their   *)
(* end, and a page that is crawled again is told the core of as before.    *)
(* For any queries, chunks, matches, histories, prompts and facts, and any *)
(* number of loops and faults: what the database refuses never costs the   *)
(* usage event, the knowledge that a retrieval matched reaches the model,  *)
(* and a word that no dictionary has stands in the wording that is         *)
(* retrieved by, whatever the text and the dictionaries.                   *)
(***************************************************************************)
EXTENDS AnswerProps, ProductsProps, FiniteSetTheorems, SequenceTheorems, NaturalsInduction, TLAPS

-----------------------------------------------------------------------------
(* Places. *)

(* There is a first among some places: what comes up to it is smallest.      *)
LEMMA Least ==
    ASSUME NEW n \in Nat, NEW S \in SUBSET (1..n), S # {}
    PROVE  \E i \in S : \A j \in S : i <= j
<1> DEFINE T == {1..i : i \in S}
<1>1. IsFiniteSet(1..n)
  BY FS_Interval
<1>2. T \subseteq FiniteSubsetsOf(1..n)
  <2>1. T \subseteq SUBSET (1..n)
    OBVIOUS
  <2> QED BY <1>1, <2>1, FS_FiniteSubsetsOfFinite
<1>3. T # {}
  OBVIOUS
<1> HIDE DEF T
<1>4. PICK t \in T : \A u \in T : ~(<<u, t>> \in StrictSubsetOrdering(1..n))
  BY <1>2, <1>3, FS_StrictSubsetOrderingWellFounded, WFMin
<1>5. PICK i \in S : t = 1..i
  BY DEF T
<1>6. ASSUME NEW j \in S, ~(i <= j) PROVE FALSE
  <2>1. i \in 1..n /\ j \in 1..n /\ j < i
    BY <1>6
  <2>2. 1..j \in T
    BY DEF T
  <2>3. 1..j \subseteq 1..i /\ 1..j \subseteq 1..n /\ 1..i \subseteq 1..n
    BY <2>1
  <2>4. i \in 1..i /\ i \notin 1..j
    BY <2>1
  <2>5. <<1..j, 1..i>> \in StrictSubsetOrdering(1..n)
    BY <2>3, <2>4 DEF StrictSubsetOrdering
  <2> QED BY <1>4, <1>5, <2>2, <2>5
<1> QED
  BY <1>6

(* There is a last among some places.                                        *)
LEMMA Greatest ==
    ASSUME NEW n \in Nat, NEW S \in SUBSET (1..n), S # {}
    PROVE  \E i \in S : \A j \in S : j <= i
<1> DEFINE T == {n + 1 - i : i \in S}
<1>1. T \in SUBSET (1..n) /\ T # {}
  <2>1. ASSUME NEW i \in S PROVE n + 1 - i \in 1..n
    <3>1. i \in 1..n
      OBVIOUS
    <3> QED BY <3>1
  <2> QED BY <2>1
<1> HIDE DEF T
<1>2. PICK t \in T : \A u \in T : t <= u
  BY <1>1, Least
<1>3. PICK i \in S : t = n + 1 - i
  BY DEF T
<1>4. \A j \in S : n + 1 - j \in T
  BY DEF T
<1>5. ASSUME NEW j \in S PROVE j <= i
  <2>1. t <= n + 1 - j
    BY <1>2, <1>4
  <2>2. i \in 1..n /\ j \in 1..n
    OBVIOUS
  <2> QED BY <1>3, <2>1, <2>2
<1> QED
  BY <1>5

-----------------------------------------------------------------------------
(* The cells of a document, and texts. *)

Cell   == Nat \X Nat
Texts  == Seq(Cell)

(* The cells a to b of line l follow each other in a text, after its first   *)
(* s cells.                                                                  *)
Carries(text, s, l, a, b) ==
    \E k \in Int : s < k + a /\ k + b <= Len(text) /\ \A o \in a..b : text[k + o] = <<l, o>>

(* They do in one of some texts.                                             *)
Among(texts, l, a, b) == \E i \in 1..Len(texts) : Carries(texts[i], 0, l, a, b)

(* Two texts together hold what the first one does,                          *)
LEMMA HeldFirst ==
    ASSUME NEW text \in Texts, NEW more \in Texts, NEW l, NEW a \in Nat, NEW b \in Nat, 1 <= a, a <= b,
           Carries(text, 0, l, a, b)
    PROVE  Carries(text \o more, 0, l, a, b)
<1>1. PICK k \in Int : 0 < k + a /\ k + b <= Len(text) /\ \A o \in a..b : text[k + o] = <<l, o>>
  BY DEF Carries
<1>2. PICK m \in Nat : m = Len(text)
  BY LenProperties DEF Texts
<1>3. PICK n \in Nat : n = Len(more)
  BY LenProperties DEF Texts
<1>4. Len(text \o more) = m + n /\ \A i \in 1..m + n : (text \o more)[i] = IF i <= m THEN text[i] ELSE more[i - m]
  BY <1>2, <1>3, ConcatProperties DEF Texts
<1>5. \A o \in a..b : (text \o more)[k + o] = <<l, o>>
  <2> TAKE o \in a..b
  <2>1. k + o \in 1..m + n /\ k + o <= m
    BY <1>1, <1>2, <1>3
  <2> QED BY <1>1, <1>4, <2>1
<1>6. k + b <= m + n
  BY <1>1, <1>2
<1> QED
  BY <1>1, <1>4, <1>5, <1>6 DEF Carries

(* and what the second one does.                                             *)
LEMMA HeldSecond ==
    ASSUME NEW text \in Texts, NEW more \in Texts, NEW l, NEW a \in Nat, NEW b \in Nat, 1 <= a, a <= b,
           Carries(more, 0, l, a, b)
    PROVE  Carries(text \o more, 0, l, a, b)
<1>1. PICK k \in Int : 0 < k + a /\ k + b <= Len(more) /\ \A o \in a..b : more[k + o] = <<l, o>>
  BY DEF Carries
<1>2. PICK m \in Nat : m = Len(text)
  BY LenProperties DEF Texts
<1>3. PICK n \in Nat : n = Len(more)
  BY LenProperties DEF Texts
<1>4. Len(text \o more) = m + n /\ \A i \in 1..m + n : (text \o more)[i] = IF i <= m THEN text[i] ELSE more[i - m]
  BY <1>2, <1>3, ConcatProperties DEF Texts
<1>5. \A o \in a..b : (text \o more)[(k + m) + o] = <<l, o>>
  <2> TAKE o \in a..b
  <2>1. (k + m) + o \in 1..m + n /\ ~((k + m) + o <= m) /\ ((k + m) + o) - m = k + o
    BY <1>1, <1>2, <1>3
  <2> QED BY <1>1, <1>4, <2>1
<1>6. (k + m) + b <= m + n /\ 0 < (k + m) + a /\ k + m \in Int
  BY <1>1, <1>3
<1> QED
  BY <1>4, <1>5, <1>6 DEF Carries

(* An empty text holds nothing.                                              *)
LEMMA HeldNowhere ==
    ASSUME NEW l, NEW a \in Nat, NEW b \in Nat, 1 <= a, a <= b
    PROVE  ~Carries(<<>>, 0, l, a, b)
<1>1. Len(<<>>) = 0
  OBVIOUS
<1> QED
  BY <1>1 DEF Carries

(* One more text.                                                            *)
LEMMA AmongMore ==
    ASSUME NEW texts \in Seq(Texts), NEW text \in Texts, NEW l, NEW a \in Nat, NEW b \in Nat
    PROVE  /\ Append(texts, text) \in Seq(Texts)
           /\ Among(texts, l, a, b) => Among(Append(texts, text), l, a, b)
           /\ Carries(text, 0, l, a, b) => Among(Append(texts, text), l, a, b)
<1>1. PICK n \in Nat : n = Len(texts)
  BY LenProperties
<1>2. /\ Append(texts, text) \in Seq(Texts)
      /\ Len(Append(texts, text)) = n + 1
      /\ \A i \in 1..n : Append(texts, text)[i] = texts[i]
      /\ Append(texts, text)[n + 1] = text
  BY <1>1, AppendProperties
<1>3. \A i \in 1..n : i \in 1..n + 1
  BY <1>1
<1>4. n + 1 \in 1..n + 1
  BY <1>1
<1> QED
  BY <1>1, <1>2, <1>3, <1>4 DEF Among

(* A single one.                                                             *)
LEMMA AmongOne ==
    ASSUME NEW text \in Texts, NEW l, NEW a \in Nat, NEW b \in Nat
    PROVE  /\ <<text>> \in Seq(Texts)
           /\ <<text>> # <<>>
           /\ Carries(text, 0, l, a, b) => Among(<<text>>, l, a, b)
<1>1. Len(<<text>>) = 1 /\ <<text>>[1] = text /\ 1 \in 1..1
  OBVIOUS
<1> QED
  BY <1>1 DEF Among

(* None.                                                                     *)
LEMMA AmongNone ==
    ASSUME NEW l, NEW a \in Nat, NEW b \in Nat
    PROVE  ~Among(<<>>, l, a, b)
<1>1. Len(<<>>) = 0 /\ 1..0 = {}
  OBVIOUS
<1> QED
  BY <1>1 DEF Among

-----------------------------------------------------------------------------
(* A document and its text. *)

(* A line is a text of its cells,                                            *)
LEMMA LineOf ==
    ASSUME doc \in Documents, NEW l \in 1..Len(doc.lines)
    PROVE  /\ doc.lines[l].length \in Nat \ {0}
           /\ Line(l) \in Texts
           /\ Len(Line(l)) = doc.lines[l].length
           /\ \A o \in 1..doc.lines[l].length : Line(l)[o] = <<l, o>>
<1>1. doc.lines \in Seq([kind : Kinds, field : STRING, length : Nat \ {0}, ends : SUBSET Nat])
  BY DocumentAssumption
<1>2. doc.lines[l] \in [kind : Kinds, field : STRING, length : Nat \ {0}, ends : SUBSET Nat]
  BY <1>1, ElementOfSeq
<1>3. PICK n \in Nat : n = doc.lines[l].length /\ n # 0
  BY <1>2
<1>4. Line(l) = [o \in 1..n |-> <<l, o>>]
  BY <1>3 DEF Line
<1>5. l \in Nat
  BY <1>1, LenProperties
<1>6. Line(l) \in [1..n -> Cell]
  BY <1>4, <1>5 DEF Cell
<1>7. Line(l) \in Texts
  BY <1>6, SeqDef DEF Texts
<1>8. Len(Line(l)) = n
  <2>1. DOMAIN Line(l) = 1..n
    BY <1>4
  <2> QED BY <2>1, <1>7, LenProperties DEF Texts
<1> QED
  BY <1>3, <1>4, <1>7, <1>8

(* and holds its own stretches.                                              *)
LEMMA LineHolds ==
    ASSUME doc \in Documents, NEW l \in 1..Len(doc.lines),
           NEW a \in Nat, NEW b \in Nat, 1 <= a, a <= b, b <= doc.lines[l].length
    PROVE  Carries(Line(l), 0, l, a, b)
<1>1. PICK n \in Nat : n = doc.lines[l].length /\ Len(Line(l)) = n /\ \A o \in 1..n : Line(l)[o] = <<l, o>>
  BY LineOf
<1>2. ASSUME NEW o \in a..b PROVE Line(l)[0 + o] = <<l, o>>
  <2>1. o \in 1..n /\ 0 + o = o
    BY <1>1
  <2> QED BY <1>1, <2>1
<1>3. 0 < 0 + a /\ 0 + b <= Len(Line(l))
  BY <1>1
<1> SUFFICES \E k \in Int : 0 < k + a /\ k + b <= Len(Line(l)) /\ \A o \in a..b : Line(l)[k + o] = <<l, o>>
  BY DEF Carries
<1> WITNESS 0 \in Int
<1> QED
  BY <1>2, <1>3

(* The lines up to one, and so the text, hold all those lines.               *)
LEMMA TextHolds ==
    ASSUME doc \in Documents
    PROVE  /\ Text \in Texts
           /\ \A l \in 1..Len(doc.lines) : \A a, b \in Nat :
                 1 <= a /\ a <= b /\ b <= doc.lines[l].length => Carries(Text, 0, l, a, b)
<1>1. PICK n \in Nat : n = Len(doc.lines)
  BY DocumentAssumption, LenProperties
<1> DEFINE Upto(f, m) == f = [l \in 0..m |-> IF l = 0 THEN <<>> ELSE f[l - 1] \o Line(l)]
<1>2. \A m \in 0..n : \E f : Upto(f, m)
  <2> SUFFICES ASSUME NEW m0 \in 0..n, ~\E f : Upto(f, m0) PROVE FALSE
    OBVIOUS
  <2> DEFINE Without == {m \in 1..n : ~\E f : Upto(f, m)}
  <2>1. \E f : Upto(f, 0)
    <3>1. Upto([l \in 0..0 |-> <<>>], 0)
      OBVIOUS
    <3> HIDE DEF Upto
    <3> QED BY <3>1
  <2>2. m0 \in Without
    <3> HIDE DEF Upto
    <3>1. m0 # 0
      BY <2>1
    <3> QED BY <3>1
  <2>3. Without \in SUBSET (1..n)
    OBVIOUS
  <2>4. PICK m \in Without : \A j \in Without : m <= j
    <3> HIDE DEF Without
    <3> QED BY <2>2, <2>3, Least
  <2>5. PICK f : Upto(f, m - 1)
    <3> HIDE DEF Upto
    <3>1. m \in 1..n
      OBVIOUS
    <3>2. m - 1 = 0 \/ m - 1 \in 1..n
      BY <3>1
    <3>3. m - 1 \notin Without
      BY <3>1, <2>4
    <3> QED BY <2>1, <3>2, <3>3
  <2> DEFINE g == [l \in 0..m |-> IF l = m THEN f[m - 1] \o Line(m) ELSE f[l]]
  <2>6. Upto(g, m)
    <3>1. m \in 1..n
      OBVIOUS
    <3>2. \A l \in 0..m : g[l] = IF l = 0 THEN <<>> ELSE g[l - 1] \o Line(l)
      <4> TAKE l \in 0..m
      <4>1. CASE l = m
        <5>1. m - 1 \in 0..m /\ m - 1 # m /\ m # 0
          BY <3>1
        <5>2. g[m - 1] = f[m - 1]
          BY <5>1
        <5> QED BY <4>1, <5>1, <5>2
      <4>2. CASE l = 0
        <5>1. l # m /\ 0 \in 0..m /\ 0 \in 0..(m - 1)
          BY <4>2, <3>1
        <5>2. f[0] = <<>>
          BY <5>1, <2>5
        <5> QED BY <4>2, <5>1, <5>2
      <4>3. CASE l # m /\ l # 0
        <5>1. l \in 0..(m - 1) /\ l - 1 \in 0..m /\ l - 1 # m
          BY <4>3, <3>1
        <5>2. f[l] = f[l - 1] \o Line(l)
          BY <5>1, <4>3, <2>5
        <5> QED BY <4>3, <5>1, <5>2
      <4> QED BY <4>1, <4>2, <4>3
    <3>3. g = [l \in 0..m |-> g[l]]
      OBVIOUS
    <3> HIDE DEF g
    <3> QED BY <3>2, <3>3
  <2> QED BY <2>4, <2>6
<1> DEFINE u == CHOOSE f : f = [l \in 0..Len(doc.lines) |-> IF l = 0 THEN <<>> ELSE f[l - 1] \o Line(l)]
<1>3. Text = u[Len(doc.lines)]
  BY DEF Text
<1>4. u = [l \in 0..n |-> IF l = 0 THEN <<>> ELSE u[l - 1] \o Line(l)]
  <2>1. \E f : Upto(f, n)
    <3> HIDE DEF Upto
    <3> QED BY <1>2
  <2> QED BY <1>1, <2>1
<1> HIDE DEF u
<1> DEFINE Good(m) == /\ u[m] \in Texts
                      /\ \A l \in 1..m : \A a, b \in Nat :
                            1 <= a /\ a <= b /\ b <= doc.lines[l].length => Carries(u[m], 0, l, a, b)
<1>5. Good(0)
  <2>1. u[0] = <<>>
    BY <1>4
  <2> QED BY <2>1, EmptySeq DEF Texts
<1>6. ASSUME NEW m \in 1..n, Good(m - 1) PROVE Good(m)
  <2>1. u[m] = u[m - 1] \o Line(m)
    <3>1. m \in 0..n /\ m # 0
      OBVIOUS
    <3> QED BY <1>4, <3>1
  <2>2. Line(m) \in Texts /\ m \in 1..Len(doc.lines)
    BY <1>1, LineOf
  <2>3. u[m - 1] \in Texts
    BY <1>6
  <2>4. u[m] \in Texts
    BY <2>1, <2>2, <2>3, ConcatProperties DEF Texts
  <2>5. ASSUME NEW l \in 1..m, NEW a \in Nat, NEW b \in Nat, 1 <= a, a <= b, b <= doc.lines[l].length
        PROVE  Carries(u[m], 0, l, a, b)
    <3>1. CASE l = m
      <4>1. Carries(Line(m), 0, l, a, b)
        BY <2>2, <2>5, <3>1, LineHolds
      <4> QED BY <2>1, <2>2, <2>3, <2>5, <4>1, HeldSecond
    <3>2. CASE l # m
      <4>1. l \in 1..(m - 1)
        BY <3>2
      <4>2. Carries(u[m - 1], 0, l, a, b)
        BY <4>1, <1>6, <2>5
      <4> QED BY <2>1, <2>2, <2>3, <2>5, <4>2, HeldFirst
    <3> QED BY <3>1, <3>2
  <2> QED BY <2>4, <2>5
<1>7. \A m \in 0..n : Good(m)
  <2> SUFFICES ASSUME NEW m0 \in 0..n, ~Good(m0) PROVE FALSE
    OBVIOUS
  <2> DEFINE Bad == {m \in 1..n : ~Good(m)}
  <2> HIDE DEF Good
  <2>1. m0 \in Bad /\ Bad \in SUBSET (1..n)
    <3>1. m0 # 0
      BY <1>5
    <3> QED BY <3>1
  <2>2. PICK m \in Bad : \A j \in Bad : m <= j
    <3> HIDE DEF Bad
    <3> QED BY <2>1, Least
  <2>3. m \in 1..n /\ m - 1 \notin Bad
    BY <2>2
  <2>4. m - 1 = 0 \/ m - 1 \in 1..n
    BY <2>3
  <2>5. Good(m - 1)
    BY <2>3, <2>4, <1>5
  <2> QED BY <2>3, <2>5, <1>6
<1> QED
  BY <1>1, <1>3, <1>7

-----------------------------------------------------------------------------
(* Windows. *)

(* A window is the text from the start on: to its end, or as far as a        *)
(* sentence that ends in its second half.                                    *)
LEMMA Windowed ==
    ASSUME queue \in Seq(Texts), queue # <<>>, start \in Nat,
           NEW size \in Nat \ {0}, NEW n \in Nat, n = Len(Head(queue))
    PROVE  /\ Window(size) \in Texts
           /\ \E w \in Nat :
                 /\ Len(Window(size)) = w
                 /\ \A i \in 1..w : Window(size)[i] = Head(queue)[start + i]
                 /\ IF start + size < n THEN size \div 2 < w /\ w <= size
                    ELSE w = IF start < n THEN n - start ELSE 0
<1> DEFINE text  == Head(queue)
           last  == IF start + size < n THEN start + size ELSE n
           whole == SubSeq(text, start + 1, last)
           stops == {k \in 1..Len(whole) - 1 : EndsSentence(whole[k]) /\ k - 1 > size \div 2}
           stop  == CHOOSE k \in stops : \A j \in stops : j <= k
<1>1. Window(size) = IF start + size < n /\ stops # {} THEN SubSeq(whole, 1, stop) ELSE whole
  BY DEF Window
<1>2. text \in Texts
  BY HeadTailProperties
<1>3. \A i \in 1..n : text[i] \in Cell
  BY <1>2, ElementOfSeq DEF Texts
<1>4. last \in Nat /\ last <= n
  OBVIOUS
<1>5. PICK size2 \in Nat : size2 = size \div 2 /\ size2 < size
  OBVIOUS
<1> HIDE DEF text
<1>6. PICK v \in Nat : /\ whole \in Texts
                       /\ Len(whole) = v
                       /\ v = IF start < last THEN last - start ELSE 0
                       /\ \A i \in 1..v : whole[i] = text[start + i]
  <2> HIDE DEF last
  <2>1. \A i \in start + 1..last : text[i] \in Cell
    BY <1>3, <1>4
  <2>2. /\ whole \in Seq(Cell)
        /\ Len(whole) = IF start + 1 <= last THEN last - (start + 1) + 1 ELSE 0
        /\ \A i \in 1..last - (start + 1) + 1 : whole[i] = text[(start + 1) + i - 1]
    <3>1. PICK first \in Int : first = start + 1
      OBVIOUS
    <3>2. last \in Int /\ \A i \in first..last : text[i] \in Cell
      BY <1>4, <2>1, <3>1
    <3>3. /\ SubSeq(text, first, last) \in Seq(Cell)
          /\ Len(SubSeq(text, first, last)) = IF first <= last THEN last - first + 1 ELSE 0
          /\ \A i \in 1..last - first + 1 : SubSeq(text, first, last)[i] = text[first + i - 1]
      <4> HIDE DEF stops, stop, whole
      <4> QED BY ONLY <3>1, <3>2, SubSeqProperties
    <3> QED BY <3>1, <3>3
  <2> DEFINE v == IF start < last THEN last - start ELSE 0
  <2>3. v \in Nat /\ v = IF start + 1 <= last THEN last - (start + 1) + 1 ELSE 0
    BY <1>4
  <2>4. ASSUME NEW i \in 1..v PROVE whole[i] = text[start + i]
    <3>1. i \in 1..last - (start + 1) + 1 /\ (start + 1) + i - 1 = start + i
      BY <1>4
    <3> QED BY <2>2, <3>1
  <2> HIDE DEF whole
  <2> QED BY <2>2, <2>3, <2>4 DEF Texts
<1> HIDE DEF whole
<1>7. CASE start + size < n /\ stops # {}
  <2>1. stop \in stops
    <3>1. stops \in SUBSET (1..v)
      BY <1>6
    <3> HIDE DEF stops
    <3>2. \E k \in stops : \A j \in stops : j <= k
      BY <1>7, <3>1, Greatest
    <3> QED BY <3>2
  <2>2. PICK w \in 1..v : w = stop /\ w - 1 > size2 /\ w <= v - 1
    <3> HIDE DEF stop
    <3>1. PICK k \in 1..Len(whole) - 1 : k = stop /\ k - 1 > size \div 2
      BY <2>1
    <3>2. k \in 1..v /\ k <= v - 1
      BY <1>6, <3>1
    <3> HIDE DEF stops
    <3> QED BY <1>5, <3>1, <3>2
  <2> HIDE DEF stops, stop
  <2>3. \A i \in 1..w : whole[i] \in Cell
    <3>1. \A i \in 1..v : whole[i] \in Cell
      BY <1>6, ElementOfSeq DEF Texts
    <3> QED BY <3>1
  <2>4. /\ SubSeq(whole, 1, w) \in Seq(Cell)
        /\ Len(SubSeq(whole, 1, w)) = IF 1 <= w THEN w - 1 + 1 ELSE 0
        /\ \A i \in 1..w - 1 + 1 : SubSeq(whole, 1, w)[i] = whole[1 + i - 1]
    BY <2>3, SubSeqProperties
  <2>5. Len(SubSeq(whole, 1, w)) = w
    BY <2>4
  <2>6. ASSUME NEW i \in 1..w PROVE SubSeq(whole, 1, w)[i] = text[start + i]
    <3>1. i \in 1..w - 1 + 1 /\ 1 + i - 1 = i /\ i \in 1..v
      OBVIOUS
    <3> QED BY <1>6, <2>4, <3>1
  <2>7. Window(size) = SubSeq(whole, 1, w)
    BY <1>1, <1>7, <2>2
  <2>8. v = size
    BY <1>6, <1>7
  <2> QED BY <1>5, <1>7, <2>2, <2>4, <2>5, <2>6, <2>7, <2>8 DEF Texts, text
<1>8. CASE ~(start + size < n /\ stops # {})
  <2>1. Window(size) = whole
    BY <1>1, <1>8
  <2>2. IF start + size < n THEN v = size ELSE v = IF start < n THEN n - start ELSE 0
    BY <1>6
  <2> HIDE DEF stops, last
  <2> QED BY <1>5, <1>6, <2>1, <2>2 DEF text
<1> QED
  BY <1>7, <1>8

(* The next window starts later, and a stretch that is no longer than the    *)
(* overlap and one cell is in this window or from the next one's start on.   *)
LEMMA Gliding ==
    ASSUME queue \in Seq(Texts), queue # <<>>, start \in Nat, CHUNK_OVERLAP \in Nat,
           NEW size \in Nat, 2 * CHUNK_OVERLAP < size
    PROVE  /\ Window(size) \in Texts
           /\ Following(size) \in Nat
           /\ start < Following(size)
           /\ \A l : \A a, b \in Nat :
                 1 <= a /\ a <= b /\ b - a <= CHUNK_OVERLAP /\ Carries(Head(queue), start, l, a, b)
                 => \/ Carries(Window(size), 0, l, a, b)
                    \/ Following(size) < Len(Head(queue)) /\ Carries(Head(queue), Following(size), l, a, b)
<1>1. PICK n \in Nat : n = Len(Head(queue))
  BY HeadTailProperties, LenProperties DEF Texts
<1>2. /\ Window(size) \in Texts
      /\ \E w \in Nat :
            /\ Len(Window(size)) = w
            /\ \A i \in 1..w : Window(size)[i] = Head(queue)[start + i]
            /\ IF start + size < n THEN size \div 2 < w /\ w <= size
               ELSE w = IF start < n THEN n - start ELSE 0
  <2>1. size \in Nat \ {0}
    OBVIOUS
  <2> QED BY <1>1, <2>1, Windowed
<1>3. PICK w \in Nat : /\ Len(Window(size)) = w
                       /\ \A i \in 1..w : Window(size)[i] = Head(queue)[start + i]
                       /\ IF start + size < n THEN size \div 2 < w /\ w <= size
                          ELSE w = IF start < n THEN n - start ELSE 0
  BY <1>2
<1>4. Following(size) = (IF start + size < n THEN start + w ELSE start + size) - CHUNK_OVERLAP
  BY <1>1, <1>3 DEF Following, WindowEnd
<1>5. CHUNK_OVERLAP <= size \div 2 /\ CHUNK_OVERLAP < size
  OBVIOUS
<1>6. PICK f \in Nat : f = Following(size) /\ start < f
  BY <1>3, <1>4, <1>5
<1>7. ASSUME NEW l, NEW a \in Nat, NEW b \in Nat, 1 <= a, a <= b, b - a <= CHUNK_OVERLAP,
             Carries(Head(queue), start, l, a, b)
      PROVE  \/ Carries(Window(size), 0, l, a, b)
             \/ Following(size) < Len(Head(queue)) /\ Carries(Head(queue), Following(size), l, a, b)
  <2>1. PICK k \in Int : start < k + a /\ k + b <= n /\ \A o \in a..b : Head(queue)[k + o] = <<l, o>>
    BY <1>1, <1>7 DEF Carries
  <2>2. CASE k + b <= start + w
    <3>1. k - start \in Int /\ 0 < (k - start) + a /\ (k - start) + b <= w
      BY <2>1, <2>2
    <3>2. ASSUME NEW o \in a..b PROVE Window(size)[(k - start) + o] = <<l, o>>
      <4>1. (k - start) + o \in 1..w /\ start + ((k - start) + o) = k + o
        BY <2>1, <2>2
      <4> QED BY <1>3, <2>1, <4>1
    <3> QED BY <1>3, <3>1, <3>2 DEF Carries
  <2>3. CASE ~(k + b <= start + w)
    <3>1. start + size < n
      BY <1>3, <2>1, <2>3
    <3>2. f = start + w - CHUNK_OVERLAP
      BY <1>4, <1>6, <3>1
    <3>3. f < k + a
      BY <1>7, <2>3, <3>2
    <3>4. f < n
      BY <2>1, <3>3, <1>7
    <3>5. Carries(Head(queue), f, l, a, b)
      BY <1>1, <2>1, <3>3 DEF Carries
    <3> QED BY <1>1, <1>6, <3>4, <3>5
  <2> QED BY <2>2, <2>3
<1> QED
  BY <1>2, <1>6, <1>7

-----------------------------------------------------------------------------
(* The texts a loop goes through, the first of them from its cell s on.      *)

AmongAhead(texts, s, l, a, b) ==
    \E i \in 1..Len(texts) : Carries(texts[i], IF i = 1 THEN s ELSE 0, l, a, b)

(* Texts none of which is begun.                                             *)
LEMMA AheadWhole ==
    ASSUME NEW texts, NEW l, NEW a \in Nat, NEW b \in Nat, Among(texts, l, a, b)
    PROVE  AmongAhead(texts, 0, l, a, b)
  BY DEF Among, AmongAhead

(* The first of the texts, and the others.                                   *)
LEMMA AheadNext ==
    ASSUME NEW texts \in Seq(Texts), texts # <<>>, NEW s \in Nat
    PROVE  /\ Head(texts) \in Texts
           /\ Tail(texts) \in Seq(Texts)
           /\ Tail(texts) # texts
           /\ \A l : \A a, b \in Nat :
                 /\ AmongAhead(texts, s, l, a, b) => Carries(Head(texts), s, l, a, b) \/ Among(Tail(texts), l, a, b)
                 /\ Carries(Head(texts), s, l, a, b) \/ Among(Tail(texts), l, a, b) => AmongAhead(texts, s, l, a, b)
<1>1. PICK n \in Nat \ {0} : n = Len(texts)
  BY EmptySeq
<1>2. /\ Head(texts) \in Texts
      /\ Tail(texts) \in Seq(Texts)
      /\ Len(Tail(texts)) = n - 1
      /\ \A i \in 1..n - 1 : Tail(texts)[i] = texts[i + 1]
  BY <1>1, HeadTailProperties
<1>3. Head(texts) = texts[1]
  OBVIOUS
<1>4. Tail(texts) # texts
  BY <1>1, <1>2
<1>5. ASSUME NEW l, NEW a \in Nat, NEW b \in Nat, AmongAhead(texts, s, l, a, b)
      PROVE  Carries(Head(texts), s, l, a, b) \/ Among(Tail(texts), l, a, b)
  <2>1. PICK i \in 1..n : Carries(texts[i], IF i = 1 THEN s ELSE 0, l, a, b)
    BY <1>1, <1>5 DEF AmongAhead
  <2>2. CASE i = 1
    BY <1>3, <2>1, <2>2
  <2>3. CASE i # 1
    <3>1. i - 1 \in 1..n - 1 /\ (i - 1) + 1 = i
      BY <2>3
    <3>2. Tail(texts)[i - 1] = texts[i]
      BY <1>2, <3>1
    <3>3. Carries(Tail(texts)[i - 1], 0, l, a, b)
      BY <2>1, <2>3, <3>2
    <3> QED BY <1>2, <3>1, <3>3 DEF Among
  <2> QED BY <2>2, <2>3
<1>6. ASSUME NEW l, NEW a \in Nat, NEW b \in Nat, Carries(Head(texts), s, l, a, b)
      PROVE  AmongAhead(texts, s, l, a, b)
  <2>1. 1 \in 1..n
    BY <1>1
  <2> QED BY <1>1, <1>3, <1>6, <2>1 DEF AmongAhead
<1>7. ASSUME NEW l, NEW a \in Nat, NEW b \in Nat, Among(Tail(texts), l, a, b)
      PROVE  AmongAhead(texts, s, l, a, b)
  <2>1. PICK i \in 1..n - 1 : Carries(Tail(texts)[i], 0, l, a, b)
    BY <1>2, <1>7 DEF Among
  <2>2. i + 1 \in 1..n /\ i + 1 # 1
    BY <1>1
  <2>3. Tail(texts)[i] = texts[i + 1]
    BY <1>2
  <2>4. Carries(texts[i + 1], IF i + 1 = 1 THEN s ELSE 0, l, a, b)
    BY <2>1, <2>2, <2>3
  <2> QED BY <1>1, <2>2, <2>4 DEF AmongAhead
<1> QED
  BY <1>2, <1>4, <1>5, <1>6, <1>7

(* Chunks. *)

Chunked == [text : Texts, type : ChunkTypes, parent : Nat]

AmongChunks(made, l, a, b) == \E i \in 1..Len(made) : Carries(made[i].text, 0, l, a, b)

(* One more chunk.                                                           *)
LEMMA ChunksMore ==
    ASSUME NEW made \in Seq(Chunked), NEW chunk \in Chunked
    PROVE  /\ Append(made, chunk) \in Seq(Chunked)
           /\ \A l : \A a, b \in Nat :
                 AmongChunks(made, l, a, b) \/ Carries(chunk.text, 0, l, a, b)
                 => AmongChunks(Append(made, chunk), l, a, b)
<1>1. PICK n \in Nat : n = Len(made)
  BY LenProperties
<1>2. /\ Append(made, chunk) \in Seq(Chunked)
      /\ Len(Append(made, chunk)) = n + 1
      /\ \A i \in 1..n : Append(made, chunk)[i] = made[i]
      /\ Append(made, chunk)[n + 1] = chunk
  BY <1>1, AppendProperties
<1>3. \A i \in 1..n : i \in 1..n + 1
  BY <1>1
<1>4. n + 1 \in 1..n + 1
  BY <1>1
<1>5. ASSUME NEW l, NEW a \in Nat, NEW b \in Nat, AmongChunks(made, l, a, b)
      PROVE  AmongChunks(Append(made, chunk), l, a, b)
  BY <1>1, <1>2, <1>3, <1>5 DEF AmongChunks
<1>6. ASSUME NEW l, NEW a \in Nat, NEW b \in Nat, Carries(chunk.text, 0, l, a, b)
      PROVE  AmongChunks(Append(made, chunk), l, a, b)
  BY <1>1, <1>2, <1>4, <1>6 DEF AmongChunks
<1> QED
  BY <1>2, <1>5, <1>6

(* Every text has a type of chunks.                                          *)
LEMMA Typed == ASSUME NEW text PROVE Type(text) \in ChunkTypes
  BY DEF Type, ChunkTypes

-----------------------------------------------------------------------------
(* The chunker. *)

Shaped ==
    /\ doc \in Documents
    /\ phase \in {"begin", "sections", "windows", "merge", "types", "done"}
    /\ line \in Nat \ {0}
    /\ in_table \in BOOLEAN /\ in_faq \in BOOLEAN
    /\ current \in Texts
    /\ queue \in Seq(Texts) /\ start \in Nat
    /\ pieces \in Seq(Texts)
    /\ parent \in Nat
    /\ chunks \in Seq(Chunked)

(* What each loop leaves behind, and that it stands within a text only if    *)
(* that text is to be cut.                                                   *)
Tidy ==
    /\ phase = "begin" => line = 1
    /\ phase \in {"begin", "sections", "done"} => queue = <<>>
    /\ phase \in {"begin", "windows", "types", "done"} => current = <<>>
    /\ phase \in {"begin", "types", "done"} => pieces = <<>>
    /\ start > 0 =>
          /\ queue # <<>>
          /\ \/ phase = "windows" /\ MAX_CHUNK_SIZE < Len(Head(queue))
             \/ phase = "types" /\ CHUNK_SIZE_BY_TYPE[Type(Head(queue))] < Len(Head(queue))

(* A stretch of a line that no cut tears: it is no longer than the overlap   *)
(* and one cell more.                                                        *)
Stretched(l, a, b) ==
    /\ l \in Content
    /\ a \in Nat /\ b \in Nat
    /\ 1 <= a /\ a <= b /\ b <= doc.lines[l].length /\ b - a <= CHUNK_OVERLAP

Somewhere(l, a, b) ==
    \/ Among(pieces, l, a, b)
    \/ Carries(current, 0, l, a, b)
    \/ AmongAhead(queue, start, l, a, b)
    \/ AmongChunks(chunks, l, a, b)

(* Every such stretch of the lines a loop has come to is somewhere.          *)
Preserved ==
    phase # "begin" =>
        \A l, a, b : Stretched(l, a, b) /\ (phase = "sections" => l < line) => Somewhere(l, a, b)

Intact == Shaped /\ Tidy /\ Preserved

(* The stretches are those of the document.                                  *)
LEMMA StretchedOf ==
    ASSUME UNCHANGED doc, NEW l, NEW a, NEW b PROVE Stretched(l, a, b)' <=> Stretched(l, a, b)
  BY DEF Stretched, Content

(* A text that fits goes to the types, another one to the sections.          *)
LEMMA BeginStep == ASSUME Intact, Begin PROVE Intact'
<1>1. /\ Text \in Texts
      /\ \A l \in 1..Len(doc.lines) : \A a, b \in Nat :
            1 <= a /\ a <= b /\ b <= doc.lines[l].length => Carries(Text, 0, l, a, b)
  BY TextHolds DEF Intact, Shaped
<1>2. \A l, a, b : Stretched(l, a, b) => Carries(Text, 0, l, a, b) /\ 1 <= a /\ a <= b /\ a \in Nat /\ b \in Nat
  BY <1>1 DEF Stretched, Content
<1>3. /\ phase = "begin" /\ start = 0 /\ queue = <<>> /\ current = <<>> /\ pieces = <<>> /\ line = 1
      /\ UNCHANGED <<doc, line, in_table, in_faq, current, start, pieces, parent, chunks>>
  BY DEF Intact, Shaped, Tidy, Begin, section
<1>4. CASE Text = <<>>
  <2>1. phase' = "done" /\ UNCHANGED queue
    BY <1>4 DEF Begin
  <2>2. \A l, a, b : ~Stretched(l, a, b)
    BY <1>2, <1>4, HeldNowhere
  <2>3. Preserved'
    BY <1>3, <2>2, StretchedOf DEF Preserved
  <2> QED BY <1>3, <2>1, <2>3 DEF Intact, Shaped, Tidy
<1>5. CASE Text # <<>> /\ Fits(Text)
  <2>1. phase' = "types" /\ queue' = <<Text>>
    BY <1>5 DEF Begin
  <2>2. <<Text>> \in Seq(Texts)
    BY <1>1, AmongOne
  <2>3. Preserved'
    <3>1. SUFFICES ASSUME NEW l, NEW a, NEW b, Stretched(l, a, b) PROVE AmongAhead(queue', start', l, a, b)
      BY <1>3, StretchedOf DEF Preserved, Somewhere
    <3>2. Among(<<Text>>, l, a, b)
      BY <1>1, <1>2, <3>1, AmongOne
    <3> QED BY <1>2, <1>3, <2>1, <3>1, <3>2, AheadWhole
  <2> QED BY <1>3, <2>1, <2>2, <2>3 DEF Intact, Shaped, Tidy
<1>6. CASE Text # <<>> /\ ~Fits(Text)
  <2>1. phase' = "sections" /\ UNCHANGED queue
    BY <1>6 DEF Begin
  <2>2. Preserved'
    <3>1. \A l : l \in Content => ~(l < 1)
      BY DEF Content
    <3> QED BY <1>3, <2>1, <3>1, StretchedOf DEF Preserved, Stretched
  <2> QED BY <1>3, <2>1, <2>2 DEF Intact, Shaped, Tidy
<1> QED
  BY <1>4, <1>5, <1>6
(* The section in hand goes to the pieces, unless there is none.             *)
LEMMA Pushed ==
    ASSUME Shaped, NEW text \in Texts
    PROVE  /\ Push(text) \in Seq(Texts)
           /\ \A l : \A a, b \in Nat :
                 1 <= a /\ a <= b /\ (Among(pieces, l, a, b) \/ Carries(text, 0, l, a, b))
                 => Among(Push(text), l, a, b)
<1>1. pieces \in Seq(Texts)
  BY DEF Shaped
<1>2. CASE text = <<>>
  <2>1. Push(text) = pieces
    BY <1>2 DEF Push
  <2> QED BY <1>1, <1>2, <2>1, HeldNowhere
<1>3. CASE text # <<>>
  <2>1. Push(text) = Append(pieces, text)
    BY <1>3 DEF Push
  <2> QED BY <1>1, <2>1, AmongMore
<1> QED
  BY <1>2, <1>3

(* What the pieces and the section in hand hold.                             *)
Gathered(l, a, b) == Among(pieces, l, a, b) \/ Carries(current, 0, l, a, b)

(* A line that joins the section, or starts the next one, is gathered, and   *)
(* nothing that was gathered is lost.                                        *)
Gathers(text) ==
    /\ current' \in Texts /\ pieces' \in Seq(Texts)
    /\ \A l : \A a, b \in Nat :
          1 <= a /\ a <= b /\ (Gathered(l, a, b) \/ Carries(text, 0, l, a, b)) => Gathered(l, a, b)'

(* A text joins the section in hand,                                         *)
LEMMA ExtendingGathers ==
    ASSUME Shaped, NEW text \in Texts, current' = current \o text, UNCHANGED pieces
    PROVE  Gathers(text)
<1>1. current \in Texts /\ pieces \in Seq(Texts)
  BY DEF Shaped
<1>2. current' \in Texts
  BY <1>1, ConcatProperties DEF Texts
<1>3. ASSUME NEW l, NEW a \in Nat, NEW b \in Nat, 1 <= a, a <= b,
             Gathered(l, a, b) \/ Carries(text, 0, l, a, b)
      PROVE  Gathered(l, a, b)'
  BY <1>1, <1>3, HeldFirst, HeldSecond DEF Gathered
<1> QED
  BY <1>1, <1>2, <1>3 DEF Gathers

(* ends it and starts the next one,                                          *)
LEMMA ClosingGathers ==
    ASSUME Shaped, NEW text \in Texts, Closes(text)
    PROVE  Gathers(text)
<1>1. current \in Texts
  BY DEF Shaped
<1>2. pieces' = Push(current) /\ current' = text
  BY DEF Closes
<1>3. ASSUME NEW l, NEW a \in Nat, NEW b \in Nat, 1 <= a, a <= b,
             Gathered(l, a, b) \/ Carries(text, 0, l, a, b)
      PROVE  Gathered(l, a, b)'
  BY <1>1, <1>2, <1>3, Pushed DEF Gathered
<1>4. pieces' \in Seq(Texts)
  BY <1>1, <1>2, Pushed
<1> QED
  BY <1>2, <1>3, <1>4 DEF Gathers

(* or joins it, unless it is a table.                                        *)
LEMMA JoiningGathers ==
    ASSUME Shaped, line \in 1..Len(doc.lines), Joins
    PROVE  Gathers(Line(line))
<1>1. Line(line) \in Texts
  BY LineOf DEF Shaped
<1>2. CASE in_table
  <2>1. <<>> \o Line(line) = Line(line)
    BY <1>1, ConcatEmptySeq DEF Texts
  <2>2. Closes(Line(line))
    BY <1>2, <2>1 DEF Joins, Open, Closes
  <2> QED BY <1>1, <2>2, ClosingGathers
<1>3. CASE ~in_table
  BY <1>1, <1>3, ExtendingGathers DEF Joins, Open
<1> QED
  BY <1>2, <1>3

(* An answer ends its section.                                               *)
LEMMA AnswerGathers ==
    ASSUME Shaped, line \in 1..Len(doc.lines), Answer
    PROVE  Gathers(Line(line))
<1>1. Line(line) \in Texts /\ current \in Texts /\ pieces \in Seq(Texts) /\ <<>> \in Texts
  BY LineOf, EmptySeq DEF Shaped, Texts
<1> DEFINE text == Open \o Line(line)
           made == IF in_table THEN Push(current) ELSE pieces
<1>2. current' = <<>> /\ pieces' = Append(made, text)
  BY DEF Answer
<1>3. Open \in Texts
  BY <1>1 DEF Open
<1>4. text \in Texts
  BY <1>1, <1>3, ConcatProperties DEF Texts
<1>5. made \in Seq(Texts)
  BY <1>1, Pushed
<1>6. pieces' \in Seq(Texts)
  BY <1>2, <1>4, <1>5, AmongMore
<1>7. ASSUME NEW l, NEW a \in Nat, NEW b \in Nat, 1 <= a, a <= b,
             Gathered(l, a, b) \/ Carries(Line(line), 0, l, a, b)
      PROVE  Gathered(l, a, b)'
  <2>1. Among(made, l, a, b) \/ Carries(text, 0, l, a, b)
    <3>1. CASE Carries(Line(line), 0, l, a, b)
      BY <1>1, <1>3, <1>7, <3>1, HeldSecond
    <3>2. CASE Among(pieces, l, a, b)
      BY <1>1, <1>7, <3>2, Pushed
    <3>3. CASE Carries(current, 0, l, a, b)
      <4>1. CASE in_table
        BY <1>1, <1>7, <3>3, <4>1, Pushed
      <4>2. CASE ~in_table
        <5>1. Open = current
          BY <4>2 DEF Open
        <5> QED BY <1>1, <1>7, <3>3, <5>1, HeldFirst
      <4> QED BY <4>1, <4>2
    <3> QED BY <1>7, <3>1, <3>2, <3>3 DEF Gathered
  <2> HIDE DEF made, text
  <2>2. Among(Append(made, text), l, a, b)
    BY <1>4, <1>5, <2>1, AmongMore
  <2> QED BY <1>2, <2>2 DEF Gathered
<1> QED
  BY <1>1, <1>2, <1>6, <1>7 DEF Gathers

(* Each line but a section break is gathered.                                *)
LEMMA LineGathers ==
    ASSUME Shaped, line \in 1..Len(doc.lines), TableRow \/ Question \/ Answer \/ OtherLine
    PROVE  \E text \in Texts : Gathers(text) /\ (line \in Content => text = Line(line))
<1>1. Line(line) \in Texts /\ <<>> \in Texts
  BY LineOf, EmptySeq DEF Shaped, Texts
<1>2. CASE TableRow
  <2>1. \/ current' = current \o Line(line) /\ UNCHANGED pieces
        \/ Closes(Line(line))
    BY <1>2 DEF TableRow, Closes
  <2> QED BY <1>1, <2>1, ExtendingGathers, ClosingGathers
<1>3. CASE Question
  <2>1. Joins \/ Closes(Line(line))
    BY <1>3 DEF Question
  <2> QED BY <1>1, <2>1, JoiningGathers, ClosingGathers
<1>4. CASE Answer
  BY <1>1, <1>4, AnswerGathers
<1>5. CASE OtherLine
  <2>1. \/ Joins \/ Closes(Line(line))
        \/ Closes(<<>>) /\ doc.lines[line].kind = "break"
    BY <1>5 DEF OtherLine
  <2>2. doc.lines[line].kind = "break" => line \notin Content
    BY DEF Content
  <2> QED BY <1>1, <2>1, <2>2, JoiningGathers, ClosingGathers
<1> QED
  BY <1>2, <1>3, <1>4, <1>5

(* A line is gathered.                                                       *)
LEMMA NextLineStep == ASSUME Intact, NextLine PROVE Intact'
<1>1. PICK n \in Nat : n = Len(doc.lines)
  BY DocumentAssumption, LenProperties DEF Intact, Shaped
<1>2. /\ phase = "sections" /\ line \in 1..n
      /\ line' = line + 1
      /\ UNCHANGED <<doc, phase, queue, start, parent, chunks>>
      /\ queue = <<>> /\ start = 0
  BY <1>1 DEF Intact, Shaped, Tidy, NextLine
<1>3. in_table' \in BOOLEAN /\ in_faq' \in BOOLEAN
  BY DEF NextLine, TableRow, Question, Answer, OtherLine, Intact, Shaped
<1>4. PICK text \in Texts : Gathers(text) /\ (line \in Content => text = Line(line))
  <2>1. TableRow \/ Question \/ Answer \/ OtherLine
    BY DEF NextLine
  <2> QED BY <1>1, <1>2, <2>1, LineGathers DEF Intact
<1>5. Shaped'
  BY <1>2, <1>3, <1>4 DEF Gathers, Intact, Shaped
<1>6. Tidy'
  BY <1>2 DEF Intact, Tidy
<1>7. Preserved'
  <2>1. SUFFICES ASSUME NEW l, NEW a, NEW b, Stretched(l, a, b), l < line + 1
                 PROVE  Gathered(l, a, b)' \/ AmongChunks(chunks, l, a, b)
    BY <1>2, StretchedOf DEF Preserved, Somewhere, Gathered
  <2>2. a \in Nat /\ b \in Nat /\ 1 <= a /\ a <= b /\ l \in 1..n /\ l \in Content /\ b <= doc.lines[l].length
    BY <1>1, <2>1 DEF Stretched, Content
  <2>3. CASE l = line
    <3>1. Carries(text, 0, l, a, b)
      BY <1>1, <1>4, <2>2, <2>3, LineHolds DEF Intact, Shaped
    <3> QED BY <1>4, <2>2, <3>1 DEF Gathers
  <2>4. CASE l # line
    <3>1. l < line
      BY <1>2, <2>1, <2>2, <2>4
    <3>2. Somewhere(l, a, b)
      BY <1>2, <2>1, <3>1 DEF Intact, Preserved
    <3>3. ~AmongAhead(queue, start, l, a, b)
      <4>1. Len(<<>>) = 0 /\ 1..0 = {}
        OBVIOUS
      <4> QED BY <1>2, <4>1 DEF AmongAhead
    <3>4. Gathered(l, a, b) \/ AmongChunks(chunks, l, a, b)
      BY <3>2, <3>3 DEF Somewhere, Gathered
    <3> QED BY <1>4, <2>2, <3>4 DEF Gathers
  <2> QED BY <2>3, <2>4
<1> QED
  BY <1>5, <1>6, <1>7 DEF Intact
(* What is somewhere when nothing is left of a loop.                         *)
LEMMA NoneAhead == ASSUME NEW s, NEW l, NEW a, NEW b PROVE ~AmongAhead(<<>>, s, l, a, b)
<1>1. Len(<<>>) = 0 /\ 1..0 = {}
  OBVIOUS
<1> QED
  BY <1>1 DEF AmongAhead

(* The sections go to the windows.                                           *)
LEMMA SectionedStep == ASSUME Intact, Sectioned PROVE Intact'
<1>1. PICK n \in Nat : n = Len(doc.lines)
  BY DocumentAssumption, LenProperties DEF Intact, Shaped
<1>2. /\ phase = "sections" /\ phase' = "windows" /\ n < line /\ line \in Nat
      /\ queue' = Push(current) /\ current' = <<>> /\ pieces' = <<>>
      /\ UNCHANGED <<doc, line, in_table, in_faq, start, parent, chunks>>
      /\ queue = <<>> /\ start = 0
      /\ current \in Texts /\ pieces \in Seq(Texts)
      /\ <<>> \in Texts /\ <<>> \in Seq(Texts)
  BY <1>1, EmptySeq DEF Intact, Shaped, Tidy, Sectioned, section, Texts
<1>3. Push(current) \in Seq(Texts)
  BY <1>2, Pushed DEF Intact
<1>4. Shaped'
  BY <1>2, <1>3 DEF Intact, Shaped
<1>5. Tidy'
  BY <1>2 DEF Tidy
<1>6. Preserved'
  <2>1. SUFFICES ASSUME NEW l, NEW a, NEW b, Stretched(l, a, b)
                 PROVE  AmongAhead(queue', 0, l, a, b) \/ AmongChunks(chunks, l, a, b)
    BY <1>2, StretchedOf DEF Preserved, Somewhere
  <2>2. a \in Nat /\ b \in Nat /\ 1 <= a /\ a <= b /\ l < line
    BY <1>1, <1>2, <2>1 DEF Stretched, Content
  <2>3. Somewhere(l, a, b)
    BY <1>2, <2>1, <2>2 DEF Intact, Preserved
  <2>4. Among(pieces, l, a, b) \/ Carries(current, 0, l, a, b) \/ AmongChunks(chunks, l, a, b)
    BY <1>2, <2>3, NoneAhead DEF Somewhere
  <2>5. CASE Among(pieces, l, a, b) \/ Carries(current, 0, l, a, b)
    <3>1. Among(queue', l, a, b)
      BY <1>2, <2>2, <2>5, Pushed DEF Intact
    <3> QED BY <2>2, <3>1, AheadWhole
  <2> QED BY <2>4, <2>5
<1> QED
  BY <1>4, <1>5, <1>6 DEF Intact

(* A window of the first text goes on with what is ahead of it.              *)
LEMMA Advancing ==
    ASSUME Intact, queue # <<>>, NEW size \in Nat, 2 * CHUNK_OVERLAP < size, Advance(size)
    PROVE  /\ Window(size) \in Texts
           /\ queue' \in Seq(Texts) /\ start' \in Nat
           /\ start' > 0 => queue' = queue
           /\ queue' = queue => start < start'
           /\ \A l, a, b : Stretched(l, a, b) /\ AmongAhead(queue, start, l, a, b) =>
                 Carries(Window(size), 0, l, a, b) \/ AmongAhead(queue', start', l, a, b)
<1>1. queue \in Seq(Texts) /\ start \in Nat /\ CHUNK_OVERLAP \in Nat
  BY SizeAssumption DEF Intact, Shaped
<1>2. Window(size) \in Texts /\ Following(size) \in Nat /\ start < Following(size)
  BY <1>1, Gliding
<1>3. Tail(queue) \in Seq(Texts) /\ Tail(queue) # queue
  BY <1>1, AheadNext
<1>4. \/ Following(size) < Len(Head(queue)) /\ start' = Following(size) /\ queue' = queue
      \/ ~(Following(size) < Len(Head(queue))) /\ start' = 0 /\ queue' = Tail(queue)
  BY DEF Advance
<1>5. ASSUME NEW l, NEW a, NEW b, Stretched(l, a, b), AmongAhead(queue, start, l, a, b)
      PROVE  Carries(Window(size), 0, l, a, b) \/ AmongAhead(queue', start', l, a, b)
  <2>1. a \in Nat /\ b \in Nat /\ 1 <= a /\ a <= b /\ b - a <= CHUNK_OVERLAP
    BY <1>5 DEF Stretched
  <2>2. CASE Among(Tail(queue), l, a, b)
    <3>1. CASE queue' = queue
      BY <1>1, <1>2, <1>3, <1>4, <2>1, <2>2, <3>1, AheadNext
    <3>2. CASE queue' # queue
      BY <1>4, <2>1, <2>2, <3>2, AheadWhole
    <3> QED BY <3>1, <3>2
  <2>3. CASE Carries(Head(queue), start, l, a, b)
    <3>1. \/ Carries(Window(size), 0, l, a, b)
          \/ Following(size) < Len(Head(queue)) /\ Carries(Head(queue), Following(size), l, a, b)
      BY <1>1, <2>1, <2>3, Gliding
    <3>2. CASE Following(size) < Len(Head(queue)) /\ Carries(Head(queue), Following(size), l, a, b)
      <4>1. start' = Following(size) /\ queue' = queue
        BY <1>4, <3>2
      <4> QED BY <1>1, <1>2, <2>1, <3>2, <4>1, AheadNext
    <3> QED BY <3>1, <3>2
  <2> QED BY <1>1, <1>5, <2>1, <2>2, <2>3, AheadNext
<1> QED
  BY <1>1, <1>2, <1>3, <1>4, <1>5

(* A text that is not cut is taken whole.                                    *)
LEMMA Taking ==
    ASSUME Intact, queue # <<>>, start = 0, queue' = Tail(queue), UNCHANGED start
    PROVE  /\ Head(queue) \in Texts
           /\ queue' \in Seq(Texts) /\ queue' # queue
           /\ \A l, a, b : Stretched(l, a, b) /\ AmongAhead(queue, start, l, a, b) =>
                 Carries(Head(queue), 0, l, a, b) \/ AmongAhead(queue', start', l, a, b)
<1>1. queue \in Seq(Texts)
  BY DEF Intact, Shaped
<1>2. ASSUME NEW l, NEW a, NEW b, Stretched(l, a, b), AmongAhead(queue, start, l, a, b)
      PROVE  Carries(Head(queue), 0, l, a, b) \/ AmongAhead(queue', start', l, a, b)
  <2>1. a \in Nat /\ b \in Nat
    BY <1>2 DEF Stretched
  <2>2. Carries(Head(queue), 0, l, a, b) \/ Among(Tail(queue), l, a, b)
    BY <1>1, <1>2, <2>1, AheadNext
  <2> QED BY <2>1, <2>2, AheadWhole
<1> QED
  BY <1>1, <1>2, AheadNext

(* A window, or a whole section, is among the pieces.                        *)
LEMMA CutStep == ASSUME Intact, Cut PROVE Intact'
<1> DEFINE text == IF Len(Head(queue)) <= MAX_CHUNK_SIZE THEN Head(queue) ELSE Window(MAX_CHUNK_SIZE)
<1>1. /\ phase = "windows" /\ queue # <<>>
      /\ pieces' = Append(pieces, text)
      /\ UNCHANGED <<doc, phase, line, in_table, in_faq, current, parent, chunks>>
      /\ queue \in Seq(Texts) /\ start \in Nat /\ pieces \in Seq(Texts)
  BY DEF Intact, Shaped, Cut, section
<1>2. PICK n \in Nat : n = Len(Head(queue))
  BY <1>1, HeadTailProperties, LenProperties DEF Texts
<1>3. MAX_CHUNK_SIZE \in Nat /\ 2 * CHUNK_OVERLAP < MAX_CHUNK_SIZE
  BY SizeAssumption
<1>4. /\ text \in Texts
      /\ queue' \in Seq(Texts) /\ start' \in Nat
      /\ start' > 0 => queue' = queue /\ MAX_CHUNK_SIZE < n
      /\ \A l, a, b : Stretched(l, a, b) /\ AmongAhead(queue, start, l, a, b) =>
            Carries(text, 0, l, a, b) \/ AmongAhead(queue', start', l, a, b)
  <2>1. CASE Len(Head(queue)) <= MAX_CHUNK_SIZE
    <3>1. text = Head(queue) /\ queue' = Tail(queue) /\ UNCHANGED start
      BY <2>1 DEF Cut
    <3>2. start = 0
      BY <1>1, <1>2, <1>3, <2>1 DEF Intact, Tidy
    <3> HIDE DEF text
    <3> QED BY <1>1, <3>1, <3>2, Taking
  <2>2. CASE ~(Len(Head(queue)) <= MAX_CHUNK_SIZE)
    <3>1. text = Window(MAX_CHUNK_SIZE) /\ Advance(MAX_CHUNK_SIZE)
      BY <2>2 DEF Cut
    <3>2. MAX_CHUNK_SIZE < n
      BY <1>2, <1>3, <2>2
    <3> HIDE DEF text
    <3> QED BY <1>1, <1>3, <3>1, <3>2, Advancing
  <2> QED BY <2>1, <2>2
<1> HIDE DEF text
<1>5. Shaped'
  BY <1>1, <1>4, AmongMore DEF Intact, Shaped
<1>6. Tidy'
  BY <1>1, <1>2, <1>4 DEF Intact, Tidy
<1>7. Preserved'
  <2>1. SUFFICES ASSUME NEW l, NEW a, NEW b, Stretched(l, a, b) PROVE Somewhere(l, a, b)'
    BY <1>1, StretchedOf DEF Preserved
  <2>2. Somewhere(l, a, b) /\ a \in Nat /\ b \in Nat
    BY <1>1, <2>1 DEF Intact, Preserved, Stretched
  <2> QED BY <1>1, <1>4, <2>1, <2>2, AmongMore DEF Somewhere
<1> QED
  BY <1>5, <1>6, <1>7 DEF Intact
(* The pieces go to be merged.                                               *)
LEMMA AllCutStep == ASSUME Intact, AllCut PROVE Intact'
<1>1. /\ phase = "windows" /\ phase' = "merge"
      /\ queue' = pieces /\ pieces' = <<>>
      /\ UNCHANGED <<doc, line, in_table, in_faq, current, start, parent, chunks>>
      /\ queue = <<>> /\ start = 0 /\ current = <<>>
      /\ pieces \in Seq(Texts) /\ <<>> \in Seq(Texts)
  BY EmptySeq DEF Intact, Shaped, Tidy, AllCut, section
<1>2. Shaped'
  BY <1>1 DEF Intact, Shaped
<1>3. Tidy'
  BY <1>1 DEF Tidy
<1>4. Preserved'
  <2>1. SUFFICES ASSUME NEW l, NEW a, NEW b, Stretched(l, a, b)
                 PROVE  AmongAhead(pieces, 0, l, a, b) \/ AmongChunks(chunks, l, a, b)
    BY <1>1, StretchedOf DEF Preserved, Somewhere
  <2>2. Somewhere(l, a, b) /\ a \in Nat /\ b \in Nat /\ 1 <= a /\ a <= b
    BY <1>1, <2>1 DEF Intact, Preserved, Stretched
  <2> QED BY <1>1, <2>2, NoneAhead, HeldNowhere, AheadWhole DEF Somewhere
<1> QED
  BY <1>2, <1>3, <1>4 DEF Intact

(* The next text joins the chunk in hand, or starts the next one.            *)
LEMMA MergeStep == ASSUME Intact, Merge PROVE Intact'
<1>1. /\ phase = "merge" /\ queue # <<>> /\ queue' = Tail(queue)
      /\ UNCHANGED <<doc, phase, line, in_table, in_faq, start, parent, chunks>>
      /\ start = 0
      /\ queue \in Seq(Texts)
  BY DEF Intact, Shaped, Tidy, Merge, section
<1>2. /\ Head(queue) \in Texts
      /\ queue' \in Seq(Texts)
      /\ \A l, a, b : Stretched(l, a, b) /\ AmongAhead(queue, start, l, a, b) =>
            Carries(Head(queue), 0, l, a, b) \/ AmongAhead(queue', start', l, a, b)
  BY <1>1, Taking
<1>3. Gathers(Head(queue))
  <2>1. \/ current' = current \o Head(queue) /\ UNCHANGED pieces
        \/ Closes(Head(queue))
    BY DEF Merge
  <2> QED BY <1>2, <2>1, ExtendingGathers, ClosingGathers DEF Intact
<1>4. Shaped'
  BY <1>1, <1>2, <1>3 DEF Intact, Shaped, Gathers
<1>5. Tidy'
  BY <1>1 DEF Intact, Tidy
<1>6. Preserved'
  <2>1. SUFFICES ASSUME NEW l, NEW a, NEW b, Stretched(l, a, b) PROVE Somewhere(l, a, b)'
    BY <1>1, StretchedOf DEF Preserved
  <2>2. Somewhere(l, a, b) /\ a \in Nat /\ b \in Nat /\ 1 <= a /\ a <= b
    BY <1>1, <2>1 DEF Intact, Preserved, Stretched
  <2>3. Gathered(l, a, b) \/ Carries(Head(queue), 0, l, a, b) => Gathered(l, a, b)'
    BY <1>3, <2>2 DEF Gathers
  <2> QED BY <1>1, <1>2, <2>1, <2>2, <2>3 DEF Somewhere, Gathered
<1> QED
  BY <1>4, <1>5, <1>6 DEF Intact

(* What is merged goes to the types.                                         *)
LEMMA AllMergedStep == ASSUME Intact, AllMerged PROVE Intact'
<1>1. /\ phase = "merge" /\ phase' = "types"
      /\ queue' = Push(current) /\ current' = <<>> /\ pieces' = <<>>
      /\ UNCHANGED <<doc, line, in_table, in_faq, start, parent, chunks>>
      /\ queue = <<>> /\ start = 0
      /\ current \in Texts /\ pieces \in Seq(Texts)
      /\ <<>> \in Texts /\ <<>> \in Seq(Texts)
  BY EmptySeq DEF Intact, Shaped, Tidy, AllMerged, section, Texts
<1>2. Push(current) \in Seq(Texts)
  BY <1>1, Pushed DEF Intact
<1>3. Shaped'
  BY <1>1, <1>2 DEF Intact, Shaped
<1>4. Tidy'
  BY <1>1 DEF Tidy
<1>5. Preserved'
  <2>1. SUFFICES ASSUME NEW l, NEW a, NEW b, Stretched(l, a, b)
                 PROVE  AmongAhead(queue', 0, l, a, b) \/ AmongChunks(chunks, l, a, b)
    BY <1>1, StretchedOf DEF Preserved, Somewhere
  <2>2. Somewhere(l, a, b) /\ a \in Nat /\ b \in Nat /\ 1 <= a /\ a <= b
    BY <1>1, <2>1 DEF Intact, Preserved, Stretched
  <2>3. Among(pieces, l, a, b) \/ Carries(current, 0, l, a, b) \/ AmongChunks(chunks, l, a, b)
    BY <1>1, <2>2, NoneAhead DEF Somewhere
  <2>4. CASE Among(pieces, l, a, b) \/ Carries(current, 0, l, a, b)
    <3>1. Among(queue', l, a, b)
      BY <1>1, <2>2, <2>4, Pushed DEF Intact
    <3> QED BY <2>2, <3>1, AheadWhole
  <2> QED BY <2>3, <2>4
<1> QED
  BY <1>3, <1>4, <1>5 DEF Intact

(* A window, or a whole text, is a chunk.                                    *)
LEMMA FinishStep == ASSUME Intact, Finish PROVE Intact'
<1> DEFINE limit == CHUNK_SIZE_BY_TYPE[Type(Head(queue))]
           text  == IF Len(Head(queue)) > limit THEN Window(limit) ELSE Head(queue)
<1>1. /\ phase = "types" /\ queue # <<>>
      /\ chunks' = Append(chunks, Chunk(text))
      /\ parent' = IF queue' = queue THEN parent ELSE parent + 1
      /\ UNCHANGED <<doc, phase, line, in_table, in_faq, current, pieces>>
      /\ queue \in Seq(Texts) /\ start \in Nat /\ chunks \in Seq(Chunked) /\ parent \in Nat
  BY DEF Intact, Shaped, Finish, section
<1>2. PICK n \in Nat : n = Len(Head(queue))
  BY <1>1, HeadTailProperties, LenProperties DEF Texts
<1>3. PICK size \in Nat : size = limit /\ 2 * CHUNK_OVERLAP < size
  BY SizeAssumption, Typed
<1>4. /\ text \in Texts
      /\ queue' \in Seq(Texts) /\ start' \in Nat
      /\ start' > 0 => queue' = queue /\ size < n
      /\ \A l, a, b : Stretched(l, a, b) /\ AmongAhead(queue, start, l, a, b) =>
            Carries(text, 0, l, a, b) \/ AmongAhead(queue', start', l, a, b)
  <2>1. CASE ~(n > size)
    <3>1. text = Head(queue) /\ queue' = Tail(queue) /\ UNCHANGED start
      BY <1>2, <1>3, <2>1 DEF Finish
    <3>2. start = 0
      BY <1>1, <1>2, <1>3, <2>1 DEF Intact, Tidy
    <3> HIDE DEF text, limit
    <3> QED BY <1>1, <3>1, <3>2, Taking
  <2>2. CASE n > size
    <3>1. text = Window(size) /\ Advance(size)
      BY <1>2, <1>3, <2>2 DEF Finish
    <3> HIDE DEF text, limit
    <3> QED BY <1>1, <1>3, <2>2, <3>1, Advancing
  <2> QED BY <2>1, <2>2
<1>5. Chunk(text) \in Chunked /\ Chunk(text).text = text
  BY <1>1, <1>4, Typed DEF Chunk, Chunked
<1>6. Tidy'
  <2>1. queue' = queue => Type(Head(queue))' = Type(Head(queue))
    BY <1>1 DEF Type, Shows, Begins, Kind
  <2>2. start' > 0 => queue' # <<>> /\ CHUNK_SIZE_BY_TYPE[Type(Head(queue))'] < Len(Head(queue'))
    BY <1>1, <1>2, <1>3, <1>4, <2>1
  <2> QED BY <1>1, <2>2 DEF Intact, Tidy
<1> HIDE DEF text, limit
<1>7. Shaped'
  <2>1. parent' \in Nat
    BY <1>1
  <2>2. chunks' \in Seq(Chunked)
    BY <1>1, <1>5, ChunksMore
  <2> QED BY <1>1, <1>4, <2>1, <2>2 DEF Intact, Shaped
<1>8. Preserved'
  <2>1. SUFFICES ASSUME NEW l, NEW a, NEW b, Stretched(l, a, b) PROVE Somewhere(l, a, b)'
    BY <1>1, StretchedOf DEF Preserved
  <2>2. Somewhere(l, a, b) /\ a \in Nat /\ b \in Nat
    BY <1>1, <2>1 DEF Intact, Preserved, Stretched
  <2>3. AmongChunks(chunks, l, a, b) \/ Carries(text, 0, l, a, b) => AmongChunks(chunks', l, a, b)
    BY <1>1, <1>5, <2>2, ChunksMore
  <2> QED BY <1>1, <1>4, <2>1, <2>2, <2>3 DEF Somewhere
<1> QED
  BY <1>6, <1>7, <1>8 DEF Intact

(* All that was ahead is in chunks.                                          *)
LEMMA FinishedStep == ASSUME Intact, Finished PROVE Intact'
<1>1. /\ phase = "types" /\ phase' = "done" /\ queue = <<>> /\ start = 0
      /\ UNCHANGED <<doc, line, in_table, in_faq, current, queue, start, pieces, parent, chunks>>
  BY DEF Intact, Shaped, Tidy, Finished, section
<1>2. Shaped' /\ Tidy'
  BY <1>1 DEF Intact, Shaped, Tidy
<1>3. Preserved'
  BY <1>1, StretchedOf DEF Intact, Preserved, Somewhere
<1> QED
  BY <1>2, <1>3 DEF Intact

(* And so every step of the chunker keeps all stretches.                     *)
LEMMA ChunkStepKeeps == ASSUME Intact, ChunkStep PROVE Intact'
  BY BeginStep, NextLineStep, SectionedStep, CutStep, AllCutStep, MergeStep, AllMergedStep, FinishStep,
     FinishedStep DEF ChunkStep

(* What does not touch the chunker keeps them, too.                          *)
LEMMA ChunkStutters == ASSUME Intact, UNCHANGED chunkVars PROVE Intact'
<1>1. UNCHANGED <<doc, phase, line, in_table, in_faq, current, queue, start, pieces, parent, chunks>>
  BY DEF chunkVars, section
<1>2. Shaped'
  BY <1>1 DEF Intact, Shaped
<1>3. Tidy'
  <2>1. Type(Head(queue))' = Type(Head(queue))
    BY <1>1 DEF Type, Shows, Begins, Kind
  <2> QED BY <1>1, <2>1 DEF Intact, Tidy
<1>4. Preserved'
  BY <1>1, StretchedOf DEF Intact, Preserved, Somewhere
<1> QED
  BY <1>2, <1>3, <1>4 DEF Intact
-----------------------------------------------------------------------------
(* The page. *)

(* A page is only stored once its document is all cut.                       *)
Paged == Intact /\ (stage # "chunk" => phase = "done")

(* A crawl that begins again finds nothing left over.                        *)
LEMMA RecrawlStep == ASSUME Paged, Recrawl PROVE Intact'
<1>1. /\ phase = "done" /\ phase' = "begin" /\ line' = 1 /\ in_table' = FALSE /\ in_faq' = FALSE
      /\ parent' = 0 /\ chunks' = <<>>
      /\ UNCHANGED <<current, queue, start, pieces>>
      /\ doc' \in Documents
  BY PagesAssumption DEF Paged, Recrawl
<1>2. current = <<>> /\ queue = <<>> /\ pieces = <<>> /\ start = 0
  BY <1>1 DEF Paged, Intact, Shaped, Tidy
<1>3. <<>> \in Seq(Chunked)
  BY EmptySeq
<1>4. Shaped'
  <2>1. in_table' \in BOOLEAN /\ in_faq' \in BOOLEAN
    BY <1>1
  <2>2. /\ phase' \in {"begin", "sections", "windows", "merge", "types", "done"}
        /\ line' \in Nat \ {0} /\ parent' \in Nat
    BY <1>1
  <2>3. /\ current' \in Texts /\ queue' \in Seq(Texts) /\ pieces' \in Seq(Texts)
        /\ start' \in Nat
    BY <1>1 DEF Paged, Intact, Shaped
  <2>4. chunks' \in Seq(Chunked)
    BY <1>1, <1>3
  <2> QED BY <1>1, <2>1, <2>2, <2>3, <2>4 DEF Shaped
<1>5. Tidy'
  BY <1>1, <1>2 DEF Tidy
<1> QED
  BY <1>1, <1>4, <1>5 DEF Intact, Preserved

(* The first crawl begins with nothing, either.                              *)
LEMMA CrawledInit == ProductsInit => Paged
<1> SUFFICES ASSUME ProductsInit PROVE Paged
  OBVIOUS
<1>1. PICK d \in Documents : Start(d)
  BY DEF ProductsInit, ChunkInit
<1>2. <<>> \in Texts /\ <<>> \in Seq(Texts) /\ <<>> \in Seq(Chunked)
  BY EmptySeq DEF Texts
<1>3. Shaped
  <2>1. in_table \in BOOLEAN /\ in_faq \in BOOLEAN
    BY <1>1 DEF Start
  <2>2. phase = "begin" /\ line = 1 /\ start = 0 /\ parent = 0 /\ doc \in Documents
    BY <1>1 DEF Start
  <2>3. current \in Texts /\ queue \in Seq(Texts) /\ pieces \in Seq(Texts) /\ chunks \in Seq(Chunked)
    BY <1>1, <1>2 DEF Start
  <2> QED BY <2>1, <2>2, <2>3 DEF Shaped
<1>4. Tidy /\ Preserved
  BY <1>1 DEF Start, Tidy, Preserved
<1> QED
  BY <1>3, <1>4 DEF Paged, Intact, ProductsInit

(* Storing and reading a page leaves its document as it was cut.             *)
LEMMA CrawledKept == Paged /\ [ProductsNext]_productVars => Paged'
<1> SUFFICES ASSUME Paged, [ProductsNext]_productVars PROVE Paged'
  OBVIOUS
<1>1. CASE CutChunks
  BY <1>1, ChunkStepKeeps DEF Paged, CutChunks
<1>2. CASE Recrawl
  <2>1. stage' = "chunk"
    BY <1>2 DEF Recrawl
  <2> QED BY <1>2, <2>1, RecrawlStep DEF Paged
<1>3. CASE Embed \/ Upsert \/ Ingested \/ IngestFails \/ LogPage \/ Track \/ (stage # "chunk" /\ Reads)
           \/ UNCHANGED productVars
  <2>1. UNCHANGED chunkVars /\ UNCHANGED phase
    BY <1>3 DEF Embed, Upsert, Ingested, IngestFails, LogPage, Track, Reads, productVars, chunkVars
  <2>2. Intact'
    BY <2>1, ChunkStutters DEF Paged
  <2>3. stage' # "chunk" => phase = "done"
    BY <1>3 DEF Paged, Embed, Upsert, Ingested, IngestFails, LogPage, Track, Reads, productVars
  <2> QED BY <2>1, <2>2, <2>3 DEF Paged
<1> QED
  BY <1>1, <1>2, <1>3 DEF ProductsNext

(* A document is cut whole at every crawl.                                   *)
LEMMA CrawledInvariant == ProductsSpec => []Paged
  BY CrawledInit, CrawledKept, PTL DEF ProductsSpec

(* Once a document is cut, what was somewhere is in a chunk.                 *)
LEMMA InAChunk ==
    ASSUME Intact, phase = "done", NEW l, NEW a, NEW b, Stretched(l, a, b)
    PROVE  \E i \in 1..Len(chunks) : \A o \in a..b : <<l, o>> \in Cells(i)
<1>1. Somewhere(l, a, b) /\ a \in Nat /\ b \in Nat /\ 1 <= a /\ a <= b
  BY DEF Intact, Preserved, Stretched
<1>2. current = <<>> /\ queue = <<>> /\ pieces = <<>>
  BY DEF Intact, Tidy
<1>3. AmongChunks(chunks, l, a, b)
  BY <1>1, <1>2, NoneAhead, HeldNowhere, AmongNone DEF Somewhere
<1>4. PICK i \in 1..Len(chunks) : Carries(chunks[i].text, 0, l, a, b)
  BY <1>3 DEF AmongChunks
<1>5. chunks[i].text \in Texts
  <2>1. chunks[i] \in Chunked
    BY ElementOfSeq DEF Intact, Shaped
  <2> QED BY <2>1 DEF Chunked
<1>6. PICK n \in Nat : n = Len(chunks[i].text)
  BY <1>5, LenProperties DEF Texts
<1>7. PICK k \in Int : 0 < k + a /\ k + b <= n /\ \A o \in a..b : chunks[i].text[k + o] = <<l, o>>
  BY <1>4, <1>6 DEF Carries
<1>8. ASSUME NEW o \in a..b PROVE <<l, o>> \in Cells(i)
  <2>1. k + o \in 1..n
    BY <1>1, <1>7
  <2> QED BY <1>6, <1>7, <2>1 DEF Cells
<1> QED
  BY <1>8

(* No part of a line but of section breaks is lost on the way through        *)
(* sections, windows, merged and typed chunks (SemanticChunker), for any     *)
(* documents and sizes.                                                      *)
THEOREM DocumentsAreKept == ProductsSpec => []NothingIsLost
<1>1. Paged => NothingIsLost
  <2> SUFFICES ASSUME Intact, phase = "done", NEW l \in Content, NEW o \in 1..doc.lines[l].length
               PROVE  \E i \in 1..Len(chunks) : <<l, o>> \in Cells(i)
    BY DEF Paged, NothingIsLost
  <2>1. doc.lines[l].length \in Nat
    BY LineOf DEF Intact, Shaped, Content
  <2>2. Stretched(l, o, o)
    BY <2>1, SizeAssumption DEF Stretched
  <2>3. PICK i \in 1..Len(chunks) : \A p \in o..o : <<l, p>> \in Cells(i)
    BY <2>2, InAChunk
  <2>4. o \in o..o
    BY <2>1
  <2> QED BY <2>3, <2>4
<1> QED
  BY <1>1, CrawledInvariant, PTL

(* A line that is no longer than the overlap, a price or a SKU, is whole in  *)
(* some chunk, though it is cut twice into windows (_split_large_section,    *)
(* _split_large_section_with_size).                                          *)
THEOREM ShortLinesSurvive == ProductsSpec => []LinesSurvive
<1>1. Paged => LinesSurvive
  <2> SUFFICES ASSUME Intact, phase = "done", NEW l \in Content, doc.lines[l].length <= CHUNK_OVERLAP
               PROVE  \E i \in 1..Len(chunks) : \A o \in 1..doc.lines[l].length : <<l, o>> \in Cells(i)
    BY DEF Paged, LinesSurvive
  <2>1. doc.lines[l].length \in Nat \ {0}
    BY LineOf DEF Intact, Shaped, Content
  <2>2. Stretched(l, 1, doc.lines[l].length)
    BY <2>1, SizeAssumption DEF Stretched
  <2> QED BY <2>2, InAChunk
<1> QED
  BY <1>1, CrawledInvariant, PTL

(* The windows of a text advance, though they overlap and are cut at         *)
(* sentences, so that the loops of _split_large_section come to an end.      *)
THEOREM WindowsGoOn == ProductsSpec => WindowsAdvance
<1> DEFINE Advances == [(phase \in {"windows", "types"} /\ phase' = phase /\ queue' = queue) => start' > start]_chunkVars
<1>1. Paged /\ [ProductsNext]_productVars => Advances
  <2> SUFFICES ASSUME Intact, [ProductsNext]_productVars, ~UNCHANGED chunkVars,
                      phase \in {"windows", "types"}, phase' = phase, queue' = queue
               PROVE  start' > start
    BY DEF Paged
  <2>1. queue \in Seq(Texts)
    BY DEF Intact, Shaped
  <2>2. CutChunks
    BY DEF ProductsNext, productVars, Embed, Upsert, Ingested, IngestFails, LogPage, Track, Reads, Recrawl
  <2>3. Cut \/ Finish
    BY <2>2 DEF CutChunks, ChunkStep, Begin, NextLine, Sectioned, AllCut, Merge, AllMerged, Finished
  <2>4. queue # <<>> /\ Tail(queue) # queue
    BY <2>1, <2>3, AheadNext DEF Cut, Finish
  <2>5. PICK size \in Nat : 2 * CHUNK_OVERLAP < size /\ Advance(size)
    <3>1. CASE Cut
      <4>1. Advance(MAX_CHUNK_SIZE)
        BY <2>4, <3>1 DEF Cut
      <4> QED BY <4>1, SizeAssumption
    <3>2. CASE Finish
      <4> DEFINE limit == CHUNK_SIZE_BY_TYPE[Type(Head(queue))]
      <4>1. Advance(limit)
        BY <2>4, <3>2 DEF Finish
      <4>2. limit \in Nat /\ 2 * CHUNK_OVERLAP < limit
        BY SizeAssumption, Typed
      <4> HIDE DEF limit
      <4> QED BY <4>1, <4>2
    <3> QED BY <2>3, <3>1, <3>2
  <2>6. start < start' /\ start \in Nat /\ start' \in Nat
    BY <2>4, <2>5, Advancing DEF Intact, Shaped
  <2> QED BY <2>6
<1> QED
  BY <1>1, CrawledInvariant, PTL DEF ProductsSpec, WindowsAdvance
-----------------------------------------------------------------------------
(* The reader of a page. *)

(* The fields that count are finitely many.                                  *)
LEMMA SomeFields ==
    /\ IsFiniteSet(Core) /\ IsFiniteSet(Attributes) /\ IsFiniteSet(Logistics)
    /\ IsFiniteSet({"sku"}) /\ IsFiniteSet({"price"})
<1>1. \A x, y : IsFiniteSet({x}) /\ IsFiniteSet({x, y})
  <2> TAKE x, y
  <2>1. {x} = {} \union {x} /\ {x, y} = {x} \union {y}
    OBVIOUS
  <2> QED BY <2>1, FS_EmptySet, FS_AddElement
<1>2. \A x, y, z, t : IsFiniteSet({x, y, z}) /\ IsFiniteSet({x, y, z, t})
  <2> TAKE x, y, z, t
  <2>1. {x, y, z} = {x, y} \union {z} /\ {x, y, z, t} = {x, y, z} \union {t}
    OBVIOUS
  <2>2. IsFiniteSet({x, y} \union {z})
    BY <1>1, FS_AddElement
  <2>3. IsFiniteSet({x, y, z} \union {t})
    BY <2>1, <2>2, FS_AddElement
  <2> QED BY <2>1, <2>2, <2>3
<1> QED
  BY <1>1, <1>2 DEF Core, Attributes, Logistics

(* What is read off finitely many things is finitely many.                   *)
LEMMA ImageOf ==
    ASSUME NEW S, IsFiniteSet(S), NEW f, DOMAIN f = S
    PROVE  IsFiniteSet({f[x] : x \in S})
<1> DEFINE T == {f[x] : x \in S}
           g == [x \in S |-> f[x]]
<1>1. g \in [S -> T] /\ \A t \in T : \E x \in S : g[x] = t
  OBVIOUS
<1>2. g \in Surjection(S, T)
  BY <1>1 DEF Surjection
<1> HIDE DEF g, T
<1>3. IsFiniteSet(T)
  BY <1>2, FS_Surjection
<1> QED
  BY <1>3 DEF T

(* What is scored: variants that can be counted, and a length.               *)
Scored(e) == IsFiniteSet(e.variants) /\ e.length \in Nat

(* A share of some is a number.                                              *)
LEMMA ShareIs ==
    ASSUME NEW whole \in Nat, NEW n \in Nat, NEW of \in Nat \ {0}
    PROVE  Share(whole, n, of) \in Int
<1>1. whole * n \in Int
  OBVIOUS
<1> QED
  BY <1>1 DEF Share

LEMMA ScoreIs ==
    ASSUME NEW e, Scored(e)
    PROVE  Score(e) \in Int
<1>1. ASSUME NEW fs, IsFiniteSet(fs) PROVE Has(e, fs) \in Nat
  <2>1. e.fields \intersect fs \subseteq fs
    OBVIOUS
  <2>2. IsFiniteSet(e.fields \intersect fs)
    BY <1>1, <2>1, FS_Subset
  <2> QED BY <2>2, FS_CardinalityType DEF Has
<1>2. PICK c \in Nat, s \in Nat, p \in Nat, a \in Nat, g \in Nat :
        /\ c = Has(e, Core) /\ s = Has(e, {"sku"}) /\ p = Has(e, {"price"})
        /\ a = Has(e, Attributes) /\ g = Has(e, Logistics)
  BY <1>1, SomeFields
<1>3. PICK q \in Int : q = ContentQuality(e)
  <2>1. PICK n \in Nat : n = e.length
    BY DEF Scored
  <2>2. ContentQuality(e) = IF n >= 200 THEN 1000 ELSE 5 * n
    BY <2>1 DEF ContentQuality
  <2>3. (IF n >= 200 THEN 1000 ELSE 5 * n) \in Int
    OBVIOUS
  <2> QED BY <2>2, <2>3
<1>4. ASSUME e.variants # {}
      PROVE  /\ Cardinality(e.variants) \in Nat \ {0}
             /\ Cardinality({v \in e.variants : v.sku # ""}) \in Nat
             /\ Cardinality({v \in e.variants : v.complete}) \in Nat
  <2> DEFINE named == {v \in e.variants : v.sku # ""}
             whole == {v \in e.variants : v.complete}
  <2>1. IsFiniteSet(e.variants)
    BY DEF Scored
  <2>2. Cardinality(e.variants) \in Nat /\ Cardinality(e.variants) # 0
    BY <1>4, <2>1, FS_CardinalityType, FS_EmptySet
  <2>3. named \subseteq e.variants
    BY Zenon
  <2>4. whole \subseteq e.variants
    BY Zenon
  <2> HIDE DEF named, whole
  <2>5. IsFiniteSet(named) /\ IsFiniteSet(whole)
    BY <2>1, <2>3, <2>4, FS_Subset
  <2>6. Cardinality(named) \in Nat /\ Cardinality(whole) \in Nat
    BY <2>5, FS_CardinalityType
  <2>7. Cardinality({v \in e.variants : v.sku # ""}) \in Nat
    BY <2>6, Zenon DEF named
  <2>8. Cardinality({v \in e.variants : v.complete}) \in Nat
    BY <2>6, Zenon DEF whole
  <2> QED BY <2>2, <2>7, <2>8, Zenon
<1>5. PICK k \in Int : k = SkuCoverage(e)
  <2>1. CASE e.variants = {}
    BY <1>2, <2>1 DEF SkuCoverage
  <2>2. CASE e.variants # {}
    <3> DEFINE some == Cardinality({v \in e.variants : v.sku # ""})
               many == Cardinality(e.variants)
    <3>1. SkuCoverage(e) = 400 * Has(e, {"sku"}) + Share(600, some, many)
      BY <2>2, Zenon DEF SkuCoverage
    <3>2. some \in Nat /\ many \in Nat \ {0}
      BY <1>4, <2>2, Zenon
    <3> HIDE DEF some, many
    <3>3. Share(600, some, many) \in Int
      BY <3>2, ShareIs
    <3> QED BY <1>2, <3>1, <3>3
  <2> QED BY <2>1, <2>2
<1>6. PICK w \in Int : w = VariantCoverage(e)
  <2>1. CASE e.variants = {}
    BY <1>2, <2>1 DEF VariantCoverage
  <2>2. CASE e.variants # {}
    <3> DEFINE some == Cardinality({v \in e.variants : v.complete})
               many == Cardinality(e.variants)
    <3>1. VariantCoverage(e) = Share(1000, some, many)
      BY <2>2, Zenon DEF VariantCoverage
    <3>2. some \in Nat /\ many \in Nat \ {0}
      BY <1>4, <2>2, Zenon
    <3> HIDE DEF some, many
    <3>3. Share(1000, some, many) \in Int
      BY <3>2, ShareIs
    <3> QED BY <3>1, <3>3
  <2> QED BY <2>1, <2>2
<1>7. PICK c1 \in Int, a1 \in Int, g1 \in Int :
        c1 = Share(1000, c, 4) /\ a1 = Share(1000, a, 3) /\ g1 = Share(1000, g, 2)
  <2>1. Share(1000, c, 4) \in Int
    BY ShareIs
  <2>2. Share(1000, a, 3) \in Int
    BY ShareIs
  <2>3. Share(1000, g, 2) \in Int
    BY ShareIs
  <2> QED BY <2>1, <2>2, <2>3
<1>8. Score(e) = (300 * c1 + 200 * k + 200 * w + 150 * a1 + 100 * g1 + 50 * q) \div 1000
  BY <1>2, <1>3, <1>5, <1>6, <1>7 DEF Score
<1> QED
  BY <1>8

(* The core of a product is told in every mode, and a higher score only ever *)
(* means more fields shown.                                                  *)
LEMMA CoreIsShown == ASSUME NEW e PROVE Core \subseteq Shown(Mode(e))
<1>1. FullMode \subseteq Shown("FULL") /\ PartialMode \subseteq Shown("PARTIAL") /\ FallbackMode \subseteq Shown("FALLBACK")
  BY DEF Shown
<1>2. Core \subseteq FullMode /\ Core \subseteq PartialMode /\ Core \subseteq FallbackMode
  BY DEF FullMode, PartialMode, FallbackMode
<1>3. Mode(e) \in {"FULL", "PARTIAL", "FALLBACK"}
  BY DEF Mode
<1> QED
  BY <1>1, <1>2, <1>3

LEMMA MoreCompleteIsShownMore ==
    ASSUME NEW less, NEW more, Scored(less), Scored(more), Score(less) <= Score(more)
    PROVE  Shown(Mode(less)) \subseteq Shown(Mode(more))
<1> DEFINE ModeOf(score) == IF score >= FULL_THRESHOLD THEN "FULL"
                            ELSE IF score >= PARTIAL_THRESHOLD THEN "PARTIAL" ELSE "FALLBACK"
<1>1. PICK x \in Int, y \in Int : x = Score(less) /\ y = Score(more) /\ x <= y
  BY ScoreIs
<1>2. Mode(less) = ModeOf(x) /\ Mode(more) = ModeOf(y)
  BY <1>1 DEF Mode
<1>3. FallbackMode \subseteq PartialMode /\ PartialMode \subseteq FullMode
  BY DEF FallbackMode, PartialMode, FullMode
<1>4. FULL_THRESHOLD \in Nat /\ PARTIAL_THRESHOLD \in Nat /\ PARTIAL_THRESHOLD <= FULL_THRESHOLD
  BY PagesAssumption
<1>5. \/ ModeOf(y) = "FULL"
      \/ ModeOf(y) = "PARTIAL" /\ ModeOf(x) \in {"PARTIAL", "FALLBACK"}
      \/ ModeOf(y) = "FALLBACK" /\ ModeOf(x) = "FALLBACK"
  BY <1>1, <1>4
<1>6. ModeOf(x) \in {"FULL", "PARTIAL", "FALLBACK"}
  OBVIOUS
<1> HIDE DEF ModeOf
<1>7. Shown("FULL") = FullMode /\ Shown("PARTIAL") = PartialMode /\ Shown("FALLBACK") = FallbackMode
  BY DEF Shown
<1>8. Shown(ModeOf(x)) \subseteq Shown(ModeOf(y))
  BY <1>3, <1>5, <1>6, <1>7
<1> QED
  BY <1>2, <1>8

(* What is read off a chunk can be scored.                                   *)
LEMMA ParsedIs ==
    ASSUME NEW text \in Texts
    PROVE  Scored(Parsed(text))
<1>1. PICK n \in Nat : n = Len(text)
  BY LenProperties DEF Texts
<1>2. ASSUME NEW label, NEW ends PROVE IsFiniteSet(Block(text, label, ends))
  <2>1. Block(text, label, ends) \subseteq 1..n
    BY <1>1 DEF Block
  <2>2. IsFiniteSet(1..n)
    BY FS_Interval
  <2> QED BY <2>1, <2>2, FS_Subset
<1>3. DescriptionLength(text) \in Nat
  <2>1. Cardinality(Block(text, "description", BlockEnds \union {"variants"})) \in Nat
    BY <1>2, FS_CardinalityType
  <2>2. CellLength \in Nat
    BY PagesAssumption
  <2> DEFINE k == Cardinality(Block(text, "description", BlockEnds \union {"variants"}))
  <2>3. DescriptionLength(text) = CellLength * k
    BY DEF DescriptionLength
  <2> HIDE DEF k
  <2>4. k \in Nat
    BY <2>1 DEF k
  <2> QED BY <2>2, <2>3, <2>4
<1>4. IsFiniteSet(Variants(text))
  <2> DEFINE block == Block(text, "variants", BlockEnds)
             lines == {text[k][1] : k \in block}
             offered == {m \in lines : doc.lines[m].kind # "break" /\ doc.lines[m].field # "variants"}
             f == [k \in block |-> text[k][1]]
             g == [l \in offered |-> Variant(text, l)]
  <2>1. IsFiniteSet(block)
    BY <1>2
  <2> HIDE DEF block
  <2>2. {f[k] : k \in block} = lines
    OBVIOUS
  <2>3. DOMAIN f = block
    OBVIOUS
  <2> HIDE DEF f
  <2>4. IsFiniteSet(lines)
    <3>1. IsFiniteSet({f[k] : k \in block})
      BY <2>1, <2>3, ImageOf
    <3> QED BY <2>2, <3>1
  <2>5. offered \subseteq lines
    OBVIOUS
  <2>6. Variants(text) = {Variant(text, l) : l \in offered}
    BY DEF Variants, block
  <2> HIDE DEF lines, offered
  <2>7. IsFiniteSet(offered)
    BY <2>4, <2>5, FS_Subset
  <2>8. {g[l] : l \in offered} = Variants(text) /\ DOMAIN g = offered
    BY <2>6
  <2> HIDE DEF g
  <2>9. IsFiniteSet({g[l] : l \in offered})
    BY <2>7, <2>8, ImageOf
  <2> QED BY <2>8, <2>9
<1> QED
  BY <1>3, <1>4 DEF Parsed, Scored

(* The rows can be scored, too, and are finitely many.                       *)
Shelved == IsFiniteSet(rows) /\ \A r \in rows : Scored(r)

(* Rows are only added.                                                      *)
LEMMA RowsGrow ==
    ASSUME Paged, Shelved, [ProductsNext]_productVars
    PROVE  Shelved' /\ rows \subseteq rows'
<1>1. CASE UNCHANGED rows
  BY <1>1 DEF Shelved
<1>2. CASE Upsert
  <2> DEFINE i == Cardinality(Stored) + 1
  <2>1. rows' = rows \union {Row(i)} /\ Cardinality(Stored) < Len(chunks)
    BY <1>2 DEF Upsert
  <2>2. Cardinality(Stored) \in Nat
    <3> DEFINE mine == {r \in rows : r.version = version}
               f == [row \in mine |-> row.index]
    <3>1. mine \subseteq rows
      OBVIOUS
    <3>2. IsFiniteSet(mine)
      BY <3>1, FS_Subset DEF Shelved
    <3>3. {f[row] : row \in mine} = Stored /\ DOMAIN f = mine
      BY DEF Stored
    <3> HIDE DEF f, mine
    <3>4. IsFiniteSet({f[row] : row \in mine})
      BY <3>2, <3>3, ImageOf
    <3> QED BY <3>3, <3>4, FS_CardinalityType
  <2>3. chunks \in Seq(Chunked)
    BY DEF Paged, Intact, Shaped
  <2> HIDE DEF i
  <2>4. i \in 1..Len(chunks)
    <3>1. PICK n \in Nat : n = Len(chunks)
      BY <2>3, LenProperties
    <3> QED BY <2>1, <2>2, <3>1 DEF i
  <2>5. chunks[i].text \in Texts
    <3>1. chunks[i] \in Chunked
      BY <2>3, <2>4, ElementOfSeq
    <3> QED BY <3>1 DEF Chunked
  <2>6. Scored(Parsed(chunks[i].text))
    BY <2>5, ParsedIs
  <2>7. Scored(Row(i))
    <3>1. /\ Row(i).variants = Parsed(chunks[i].text).variants
          /\ Row(i).length = Parsed(chunks[i].text).length
      BY DEF Row
    <3> QED BY <2>6, <3>1 DEF Scored
  <2> DEFINE row == Row(i)
  <2>8. rows' = rows \union {row} /\ Scored(row)
    BY <2>1, <2>7
  <2> HIDE DEF row
  <2>9. IsFiniteSet(rows')
    BY <2>8, FS_AddElement DEF Shelved
  <2> QED BY <2>8, <2>9 DEF Shelved
<1>3. UNCHANGED rows \/ Upsert
  BY DEF ProductsNext, productVars, CutChunks, Embed, Ingested, IngestFails, LogPage, Track, Reads, Recrawl
<1> QED
  BY <1>1, <1>2, <1>3

(* A reader that fetches all rows reads what they give together.             *)
LEMMA AllFetched ==
    ASSUME NEW stored, Cardinality(stored) <= FetchLimit
    PROVE  Readings(stored) = Reconstruct(stored)
  BY DEF Fetches, Readings

(* An entity has the fields of the chunks it is put together from, and can   *)
(* be scored.                                                                *)
LEMMA ReconstructIs ==
    ASSUME NEW page, IsFiniteSet(page), \A r \in page : Scored(r), NEW e \in Reconstruct(page)
    PROVE  e.fields = UNION {r.fields \union MetaFields(r) : r \in page} /\ Scored(e)
<1> DEFINE all == UNION {r.variants : r \in page}
           kept(order) == {v \in all : \E r \in page : v \in r.variants /\ Survives(v, r, page, order)}
<1>1. PICK order \in Orders(page) : \E len \in Firsts(page, order) :
        e = [fields   |-> UNION {r.fields \union MetaFields(r) : r \in page},
             variants |-> kept(order), length |-> len]
  BY DEF Reconstruct
<1>2. PICK len \in Firsts(page, order) :
        e = [fields   |-> UNION {r.fields \union MetaFields(r) : r \in page},
             variants |-> kept(order), length |-> len]
  BY <1>1
<1>3. e.fields = UNION {r.fields \union MetaFields(r) : r \in page} /\ e.variants = kept(order) /\ e.length = len
  BY <1>2
<1>4. kept(order) \subseteq all
  OBVIOUS
<1>5. IsFiniteSet(all)
  <2> DEFINE f == [r \in page |-> r.variants]
             S == {f[r] : r \in page}
  <2>1. IsFiniteSet(S)
    <3>1. DOMAIN f = page
      OBVIOUS
    <3> HIDE DEF f
    <3> QED BY <3>1, ImageOf
  <2>2. \A T \in S : IsFiniteSet(T)
    BY DEF Scored
  <2>3. UNION S = all
    OBVIOUS
  <2> HIDE DEF S, all
  <2>4. IsFiniteSet(UNION S)
    BY <2>1, <2>2, FS_UNION
  <2> QED BY <2>3, <2>4
<1> HIDE DEF all, kept
<1>6. IsFiniteSet(kept(order))
  BY <1>4, <1>5, FS_Subset
<1>7. len \in Nat
  BY <1>2 DEF Firsts, Scored
<1> QED
  BY <1>3, <1>6, <1>7 DEF Scored

(* A crawl, wholly stored or not, costs a reader who fetches all chunks of a *)
(* page nothing of its core, and nothing else but by making the page less    *)
(* complete (ProductRetriever, ProductEntityFormatter): fields are only      *)
(* added, the core is shown in every mode, and a higher score shows more.    *)
THEOREM RecrawlsTellTheCore == ProductsSpec => RecrawlTellsTheCore
<1> DEFINE Telling ==
        [Cardinality(rows') <= FetchLimit =>
            \A before \in Readings(rows), after \in Readings(rows') :
                /\ Format(before) \intersect Core \subseteq Format(after)
                /\ Score(before) <= Score(after) => Format(before) \subseteq Format(after)]_rows
<1>1. ProductsInit => Shelved
  BY FS_EmptySet DEF ProductsInit, Shelved
<1>2. Paged /\ Shelved /\ [ProductsNext]_productVars => Shelved'
  BY RowsGrow
<1>3. Paged /\ Shelved /\ [ProductsNext]_productVars => Telling
  <2> SUFFICES ASSUME Paged, Shelved, [ProductsNext]_productVars, Cardinality(rows') <= FetchLimit,
                      NEW before \in Readings(rows), NEW after \in Readings(rows')
               PROVE  /\ Format(before) \intersect Core \subseteq Format(after)
                      /\ Score(before) <= Score(after) => Format(before) \subseteq Format(after)
    OBVIOUS
  <2>1. Shelved' /\ rows \subseteq rows'
    BY RowsGrow
  <2>2. IsFiniteSet(rows) /\ (\A r \in rows : Scored(r)) /\ IsFiniteSet(rows') /\ \A r \in rows' : Scored(r)
    BY <2>1 DEF Shelved
  <2>3. Cardinality(rows) <= FetchLimit
    <3>1. /\ Cardinality(rows) <= Cardinality(rows')
          /\ Cardinality(rows) \in Nat /\ Cardinality(rows') \in Nat /\ FetchLimit \in Nat
      BY <2>1, <2>2, FS_Subset, FS_CardinalityType, PagesAssumption
    <3> QED BY <3>1
  <2>4. before \in Reconstruct(rows) /\ after \in Reconstruct(rows')
    BY <2>3, AllFetched
  <2>5. /\ before.fields = UNION {r.fields \union MetaFields(r) : r \in rows} /\ Scored(before)
        /\ after.fields = UNION {r.fields \union MetaFields(r) : r \in rows'} /\ Scored(after)
    BY <2>2, <2>4, ReconstructIs
  <2>6. before.fields \subseteq after.fields
    BY <2>1, <2>5
  <2>7. Format(before) \intersect Core \subseteq Format(after)
    BY <2>6, CoreIsShown DEF Format
  <2>8. Score(before) <= Score(after) => Format(before) \subseteq Format(after)
    BY <2>5, <2>6, MoreCompleteIsShownMore DEF Format
  <2> QED BY <2>7, <2>8
<1> QED
  BY <1>1, <1>2, <1>3, CrawledInvariant, PTL DEF ProductsSpec, RecrawlTellsTheCore

-----------------------------------------------------------------------------
(* The session. *)

(* The transaction is only left aborted after a fault, and so is an event    *)
(* only lost after one.                                                      *)
Session ==
    /\ faults \in Nat
    /\ tx \in {"clean", "aborted"}
    /\ tx = "aborted" => faults > 0
    /\ event = "lost" => faults > 0

(* A statement that works leaves the session as it was.                      *)
LEMMA WorksSafely ==
    ASSUME Session, NEW refused \in BOOLEAN, Works(refused), UNCHANGED event
    PROVE  Session'
  BY DEF Session, Works

(* One that breaks and is rolled back leaves no aborted transaction.         *)
LEMMA BreaksSafely ==
    ASSUME Session, NEW refused \in BOOLEAN, Breaks(refused), Rollback, UNCHANGED event
    PROVE  Session'
  BY DEF Session, Breaks, Fault, Rollback

(* One that the database does not refuse by itself breaks after a fault, or  *)
(* by one: nobody has to roll it back.                                       *)
LEMMA BreaksByFault ==
    ASSUME Session, Breaks(FALSE), NoRollback, UNCHANGED event
    PROVE  Session'
  BY DEF Session, Breaks, Fault, NoRollback

(* The structured lookup leaves the session alone or puts one statement to   *)
(* it, which is rolled back when it breaks.                                  *)
LEMMA LookupStatement ==
    ASSUME Lookup
    PROVE  UNCHANGED <<tx, faults>> \/ \E refused \in BOOLEAN : Works(refused) \/ (Breaks(refused) /\ Rollback)
<1>1. PICK terms \in SearchTerms :
          \/ UNCHANGED <<tx, faults>>
          \/ Works(Malformed(terms) \/ ~migrated)
          \/ Breaks(Malformed(terms) \/ ~migrated) /\ Rollback
  BY DEF Lookup
<1>2. (Malformed(terms) \/ ~migrated) \in BOOLEAN
  OBVIOUS
<1> QED
  BY <1>1, <1>2

(* The usage event: what breaks it is a fault, now or before.                *)
LEMMA MeterSafely == ASSUME Session, Meter PROVE Session'
  BY DEF Session, Meter, Works, Breaks, Fault, Rollback

(* Every step keeps what the session promises.                               *)
LEMMA SessionKept == Session /\ [Next]_vars => Session'
<1> SUFFICES ASSUME Session, [Next]_vars PROVE Session'
  OBVIOUS
<1>quiet. ASSUME UNCHANGED <<tx, faults, event>> PROVE Session'
  BY <1>quiet DEF Session
<1>1. CASE MakePlan \/ Govern \/ ScoreRisk \/ StartRetrieval \/ Word \/ NoHistory
  BY <1>1, <1>quiet DEF MakePlan, Govern, ScoreRisk, StartRetrieval, Word, NoHistory, ending
<1>2. CASE Use \/ Gather \/ Check \/ Compress \/ Generate
  BY <1>2, <1>quiet DEF Use, Gather, Check, Compress, Generate, ending
<1>3. CASE Escalate \/ Website \/ Graph
  <2>1. /\ Works(FALSE) \/ (Breaks(FALSE) /\ NoRollback)
        /\ UNCHANGED event
    BY <1>3 DEF Escalate, Website, Graph, ending
  <2> QED BY <2>1, WorksSafely, BreaksByFault
<1>4. CASE Lookup
  <2>1. UNCHANGED event
    BY <1>4 DEF Lookup, ending
  <2>2. UNCHANGED <<tx, faults>>
        \/ \E refused \in BOOLEAN : Works(refused) \/ (Breaks(refused) /\ Rollback)
    BY <1>4, LookupStatement
  <2>3. CASE UNCHANGED <<tx, faults>>
    BY <2>1, <2>3, <1>quiet
  <2> QED BY <2>1, <2>2, <2>3, WorksSafely, BreaksSafely
<1>5. CASE LookupLike \/ Pin \/ Locate
  <2>1. /\ Works(FALSE) \/ (Breaks(FALSE) /\ Rollback)
        /\ UNCHANGED event
    BY <1>5 DEF LookupLike, Pin, Locate, ending
  <2> QED BY <2>1, WorksSafely, BreaksSafely
<1>6. CASE Near \/ KeywordLike
  <2>1. /\ Works(FALSE) \/ (Breaks(FALSE) /\ NoRollback)
        /\ UNCHANGED event
    BY <1>6 DEF Near, KeywordLike, ending
  <2> QED BY <2>1, WorksSafely, BreaksByFault
<1>7. CASE NoEmbedding
  BY <1>7 DEF NoEmbedding, Session, Fault, ending
<1>8. CASE Keyword
  <2> DEFINE refused == ~migrated
  <2>1. /\ Works(refused) \/ (Breaks(refused) /\ Rollback)
        /\ UNCHANGED event
    BY <1>8 DEF Keyword, ending
  <2>2. refused \in BOOLEAN
    OBVIOUS
  <2> HIDE DEF refused
  <2> QED BY <2>1, <2>2, WorksSafely, BreaksSafely
<1>9. CASE Prompt
  <2>1. /\ UNCHANGED <<tx, faults>> \/ Works(FALSE) \/ (Breaks(FALSE) /\ NoRollback)
        /\ UNCHANGED event
    BY <1>9 DEF Prompt, ending
  <2> QED BY <2>1, <1>quiet, WorksSafely, BreaksByFault
<1>10. CASE LoadTurns
  <2>1. /\ UNCHANGED <<tx, faults>> \/ Works(FALSE) \/ (Breaks(FALSE) /\ NoRollback)
        /\ UNCHANGED event
    BY <1>10 DEF LoadTurns, ending
  <2> QED BY <2>1, <1>quiet, WorksSafely, BreaksByFault
<1>11. CASE Meter
  BY <1>11, MeterSafely
<1>12. CASE UNCHANGED vars
  BY <1>12, <1>quiet DEF vars, ending
<1> QED
  BY <1>1, <1>2, <1>3, <1>4, <1>5, <1>6, <1>7, <1>8, <1>9, <1>10, <1>11, <1>12 DEF Next, Retrieve

(* The session keeps what it promises for the whole request.                 *)
LEMMA SessionInvariant == Spec => []Session
<1>1. Init => Session
  BY DEF Init, Session
<1> QED
  BY <1>1, SessionKept, PTL DEF Spec

(* A usage event is lost only after a fault: neither a table without the fts *)
(* column nor a query that does not parse takes it along, because every      *)
(* statement that the database may refuse is rolled back where it breaks     *)
(* (_keyword_search, StructuredExecutor._lookup_chunks).                     *)
THEOREM EventsSurvive == Spec => []RefusedQueriesAreMetered
<1>1. Session => RefusedQueriesAreMetered
  BY DEF Session, RefusedQueriesAreMetered
<1> QED
  BY <1>1, SessionInvariant, PTL


-----------------------------------------------------------------------------
(* The knowledge. *)

Early     == {"plan", "govern", "risk", "escalate", "gate", "lookup", "lookup_like", "history"}
Searching == {"pin", "location", "keyword", "keyword_like"}
Talking   == {"turns", "compress", "model"}

Known == \E i \in DOMAIN context : context[i] = "chunk"

(* What the context of the system's messages stands on.                      *)
Briefed == \E i \in DOMAIN messages : messages[i].role = "system" /\ messages[i].what = "context"

(* What this retrieval has, or is about to find, or what an earlier loop     *)
(* brought.                                                                  *)
Offered   == found # <<>> \/ (IF migrated THEN FullText ELSE Likes) # <<>>
Remembers == Agentic /\ Known

(* Where the request stands once a retrieval had matches, in a request       *)
(* without faults.                                                           *)
Informed ==
    /\ at \notin Early \union {"website"}
    /\ at = "retrieve" => Remembers
    /\ at \in Searching => Offered \/ Remembers
    /\ at = "keyword_like" => ~migrated
    /\ at = "returned" => results # <<>> \/ Remembers
    /\ at = "check" => Remembers
    /\ at \in {"graph", "prompt"} \union Talking => Known
    /\ at \in Talking => Briefed

(* A sequence of whatever it holds.                                          *)
IsSeq(s) == s \in Seq(Range1(s))

Lists == IsSeq(found) /\ IsSeq(results) /\ IsSeq(context) /\ IsSeq(messages)

Requested ==
    /\ query \in Queries /\ history \in Histories /\ migrated \in BOOLEAN
    /\ plan \in {NoPlan, Planned(query.text)}

Knowledge == Requested /\ Lists /\ (faults = 0 /\ hit => Informed)

-----------------------------------------------------------------------------
(* Sequences. *)

(* A function over 1..n is a sequence of length n.                           *)
LEMMA Listing ==
    ASSUME NEW n \in Nat, NEW s, DOMAIN s = 1..n, s = [i \in DOMAIN s |-> s[i]]
    PROVE  /\ IsSeq(s)
           /\ Len(s) = n
           /\ s = <<>> <=> n = 0
<1>1. s \in [1..n -> Range1(s)]
  BY DEF Range1
<1>2. s \in Seq(Range1(s))
  BY <1>1, SeqDef
<1>3. Len(s) \in Nat /\ DOMAIN s = 1..Len(s)
  BY <1>2, LenProperties
<1>4. Len(s) = n
  <2>1. \A m, k \in Nat : 1..m = 1..k => m <= k
    <3> SUFFICES ASSUME NEW m \in Nat, NEW k \in Nat, 1..m = 1..k, ~(m <= k)
                 PROVE  FALSE
      OBVIOUS
    <3>1. m \in 1..m /\ m \notin 1..k
      OBVIOUS
    <3> QED BY <3>1
  <2>2. Len(s) <= n /\ n <= Len(s)
    BY <1>3, <2>1
  <2> QED BY <1>3, <2>2
<1>5. s = <<>> => Len(s) = 0
  OBVIOUS
<1>6. s # <<>> => Len(s) \in Nat \ {0}
  BY <1>2, EmptySeq
<1> QED
  BY <1>2, <1>4, <1>5, <1>6 DEF IsSeq

(* What a sequence is, and when it is empty.                                 *)
LEMMA Shape ==
    ASSUME NEW s, IsSeq(s)
    PROVE  /\ Len(s) \in Nat
           /\ DOMAIN s = 1..Len(s)
           /\ s = [i \in DOMAIN s |-> s[i]]
           /\ s = <<>> <=> Len(s) = 0
<1>1. s \in Seq(Range1(s))
  BY DEF IsSeq
<1>2. Len(s) \in Nat /\ DOMAIN s = 1..Len(s) /\ s \in [1..Len(s) -> Range1(s)]
  BY <1>1, LenProperties
<1>3. s # <<>> => Len(s) # 0
  BY <1>1, EmptySeq
<1> QED
  BY <1>2, <1>3

(* Whatever set its elements are taken from.                                 *)
LEMMA OfElements ==
    ASSUME NEW S, NEW s \in Seq(S)
    PROVE  IsSeq(s)
<1>1. Len(s) \in Nat /\ DOMAIN s = 1..Len(s) /\ s = [i \in DOMAIN s |-> s[i]]
  BY LenProperties
<1> QED
  BY <1>1, Listing

(* One after the other.                                                      *)
LEMMA Joining ==
    ASSUME NEW s, NEW t, IsSeq(s), IsSeq(t)
    PROVE  /\ IsSeq(s \o t)
           /\ Len(s \o t) = Len(s) + Len(t)
           /\ \A i \in 1..Len(s) : (s \o t)[i] = s[i]
           /\ \A i \in 1..Len(t) : (s \o t)[i + Len(s)] = t[i]
<1> DEFINE S == Range1(s) \union Range1(t)
<1>1. s \in Seq(S) /\ t \in Seq(S)
  <2>1. s \in Seq(Range1(s)) /\ t \in Seq(Range1(t)) /\ Range1(s) \subseteq S /\ Range1(t) \subseteq S
    BY DEF IsSeq
  <2> HIDE DEF S
  <2> QED BY <2>1, SeqMonotonic
<1> HIDE DEF S
<1>2. /\ s \o t \in Seq(S)
      /\ Len(s \o t) = Len(s) + Len(t)
      /\ \A i \in 1..Len(s) + Len(t) : (s \o t)[i] = IF i <= Len(s) THEN s[i] ELSE t[i - Len(s)]
  BY <1>1, ConcatProperties
<1>3. IsSeq(s \o t)
  BY <1>2, OfElements
<1>4. Len(s) \in Nat /\ Len(t) \in Nat
  BY <1>1, LenProperties
<1> QED
  BY <1>2, <1>3, <1>4

(* The first n of them are none only when there are none.                    *)
LEMMA Cutting ==
    ASSUME NEW n \in Nat \ {0}, NEW s, IsSeq(s)
    PROVE  /\ IsSeq(First(n, s))
           /\ First(n, s) = <<>> <=> s = <<>>
<1> DEFINE m == IF n < Len(s) THEN n ELSE Len(s)
<1>1. s \in Seq(Range1(s)) /\ Len(s) \in Nat /\ (s = <<>> <=> Len(s) = 0)
  BY Shape DEF IsSeq
<1>2. 1 \in 1..Len(s)+1 /\ m \in 0..Len(s) /\ (m = 0 <=> Len(s) = 0)
  BY <1>1
<1>3. First(n, s) = SubSeq(s, 1, m)
  BY DEF First
<1> HIDE DEF m
<1>4. SubSeq(s, 1, m) \in Seq(Range1(s)) /\ Len(SubSeq(s, 1, m)) = m
  BY <1>1, <1>2, SubSeqProperties
<1>5. IsSeq(First(n, s))
  BY <1>3, <1>4, OfElements
<1> QED
  BY <1>1, <1>2, <1>3, <1>4, <1>5, Shape

(* A part of a sequence is finite.                                           *)
LEMMA Places ==
    ASSUME NEW s, IsSeq(s), NEW places, places \subseteq DOMAIN s
    PROVE  IsFiniteSet(places)
<1>1. IsFiniteSet(1..Len(s))
  <2>1. Len(s) \in Int
    BY Shape
  <2> QED BY <2>1, FS_Interval
<1> QED
  BY <1>1, Shape, FS_Subset

(* What is kept is nothing only when no place is.                            *)
LEMMA Keeping ==
    ASSUME NEW s, NEW places, IsFiniteSet(places)
    PROVE  /\ IsSeq(Kept(s, places))
           /\ Kept(s, places) = <<>> <=> places = {}
<1> DEFINE Pick(n) == s[CHOOSE i \in places : Cardinality({j \in places : j < i}) = n - 1]
           size == Cardinality(places)
<1>1. Kept(s, places) = [n \in 1..size |-> Pick(n)]
  BY DEF Kept
<1>2. size \in Nat /\ (size = 0 <=> places = {})
  BY FS_CardinalityType, FS_EmptySet
<1> HIDE DEF Pick, size
<1> DEFINE list == [n \in 1..size |-> Pick(n)]
<1>3. DOMAIN list = 1..size /\ list = [i \in DOMAIN list |-> list[i]]
  OBVIOUS
<1> HIDE DEF list
<1>4. IsSeq(list) /\ (list = <<>> <=> size = 0)
  BY <1>2, <1>3, Listing
<1> QED
  BY <1>1, <1>2, <1>4 DEF list

(* A ranking is empty only when there is nothing to rank.                    *)
LEMMA Ranking ==
    ASSUME NEW hits, IsFiniteSet(hits)
    PROVE  /\ IsSeq(Ranked(hits))
           /\ Ranked(hits) = <<>> <=> hits = {}
<1> DEFINE Before(g, h) == g.sim > h.sim \/ (g.sim = h.sim /\ g.chunk.index < h.chunk.index)
           Pick(n) == CHOOSE h \in hits : Cardinality({g \in hits : Before(g, h)}) = n - 1
           size == Cardinality(hits)
<1>1. Ranked(hits) = [n \in 1..size |-> Pick(n)]
  BY DEF Ranked
<1>2. size \in Nat /\ (size = 0 <=> hits = {})
  BY FS_CardinalityType, FS_EmptySet
<1> HIDE DEF Pick, size
<1> DEFINE list == [n \in 1..size |-> Pick(n)]
<1>3. DOMAIN list = 1..size /\ list = [i \in DOMAIN list |-> list[i]]
  OBVIOUS
<1> HIDE DEF list
<1>4. IsSeq(list) /\ (list = <<>> <=> size = 0)
  BY <1>2, <1>3, Listing
<1> QED
  BY <1>1, <1>2, <1>4 DEF list

(* Some of the chunks, as hits.  There are finitely many to rank.            *)
HitsOf(part, of) == {of[c] : c \in part}

LEMMA Hits ==
    ASSUME NEW part, part \subseteq Chunks, NEW of
    PROVE  /\ IsSeq(Ranked(HitsOf(part, of)))
           /\ Ranked(HitsOf(part, of)) = <<>> <=> part = {}
<1>1. IsFiniteSet(part)
  BY QueryAssumption, FS_Subset
<1> DEFINE hits == HitsOf(part, of)
           map  == [c \in part |-> of[c]]
<1>2. map \in Surjection(part, hits)
  BY DEF Surjection, HitsOf
<1>3. hits = {} <=> part = {}
  BY DEF HitsOf
<1> HIDE DEF hits, map
<1>4. IsFiniteSet(hits)
  BY <1>1, <1>2, FS_Surjection
<1>5. IsSeq(Ranked(hits)) /\ (Ranked(hits) = <<>> <=> hits = {})
  BY <1>4, Ranking
<1> QED
  BY <1>3, <1>5 DEF hits

(* Sorting keeps the length.                                                 *)
LEMMA Sorting ==
    ASSUME NEW s, IsSeq(s)
    PROVE  /\ IsSeq(Sorted(s))
           /\ Sorted(s) = <<>> <=> s = <<>>
<1> DEFINE Before(i) == {j \in DOMAIN s : s[j].sim > s[i].sim \/ (s[j].sim = s[i].sim /\ j < i)}
           Pick(n) == s[CHOOSE i \in DOMAIN s : Cardinality(Before(i)) = n - 1]
<1>1. Sorted(s) = [n \in DOMAIN s |-> Pick(n)]
  BY DEF Sorted
<1>2. Len(s) \in Nat /\ DOMAIN s = 1..Len(s) /\ (s = <<>> <=> Len(s) = 0)
  BY Shape
<1> HIDE DEF Pick
<1> DEFINE list == [n \in DOMAIN s |-> Pick(n)]
<1>3. DOMAIN list = 1..Len(s) /\ list = [i \in DOMAIN list |-> list[i]]
  BY <1>2
<1> HIDE DEF list
<1>4. IsSeq(list) /\ (list = <<>> <=> Len(s) = 0)
  BY <1>2, <1>3, Listing
<1> QED
  BY <1>1, <1>2, <1>4 DEF list

(* One chunk is left for every title: the first place is always kept.        *)
LEMMA Deduplicating ==
    ASSUME NEW s, IsSeq(s)
    PROVE  /\ IsSeq(Deduplicated(s))
           /\ Deduplicated(s) = <<>> <=> s = <<>>
<1> DEFINE firsts == {i \in DOMAIN s : \A j \in SameTitle(s, i) : i <= j}
<1>1. Deduplicated(s) = Kept([i \in DOMAIN s |-> Best(s, i)], firsts)
  BY DEF Deduplicated
<1>2. Len(s) \in Nat /\ DOMAIN s = 1..Len(s) /\ (s = <<>> <=> Len(s) = 0)
  BY Shape
<1>3. Len(s) # 0 => 1 \in firsts
  <2>1. SameTitle(s, 1) \subseteq DOMAIN s
    BY DEF SameTitle
  <2>2. \A j \in DOMAIN s : 1 <= j
    BY <1>2
  <2>3. Len(s) # 0 => 1 \in DOMAIN s
    BY <1>2
  <2> QED BY <2>1, <2>2, <2>3
<1>4. Len(s) = 0 => firsts = {}
  BY <1>2
<1>5. firsts \subseteq DOMAIN s
  OBVIOUS
<1> HIDE DEF firsts
<1>6. IsFiniteSet(firsts)
  BY <1>5, Places
<1> QED
  BY <1>1, <1>2, <1>3, <1>4, <1>6, Keeping

-----------------------------------------------------------------------------
(* The lists of a retrieval. *)

(* A search always asks for something.                                       *)
LEMMA Asking == ASSUME Requested PROVE top_k \in Nat \ {0} /\ 2 * top_k \in Nat \ {0}
<1>1. CASE plan = NoPlan
  BY <1>1 DEF NoPlan, top_k
<1>2. CASE plan = Planned(query.text)
  <2> DEFINE wording1 == Wording(query.text)
  <2>1. plan.made /\ plan.route = Route(wording1)
    BY <1>2 DEF Planned
  <2> HIDE DEF wording1
  <2>2. Route(wording1).top_k \in {5, 6, 8, 10}
    BY DEF Route
  <2> QED BY <2>1, <2>2 DEF top_k
<1> QED
  BY <1>1, <1>2 DEF Requested

(* The searches return lists.                                                *)
LEMMA Searched == ASSUME Requested PROVE IsSeq(Nearest) /\ IsSeq(FullText) /\ IsSeq(Likes)
<1>1. IsSeq(Ranked(Similar))
  <2> DEFINE part == {c \in Chunks : view[c].sim >= threshold}
             of   == [c \in part |-> Hit(c, view[c].sim)]
  <2>1. Similar = HitsOf(part, of)
    BY DEF Similar, HitsOf
  <2> HIDE DEF of
  <2>2. part \subseteq Chunks
    OBVIOUS
  <2> HIDE DEF part
  <2> QED BY <2>1, <2>2, Hits
<1>2. IsSeq(FullText)
  <2> DEFINE part == {c \in Chunks : view[c].rank > 0}
             of   == [c \in part |-> Hit(c, view[c].rank)]
             hits == HitsOf(part, of)
  <2>1. FullText = First(2 * top_k, Ranked(hits))
    <3>1. hits = {Hit(c, view[c].rank) : c \in part}
      BY DEF HitsOf
    <3> QED BY <3>1 DEF FullText
  <2>2. part \subseteq Chunks
    OBVIOUS
  <2> HIDE DEF part, of
  <2>3. IsSeq(Ranked(hits))
    BY <2>2, Hits
  <2> QED BY <2>1, <2>3, Asking, Cutting
<1>3. IsSeq(Likes)
  <2> DEFINE part == {c \in Chunks : view[c].like}
             of   == [c \in part |-> Hit(c, 45)]
             hits == HitsOf(part, of)
  <2>1. Likes = First(2 * top_k, Ranked(hits))
    <3>1. hits = {Hit(c, 45) : c \in part}
      BY DEF HitsOf
    <3> QED BY <3>1 DEF Likes
  <2>2. part \subseteq Chunks
    OBVIOUS
  <2> HIDE DEF part, of
  <2>3. IsSeq(Ranked(hits))
    BY <2>2, Hits
  <2> QED BY <2>1, <2>3, Asking, Cutting
<1>4. IsSeq(Nearest)
  BY <1>1, Asking, Cutting DEF Nearest
<1> QED
  BY <1>2, <1>3, <1>4

(* What the keyword search would find stays the same as long as the request  *)
(* and what it matches do.                                                   *)
LEMMA SameSearch ==
    ASSUME UNCHANGED <<query, plan, view, migrated>>
    PROVE  /\ FullText' = FullText /\ Likes' = Likes
           /\ (IF migrated THEN FullText ELSE Likes)' = (IF migrated THEN FullText ELSE Likes)
<1>1. top_k' = top_k
  <2>1. length' = length
    BY DEF length
  <2> QED BY <2>1 DEF top_k
<1>2. FullText' = FullText
  BY <1>1 DEF FullText
<1>3. Likes' = Likes
  BY <1>1 DEF Likes
<1> QED
  BY <1>2, <1>3

(* Bringing the best product's page to the front loses nothing: without a    *)
(* page, what was found stays.                                               *)
LEMMA Pinning ==
    ASSUME Requested, IsSeq(found)
    PROVE  /\ IsSeq(Pinned(Page))
           /\ found # <<>> => Pinned(Page) # <<>>
<1> DEFINE part == {c \in Chunks : c.source = Head(found).chunk.source}
           of   == [c \in part |-> Hit(c, 95)]
           hits == HitsOf(part, of)
           others == {i \in DOMAIN found : ~IsIn(found[i].chunk, Page)}
<1>1. Page = First(20, Ranked(hits))
  <2>1. hits = {Hit(c, 95) : c \in part}
    BY DEF HitsOf
  <2> QED BY <2>1 DEF Page
<1>2. part \subseteq Chunks
  OBVIOUS
<1> HIDE DEF part, of
<1>3. IsSeq(Page)
  <2>1. IsSeq(Ranked(hits))
    BY <1>2, Hits
  <2> QED BY <1>1, <2>1, Cutting
<1>4. Page = <<>> => others = DOMAIN found
  <2> SUFFICES ASSUME Page = <<>> PROVE others = DOMAIN found
    OBVIOUS
  <2>1. DOMAIN Page = {}
    OBVIOUS
  <2>2. \A c : ~IsIn(c, Page)
    BY <2>1 DEF IsIn
  <2> QED BY <2>2
<1>5. IsFiniteSet(others)
  <2>1. others \subseteq DOMAIN found
    OBVIOUS
  <2> QED BY <2>1, Places
<1>6. Pinned(Page) = Page \o Kept(found, others)
  BY DEF Pinned
<1> HIDE DEF others, hits
<1>7. IsSeq(Kept(found, others)) /\ (Kept(found, others) = <<>> <=> others = {})
  BY <1>5, Keeping
<1>8. IsSeq(Pinned(Page)) /\ Len(Pinned(Page)) = Len(Page) + Len(Kept(found, others))
  BY <1>3, <1>6, <1>7, Joining
<1>9. found # <<>> => Len(Page) # 0 \/ Len(Kept(found, others)) # 0
  <2>1. found # <<>> => DOMAIN found # {}
    BY Shape
  <2> QED BY <1>3, <1>4, <1>7, <2>1, Shape
<1>10. Len(Page) \in Nat /\ Len(Kept(found, others)) \in Nat
  BY <1>3, <1>7, Shape
<1>11. Pinned(Page) = <<>> => Len(Pinned(Page)) = 0
  BY <1>8, Shape
<1> QED
  BY <1>8, <1>9, <1>10, <1>11

(* A list of one.                                                            *)
LEMMA Single == ASSUME NEW x PROVE IsSeq(<<x>>) /\ Len(<<x>>) = 1 /\ <<x>>[1] = x
<1>1. <<x>> \in Seq({x})
  OBVIOUS
<1>2. IsSeq(<<x>>)
  BY <1>1, OfElements
<1> QED
  BY <1>2

(* The stores take the place only of stores.                                 *)
LEMMA Locating ==
    ASSUME IsSeq(found)
    PROVE  /\ IsSeq(Located)
           /\ found # <<>> => Located # <<>>
<1> DEFINE part == {c \in Chunks : c.store}
           of   == [c \in part |-> Hit(c, 95)]
           stores == Ranked(HitsOf(part, of))
           others == {i \in DOMAIN found : ~found[i].chunk.store}
           rest   == Kept(found, others)
<1>1. Located = IF stores = <<>> THEN found ELSE <<Head(stores)>> \o rest
  <2>1. HitsOf(part, of) = {Hit(c, 95) : c \in part}
    BY DEF HitsOf
  <2> QED BY <2>1 DEF Located
<1>2. IsSeq(rest)
  <2>1. others \subseteq DOMAIN found
    OBVIOUS
  <2> HIDE DEF others
  <2> QED BY <2>1, Places, Keeping
<1> HIDE DEF rest, stores
<1>3. CASE stores = <<>>
  BY <1>1, <1>3
<1>4. CASE stores # <<>>
  <2> DEFINE first == <<Head(stores)>>
  <2>1. IsSeq(first) /\ Len(first) = 1
    BY Single
  <2>2. Located = first \o rest
    BY <1>1, <1>4
  <2> HIDE DEF first
  <2>3. IsSeq(Located) /\ Len(Located) = 1 + Len(rest)
    <3>1. IsSeq(first \o rest) /\ Len(first \o rest) = Len(first) + Len(rest)
      BY ONLY <1>2, <2>1, Joining
    <3> QED BY <2>1, <2>2, <3>1
  <2>4. Len(rest) \in Nat
    BY <1>2, Shape
  <2>5. Located # <<>>
    BY <2>3, <2>4, Shape
  <2> QED BY <2>3, <2>5
<1> QED
  BY <1>3, <1>4

(* The keyword search's matches are added to what was found.                 *)
LEMMA Merging ==
    ASSUME IsSeq(found), NEW keyword, IsSeq(keyword)
    PROVE  /\ IsSeq(Merged(keyword))
           /\ keyword # <<>> => Merged(keyword) # <<>>
<1> DEFINE new  == {i \in DOMAIN keyword : ~IsIn(keyword[i].chunk, found)}
           rest == Kept(keyword, new)
<1>1. new \subseteq DOMAIN keyword
  OBVIOUS
<1>2. Merged(keyword) = found \o rest
  BY DEF Merged
<1>3. found = <<>> => new = DOMAIN keyword
  <2> SUFFICES ASSUME found = <<>> PROVE new = DOMAIN keyword
    OBVIOUS
  <2>1. DOMAIN found = {}
    OBVIOUS
  <2>2. \A c : ~IsIn(c, found)
    BY <2>1 DEF IsIn
  <2> QED BY <2>2
<1> HIDE DEF new
<1>4. IsSeq(rest) /\ (rest = <<>> <=> new = {})
  BY <1>1, Places, Keeping
<1> HIDE DEF rest
<1>5. IsSeq(Merged(keyword)) /\ Len(Merged(keyword)) = Len(found) + Len(rest)
  BY <1>2, <1>4, Joining
<1>6. keyword # <<>> => Len(found) # 0 \/ Len(rest) # 0
  <2>1. keyword # <<>> => DOMAIN keyword # {}
    BY Shape
  <2> QED BY <1>3, <1>4, <2>1, Shape
<1>7. Len(found) \in Nat /\ Len(rest) \in Nat
  BY <1>4, Shape
<1>8. Merged(keyword) = <<>> => Len(Merged(keyword)) = 0
  BY <1>5, Shape
<1> QED
  BY <1>5, <1>6, <1>7, <1>8

(* What retrieve returns is nothing only when both searches found nothing:   *)
(* neither the cut, nor the order, nor one chunk per title takes the last.   *)
LEMMA Returning ==
    ASSUME Requested, IsSeq(found), NEW matches, IsSeq(matches), Retrieved(matches)
    PROVE  /\ IsSeq(results')
           /\ found # <<>> \/ matches # <<>> => results' # <<>>
           /\ at' = "returned"
<1> DEFINE sorted == Sorted(Merged(matches))
           cut    == First(top_k + Len(matches), sorted)
           all    == IF matches = <<>> THEN found ELSE cut
<1>1. results' = IF SimpleField THEN Deduplicated(all) ELSE all
  BY DEF Retrieved
<1>2. at' = "returned"
  BY DEF Retrieved, Go
<1>3. IsSeq(sorted) /\ (matches # <<>> => sorted # <<>>)
  BY Merging, Sorting
<1>4. top_k + Len(matches) \in Nat \ {0}
  BY Asking, Shape
<1>5. IsSeq(cut) /\ (matches # <<>> => cut # <<>>)
  <2> HIDE DEF sorted
  <2> QED BY <1>3, <1>4, Cutting
<1> HIDE DEF cut
<1>6. IsSeq(all) /\ (found # <<>> \/ matches # <<>> => all # <<>>)
  BY <1>5
<1> HIDE DEF all
<1> QED
  BY <1>1, <1>2, <1>6, Deduplicating

-----------------------------------------------------------------------------
(* The messages. *)

(* Some message of the system brings the context.                            *)
Tells(s) == \E i \in DOMAIN s : s[i].role = "system" /\ s[i].what = "context"

(* Nor does it get lost among others.                                        *)
LEMMA Telling ==
    ASSUME NEW s, NEW t, IsSeq(s), IsSeq(t)
    PROVE  Tells(s) \/ Tells(t) => Tells(s \o t)
<1>1. /\ IsSeq(s \o t)
      /\ Len(s \o t) = Len(s) + Len(t)
      /\ \A i \in 1..Len(s) : (s \o t)[i] = s[i]
      /\ \A i \in 1..Len(t) : (s \o t)[i + Len(s)] = t[i]
  BY Joining
<1>2. /\ DOMAIN (s \o t) = 1..(Len(s) + Len(t))
      /\ DOMAIN s = 1..Len(s) /\ DOMAIN t = 1..Len(t)
      /\ Len(s) \in Nat /\ Len(t) \in Nat
  BY <1>1, Shape
<1>3. CASE Tells(s)
  <2>1. PICK i \in DOMAIN s : s[i].role = "system" /\ s[i].what = "context"
    BY <1>3 DEF Tells
  <2>2. i \in DOMAIN (s \o t) /\ (s \o t)[i] = s[i]
    BY <1>1, <1>2
  <2> QED BY <2>1, <2>2 DEF Tells
<1>4. CASE Tells(t)
  <2>1. PICK i \in DOMAIN t : t[i].role = "system" /\ t[i].what = "context"
    BY <1>4 DEF Tells
  <2>2. i + Len(s) \in DOMAIN (s \o t) /\ (s \o t)[i + Len(s)] = t[i]
    BY <1>1, <1>2
  <2> QED BY <2>1, <2>2 DEF Tells
<1> QED
  BY <1>3, <1>4

(* A message alone.                                                          *)
LEMMA Alone ==
    ASSUME NEW role, NEW what, NEW size
    PROVE  /\ IsSeq(<<Message(role, what, size)>>)
           /\ role = "system" /\ what = "context" => Tells(<<Message(role, what, size)>>)
<1> DEFINE m == Message(role, what, size)
<1>1. m.role = role /\ m.what = what
  BY DEF Message
<1> HIDE DEF m
<1>2. IsSeq(<<m>>) /\ <<m>>[1] = m /\ DOMAIN <<m>> = {1}
  BY Single
<1> QED
  BY <1>1, <1>2 DEF Tells, m

(* Nothing is a list too.                                                    *)
LEMMA Nothing == IsSeq(<<>>)
  BY EmptySeq DEF IsSeq

(* Whatever the prompt, the system's messages tell the context there is.     *)
LEMMA Prompted ==
    ASSUME NEW custom, NEW facts
    PROVE  /\ IsSeq(Opening(custom, facts))
           /\ context # <<>> => Tells(Opening(custom, facts))
<1> DEFINE product == context # <<>> /\ Mentions(query.text, DetailKeywords) /\ ~AsksField /\ ~Structured /\ custom = 0
           prompt  == IF Structured THEN 80 ELSE IF custom > 0 THEN custom ELSE 350
           memory  == IF facts = 0 THEN <<>> ELSE <<Message("system", "facts", facts)>>
           first   == <<Message("system", "context", prompt + ContextSize)>>
           plain   == <<Message("system", "prompt", prompt)>>
           last    == IF context = <<>> THEN <<>> ELSE <<Message("system", "context", ContextSize)>>
<1>1. Opening(custom, facts) = IF product THEN first \o memory ELSE plain \o memory \o last
  BY DEF Opening
<1>2. IsSeq(memory)
  BY Nothing, Alone
<1>3. IsSeq(first) /\ Tells(first)
  BY Alone
<1>4. IsSeq(plain)
  BY Alone
<1>5. IsSeq(last) /\ (context # <<>> => Tells(last))
  BY Nothing, Alone
<1>6. product => context # <<>>
  OBVIOUS
<1> HIDE DEF product, memory, first, plain, last
<1>7. IsSeq(first \o memory) /\ Tells(first \o memory)
  BY <1>2, <1>3, Joining, Telling
<1>8. IsSeq(plain \o memory)
  BY <1>2, <1>4, Joining
<1>9. IsSeq((plain \o memory) \o last) /\ (Tells(last) => Tells((plain \o memory) \o last))
  BY <1>5, <1>8, Joining, Telling
<1> QED
  BY <1>1, <1>5, <1>7, <1>9

(* A stretch of a sequence.                                                  *)
LEMMA Stretch ==
    ASSUME NEW s, IsSeq(s), NEW m \in Nat \ {0}, NEW n \in Nat, n <= Len(s)
    PROVE  /\ IsSeq(SubSeq(s, m, n))
           /\ DOMAIN SubSeq(s, m, n) = 1..(n - m + 1)
           /\ \A i \in 1..(n - m + 1) : SubSeq(s, m, n)[i] = s[m + i - 1]
<1>1. Len(s) \in Nat /\ DOMAIN s = 1..Len(s)
  BY Shape
<1>2. \A i \in m..n : s[i] \in Range1(s)
  BY <1>1 DEF Range1
<1>3. /\ SubSeq(s, m, n) \in Seq(Range1(s))
      /\ Len(SubSeq(s, m, n)) = IF m <= n THEN n - m + 1 ELSE 0
      /\ \A i \in 1..(n - m + 1) : SubSeq(s, m, n)[i] = s[m + i - 1]
  BY <1>2, SubSeqProperties
<1>4. IsSeq(SubSeq(s, m, n))
  BY <1>3, OfElements
<1>5. DOMAIN SubSeq(s, m, n) = 1..Len(SubSeq(s, m, n))
  BY <1>4, Shape
<1>6. 1..Len(SubSeq(s, m, n)) = 1..(n - m + 1)
  BY <1>3
<1> QED
  BY <1>3, <1>4, <1>5, <1>6

(* The question and the turns before it.                                     *)
LEMMA Conversation ==
    ASSUME Requested
    PROVE  IsSeq(Asked) /\ IsSeq(Turns(history))
<1>1. IsSeq(Asked)
  BY Alone DEF Asked
<1>2. IsSeq(history)
  BY QueryAssumption, OfElements DEF Requested
<1> DEFINE m == IF Len(history) > 4 THEN Len(history) - 3 ELSE 1
           last == SubSeq(history, m, Len(history))
           Said(i) == Message(last[i], "turn", IF last[i] = "assistant" THEN 75 ELSE 25)
<1>3. Turns(history) = [i \in DOMAIN last |-> Said(i)]
  BY DEF Turns, Last4
<1>4. m \in Nat \ {0} /\ Len(history) \in Nat /\ Len(history) <= Len(history)
  <2>1. Len(history) \in Nat
    BY <1>2, Shape
  <2>2. m \in Nat \ {0}
    <3>1. PICK size \in Nat : size = Len(history)
      BY <2>1
    <3>2. m = IF size > 4 THEN size - 3 ELSE 1
      BY <3>1
    <3> HIDE DEF m
    <3> QED BY <3>2
  <2> HIDE DEF m
  <2> QED BY <2>1, <2>2
<1> HIDE DEF m
<1>5. IsSeq(last)
  BY <1>2, <1>4, Stretch
<1>6. Len(last) \in Nat /\ DOMAIN last = 1..Len(last)
  BY <1>5, Shape
<1> HIDE DEF last, Said
<1> DEFINE turns == [i \in DOMAIN last |-> Said(i)]
<1>7. DOMAIN turns = 1..Len(last) /\ turns = [i \in DOMAIN turns |-> turns[i]]
  BY <1>6
<1> HIDE DEF turns
<1>8. IsSeq(turns)
  BY <1>6, <1>7, Listing
<1> QED
  BY <1>1, <1>3, <1>8 DEF turns

(* Compression removes no message of the system's.                           *)
LEMMA Trimming ==
    ASSUME NEW s, IsSeq(s)
    PROVE  /\ IsSeq(Trimmed(s))
           /\ Tells(s) => Tells(Trimmed(s))
<1> DEFINE others == {i \in DOMAIN s : s[i].role # "system"}
           k      == CHOOSE i \in others : \A j \in others : i <= j
           before == SubSeq(s, 1, k - 1)
           after  == SubSeq(s, k + 1, Len(s))
<1>1. CASE others = {}
  BY <1>1 DEF Trimmed
<1>2. CASE others # {}
  <2>1. Trimmed(s) = before \o after
    BY <1>2 DEF Trimmed, RemoveAt
  <2>2. Len(s) \in Nat /\ DOMAIN s = 1..Len(s)
    BY Shape
  <2>3. k \in others
    <3>1. others \in SUBSET (1..Len(s))
      BY <2>2
    <3>2. \E i \in others : \A j \in others : i <= j
      <4> HIDE DEF others
      <4> QED BY <1>2, <2>2, <3>1, Least
    <3> HIDE DEF others
    <3> QED BY <3>2
  <2>4. k \in 1..Len(s) /\ s[k].role # "system"
    BY <2>2, <2>3
  <2> HIDE DEF k
  <2>5. k - 1 \in Nat /\ k - 1 <= Len(s) /\ k + 1 \in Nat \ {0} /\ Len(s) <= Len(s)
    BY <2>2, <2>4
  <2>6. /\ IsSeq(before)
        /\ DOMAIN before = 1..(k - 1)
        /\ \A i \in 1..(k - 1) : before[i] = s[i]
    <3>1. /\ IsSeq(before)
          /\ DOMAIN before = 1..((k - 1) - 1 + 1)
          /\ \A i \in 1..((k - 1) - 1 + 1) : before[i] = s[1 + i - 1]
      BY <2>5, Stretch
    <3>2. (k - 1) - 1 + 1 = k - 1 /\ \A i \in 1..(k - 1) : 1 + i - 1 = i
      BY <2>5
    <3> HIDE DEF before
    <3> QED BY <3>1, <3>2
  <2>7. /\ IsSeq(after)
        /\ DOMAIN after = 1..(Len(s) - k)
        /\ \A i \in 1..(Len(s) - k) : after[i] = s[k + i]
    <3>1. /\ IsSeq(after)
          /\ DOMAIN after = 1..(Len(s) - (k + 1) + 1)
          /\ \A i \in 1..(Len(s) - (k + 1) + 1) : after[i] = s[(k + 1) + i - 1]
      BY <2>2, <2>5, Stretch
    <3>2. Len(s) - (k + 1) + 1 = Len(s) - k /\ \A i \in 1..(Len(s) - k) : (k + 1) + i - 1 = k + i
      BY <2>2, <2>4
    <3> HIDE DEF after
    <3> QED BY <3>1, <3>2
  <2> HIDE DEF before, after
  <2>8. IsSeq(before \o after) /\ (Tells(before) \/ Tells(after) => Tells(before \o after))
    BY <2>6, <2>7, Joining, Telling
  <2>9. Tells(s) => Tells(before) \/ Tells(after)
    <3> SUFFICES ASSUME NEW w \in DOMAIN s, s[w].role = "system", s[w].what = "context"
                 PROVE  Tells(before) \/ Tells(after)
      BY DEF Tells
    <3>1. w \in 1..Len(s) /\ w # k
      BY <2>2, <2>4
    <3>2. CASE w < k
      <4>1. w \in DOMAIN before /\ before[w] = s[w]
        BY <2>2, <2>4, <2>6, <3>1, <3>2
      <4> QED BY <4>1 DEF Tells
    <3>3. CASE w > k
      <4>1. w - k \in 1..(Len(s) - k) /\ k + (w - k) = w
        BY <2>2, <2>4, <3>1, <3>3
      <4>2. w - k \in DOMAIN after /\ after[w - k] = s[w]
        BY <2>7, <4>1
      <4> QED BY <4>2 DEF Tells
    <3> QED BY <2>2, <2>4, <3>1, <3>2, <3>3
  <2> QED BY <2>1, <2>8, <2>9
<1> QED
  BY <1>1, <1>2

-----------------------------------------------------------------------------
(* The steps. *)

(* What the database does not refuse breaks only by a fault, now or before.  *)
LEMMA Trusted == ASSUME Session PROVE Breaks(FALSE) => faults' # 0
  BY DEF Session, Breaks, Fault

(* Nobody takes back a fault.                                                *)
Onward == faults' \in Nat /\ faults <= faults'

(* A statement that works or breaks only ever adds faults.                   *)
LEMMA StatementOnward ==
    ASSUME Session, NEW refused \in BOOLEAN, UNCHANGED faults \/ Works(refused) \/ Breaks(refused)
    PROVE  Onward
  BY DEF Session, Works, Breaks, Fault, Onward

(* Before the search, and when the website is asked instead of it, nothing   *)
(* was matched in a request without faults.                                  *)
LEMMA Uninformed ==
    ASSUME Session, Knowledge, at \in Early \union {"website"}, UNCHANGED hit, Onward, Requested', Lists'
    PROVE  Knowledge'
<1>1. ~(faults = 0 /\ hit)
  BY DEF Knowledge, Informed
<1>2. ~(faults' = 0 /\ hit')
  BY <1>1 DEF Onward, Session
<1> QED
  BY <1>2 DEF Knowledge

(* What is not written stays a list, and what is not read anew is the same.  *)
LEMMA ListsStay == ASSUME Lists, UNCHANGED <<found, results, context, messages>> PROVE Lists'
  BY DEF Lists

(* What the request asks for stays.                                          *)
LEMMA ReadStays == ASSUME Requested, UNCHANGED <<inputs, plan>> PROVE Requested'
  BY DEF Requested, inputs

(* The plan is made of the query.                                            *)
LEMMA PlanStep == ASSUME Session, Knowledge, MakePlan PROVE Knowledge'
<1>1. /\ at \in Early /\ Onward /\ UNCHANGED <<hit, found, results, context, messages>>
      /\ UNCHANGED inputs /\ plan' \in {NoPlan, Planned(query.text)}
  BY DEF MakePlan, Early, Onward, Session, search
<1>2. Requested'
  BY <1>1 DEF Knowledge, Requested, inputs
<1> QED
  BY <1>1, <1>2, ListsStay, Uninformed DEF Knowledge

(* Governance, risk scoring and the way to the retrieval write no list.      *)
LEMMA EarlySteps ==
    ASSUME Session, Knowledge, Govern \/ ScoreRisk \/ Escalate \/ StartRetrieval \/ Word \/ NoHistory
    PROVE  Knowledge'
<1>1. at \in Early /\ UNCHANGED <<inputs, plan, hit, found, results, context, messages>>
  BY DEF Govern, ScoreRisk, Escalate, StartRetrieval, Word, NoHistory, Early, search, planned
<1>2. Onward
  <2>1. CASE Escalate
    <3>1. Works(FALSE) \/ Breaks(FALSE)
      BY <2>1 DEF Escalate
    <3> QED BY <3>1, StatementOnward
  <2>2. CASE Govern \/ ScoreRisk \/ StartRetrieval \/ Word \/ NoHistory
    BY <2>2 DEF Govern, ScoreRisk, StartRetrieval, Word, NoHistory, Onward, Session
  <2> QED BY <2>1, <2>2
<1> QED
  BY <1>1, <1>2, ListsStay, ReadStays, Uninformed DEF Knowledge

(* The structured lookup, with a row or without one.                         *)
LEMMA LookupStep == ASSUME Session, Knowledge, Lookup \/ LookupLike PROVE Knowledge'
<1>1. at \in Early /\ UNCHANGED <<inputs, plan, hit, found, results, messages>>
  BY DEF Lookup, LookupLike, Early, search, planned
<1>2. Onward
  <2>1. CASE Lookup
    <3>1. UNCHANGED faults \/ \E refused \in BOOLEAN : Works(refused) \/ Breaks(refused)
      BY <2>1, LookupStatement
    <3> QED BY <3>1, StatementOnward
  <2>2. CASE LookupLike
    <3>1. Works(FALSE) \/ Breaks(FALSE)
      BY <2>2 DEF LookupLike
    <3> QED BY <3>1, StatementOnward
  <2> QED BY <2>1, <2>2
<1>3. context' = context \/ context' = <<"fields">>
  BY DEF Lookup, LookupLike, UseFields
<1>4. IsSeq(context')
  BY <1>3, Single DEF Knowledge, Lists
<1>5. Lists'
  BY <1>1, <1>4 DEF Knowledge, Lists
<1> QED
  BY <1>1, <1>2, <1>5, ReadStays, Uninformed DEF Knowledge

(* The website is asked when the retrieval brought nothing.                  *)
LEMMA WebsiteStep == ASSUME Session, Knowledge, Website PROVE Knowledge'
<1>1. at = "website" /\ UNCHANGED <<inputs, plan, hit, found, results, messages>>
  BY DEF Website, search, planned
<1>2. Onward
  <2>1. Works(FALSE) \/ Breaks(FALSE)
    BY DEF Website
  <2> QED BY <2>1, StatementOnward
<1>3. IsSeq(context')
  <2>1. context' \in {context, <<"website">>, <<>>}
    BY DEF Website
  <2> QED BY <2>1, Single, Nothing DEF Knowledge, Lists
<1>4. Lists'
  BY <1>1, <1>3 DEF Knowledge, Lists
<1> QED
  BY <1>1, <1>2, <1>4, ReadStays, Uninformed DEF Knowledge

(* A retrieval without faults that matched something goes on with it.        *)
LEMMA NearStep == ASSUME Session, Knowledge, Near PROVE Knowledge'
<1>1. /\ at = "retrieve" /\ hit' = (hit \/ Matches)
      /\ UNCHANGED <<inputs, plan, intent, view, results, context, messages>>
  BY DEF Near, planned
<1>2. \/ found' = Nearest /\ Works(FALSE)
      \/ found' = <<>> /\ Breaks(FALSE)
  BY DEF Near
<1>3. at' \in {"pin", "location", "keyword"}
  BY DEF Near, Go, AfterNear, AfterPin
<1>4. Requested' /\ Lists'
  <2>1. IsSeq(found')
    BY <1>2, Searched, Nothing DEF Knowledge
  <2> QED BY <1>1, <2>1, ReadStays DEF Knowledge, Lists
<1>5. ASSUME faults' = 0, hit' PROVE Informed'
  <2>1. found' = Nearest /\ faults = 0
    BY <1>2, <1>5, Trusted DEF Works
  <2>2. CASE Matches
    <3>1. Nearest # <<>> \/ (IF migrated THEN FullText ELSE Likes) # <<>>
      BY <2>2 DEF Matches
    <3>2. (IF migrated THEN FullText ELSE Likes)' = (IF migrated THEN FullText ELSE Likes)
      BY <1>1, SameSearch DEF inputs
    <3>3. Offered'
      BY <2>1, <3>1, <3>2 DEF Offered
    <3> QED BY <1>3, <3>3 DEF Informed, Early, Searching, Talking
  <2>3. CASE ~Matches
    <3>1. Remembers
      BY <1>1, <1>5, <2>1, <2>3 DEF Knowledge, Informed
    <3>2. Remembers'
      BY <1>1, <3>1 DEF Remembers, Agentic, Known
    <3> QED BY <1>3, <3>2 DEF Informed, Early, Searching, Talking
  <2> QED BY <2>2, <2>3
<1> QED
  BY <1>4, <1>5 DEF Knowledge

(* Without an embedding nothing is returned, by a fault.                     *)
LEMMA NoEmbeddingStep == ASSUME Session, Knowledge, NoEmbedding PROVE Knowledge'
<1>1. /\ faults' # 0 /\ results' = <<>>
      /\ UNCHANGED <<inputs, plan, found, context, messages>>
  BY DEF NoEmbedding, Fault, Session, planned
<1>2. Requested' /\ Lists'
  BY <1>1, ReadStays, Nothing DEF Knowledge, Lists
<1> QED
  BY <1>1, <1>2 DEF Knowledge

(* Neither the product's page nor the stores take the place of all.          *)
LEMMA FrontStep == ASSUME Session, Knowledge, Pin \/ Locate PROVE Knowledge'
<1>1. /\ at \in {"pin", "location"} /\ at' \in {"location", "keyword"}
      /\ UNCHANGED <<inputs, plan, intent, view, hit, results, context, messages>>
  BY DEF Pin, Locate, Go, AfterPin, planned
<1>2. found' = found \/ found' = Pinned(Page) \/ found' = Located
  BY DEF Pin, Locate
<1>3. IsSeq(found') /\ (found # <<>> => found' # <<>>)
  BY <1>2, Pinning, Locating DEF Knowledge, Lists
<1>4. Requested' /\ Lists'
  BY <1>1, <1>3, ReadStays DEF Knowledge, Lists
<1>5. Works(FALSE) \/ Breaks(FALSE)
  BY DEF Pin, Locate
<1>6. ASSUME faults' = 0, hit' PROVE Informed'
  <2>1. faults = 0 /\ hit
    BY <1>1, <1>5, <1>6, Trusted DEF Works
  <2>2. Offered \/ Remembers
    BY <1>1, <2>1 DEF Knowledge, Informed, Searching
  <2>3. (IF migrated THEN FullText ELSE Likes)' = (IF migrated THEN FullText ELSE Likes)
    BY <1>1, SameSearch DEF inputs
  <2>4. Offered => Offered'
    BY <1>3, <2>3 DEF Offered
  <2>5. Remembers => Remembers'
    BY <1>1 DEF Remembers, Agentic, Known
  <2> QED BY <1>1, <2>2, <2>4, <2>5 DEF Informed, Early, Searching, Talking
<1> QED
  BY <1>4, <1>6 DEF Knowledge

(* The keyword search returns, or hands over to ILIKE: on a table without    *)
(* the fts column only, as long as there was no fault.                       *)
LEMMA KeywordStep == ASSUME Session, Knowledge, Keyword PROVE Knowledge'
<1> DEFINE refused == ~migrated
<1>1. /\ at = "keyword"
      /\ UNCHANGED <<inputs, plan, intent, view, hit, found, context, messages>>
  BY DEF Keyword, planned
<1>2. \/ Works(refused) /\ Retrieved(FullText)
      \/ Breaks(refused) /\ at' = "keyword_like" /\ results' = results
  BY DEF Keyword, Go
<1>3. CASE Works(refused) /\ Retrieved(FullText)
  <2>1. migrated /\ faults' = faults
    BY <1>3 DEF Works
  <2>2. /\ IsSeq(results') /\ at' = "returned"
        /\ found # <<>> \/ FullText # <<>> => results' # <<>>
    BY <1>3, Searched, Returning DEF Knowledge, Lists
  <2>3. Requested' /\ Lists'
    BY <1>1, <2>2, ReadStays DEF Knowledge, Lists
  <2>4. ASSUME faults' = 0, hit' PROVE Informed'
    <3>1. Offered \/ Remembers
      BY <1>1, <2>1, <2>4 DEF Knowledge, Informed, Searching
    <3>2. Offered => results' # <<>>
      BY <2>1, <2>2 DEF Offered
    <3>3. Remembers => Remembers'
      BY <1>1 DEF Remembers, Agentic, Known
    <3> QED BY <2>2, <3>1, <3>2, <3>3 DEF Informed, Early, Searching, Talking
  <2> QED BY <2>3, <2>4 DEF Knowledge
<1>4. CASE Breaks(refused) /\ at' = "keyword_like" /\ results' = results
  <2>1. Requested' /\ Lists'
    BY <1>1, <1>4, ReadStays, ListsStay DEF Knowledge
  <2>2. faults' = 0 => ~migrated /\ faults = 0
    BY <1>4 DEF Breaks, Fault, Session
  <2>3. ASSUME faults' = 0, hit' PROVE Informed'
    <3>1. Offered \/ Remembers
      BY <1>1, <2>2, <2>3 DEF Knowledge, Informed, Searching
    <3>2. (IF migrated THEN FullText ELSE Likes)' = (IF migrated THEN FullText ELSE Likes)
      BY <1>1, SameSearch DEF inputs
    <3>3. Offered => Offered'
      BY <1>1, <3>2 DEF Offered
    <3>4. Remembers => Remembers'
      BY <1>1 DEF Remembers, Agentic, Known
    <3>5. ~migrated'
      BY <1>1, <2>2, <2>3 DEF inputs
    <3> QED BY <1>4, <3>1, <3>3, <3>4, <3>5 DEF Informed, Early, Searching, Talking
  <2> QED BY <2>1, <2>3 DEF Knowledge
<1> QED
  BY <1>2, <1>3, <1>4

(* ILIKE is the last search, and it returns.                                 *)
LEMMA KeywordLikeStep == ASSUME Session, Knowledge, KeywordLike PROVE Knowledge'
<1>1. /\ at = "keyword_like"
      /\ UNCHANGED <<inputs, plan, intent, view, hit, found, context, messages>>
  BY DEF KeywordLike, planned
<1>2. \/ Works(FALSE) /\ Retrieved(Likes)
      \/ Breaks(FALSE) /\ Retrieved(<<>>)
  BY DEF KeywordLike
<1>3. /\ IsSeq(results') /\ at' = "returned"
      /\ found # <<>> => results' # <<>>
      /\ Likes # <<>> => results' # <<>> \/ Breaks(FALSE)
  <2>1. Requested /\ IsSeq(found) /\ IsSeq(Likes)
    BY Searched DEF Knowledge, Lists
  <2>2. CASE Works(FALSE) /\ Retrieved(Likes)
    <3>1. /\ IsSeq(results') /\ at' = "returned"
          /\ found # <<>> \/ Likes # <<>> => results' # <<>>
      BY <2>1, <2>2, Returning
    <3> QED BY <3>1
  <2>3. CASE Breaks(FALSE) /\ Retrieved(<<>>)
    <3>1. PICK none : none = <<>>
      OBVIOUS
    <3>2. IsSeq(none) /\ Retrieved(none)
      BY <2>3, <3>1, Nothing
    <3>3. IsSeq(results') /\ at' = "returned" /\ (found # <<>> => results' # <<>>)
      BY <2>1, <3>2, Returning
    <3> QED BY <2>3, <3>3
  <2> QED BY <1>2, <2>2, <2>3
<1>4. Requested' /\ Lists'
  BY <1>1, <1>3, ReadStays DEF Knowledge, Lists
<1>5. ASSUME faults' = 0, hit' PROVE Informed'
  <2>1. Works(FALSE) /\ faults = 0
    BY <1>2, <1>5, Trusted DEF Works
  <2>2. ~migrated /\ (Offered \/ Remembers)
    BY <1>1, <1>5, <2>1 DEF Knowledge, Informed, Searching
  <2>3. Offered => results' # <<>>
    BY <1>3, <1>5, <2>1, <2>2, Trusted DEF Offered
  <2>4. Remembers => Remembers'
    BY <1>1 DEF Remembers, Agentic, Known
  <2> QED BY <1>3, <2>2, <2>3, <2>4 DEF Informed, Early, Searching, Talking
<1> QED
  BY <1>4, <1>5 DEF Knowledge

(* What a retrieval returned is what the context is made of.                 *)
LEMMA ContextBuilt ==
    ASSUME IsSeq(results)
    PROVE  /\ IsSeq(Contents)
           /\ results # <<>> => \E i \in DOMAIN Contents : Contents[i] = "chunk"
<1>1. Len(results) \in Nat /\ DOMAIN results = 1..Len(results) /\ (results = <<>> <=> Len(results) = 0)
  BY Shape
<1>2. Contents = [i \in DOMAIN results |-> "chunk"]
  BY DEF Contents
<1>3. DOMAIN Contents = 1..Len(results) /\ Contents = [i \in DOMAIN Contents |-> Contents[i]]
  BY <1>1, <1>2
<1>4. IsSeq(Contents)
  BY <1>1, <1>3, Listing
<1>5. ASSUME results # <<>> PROVE \E i \in DOMAIN Contents : Contents[i] = "chunk"
  <2>1. 1 \in DOMAIN results
    BY <1>1, <1>5
  <2>2. 1 \in DOMAIN Contents /\ Contents[1] = "chunk"
    BY <1>2, <2>1
  <2> QED BY <2>2
<1> QED
  BY <1>4, <1>5

(* A retrieval that matched fills the context, and the website is not asked. *)
LEMMA UseStep == ASSUME Session, Knowledge, Use PROVE Knowledge'
<1>1. /\ at = "returned" /\ ~Agentic /\ context' = Contents
      /\ at' = IF results = <<>> THEN "website" ELSE "prompt"
      /\ UNCHANGED <<inputs, plan, hit, faults, found, results, messages>>
  BY DEF Use, Go, planned, search
<1>2. Requested' /\ Lists'
  BY <1>1, ContextBuilt, ReadStays DEF Knowledge, Lists
<1>3. ASSUME faults' = 0, hit' PROVE Informed'
  <2>1. results # <<>>
    BY <1>1, <1>3 DEF Knowledge, Informed, Remembers
  <2>2. Known'
    BY <1>1, <2>1, ContextBuilt DEF Knowledge, Lists, Known
  <2> QED BY <1>1, <2>1, <2>2 DEF Informed, Early, Searching, Talking
<1> QED
  BY <1>2, <1>3 DEF Knowledge

(* The agentic loop keeps what an earlier loop brought.                      *)
LEMMA GatherStep == ASSUME Session, Knowledge, Gather PROVE Knowledge'
<1>1. /\ at = "returned" /\ Agentic
      /\ UNCHANGED <<inputs, plan, intent, hit, faults, found, results, messages>>
  BY DEF Gather, planned
<1>2. \/ results = <<>> /\ context' = context /\ at' \in {"graph", "prompt"}
      \/ results # <<>> /\ context' = Contents /\ at' \in {"graph", "prompt", "check"}
  BY DEF Gather, Go, AfterLoops
<1>3. Requested' /\ Lists'
  BY <1>1, <1>2, ContextBuilt, ReadStays DEF Knowledge, Lists
<1>4. ASSUME faults' = 0, hit' PROVE Informed'
  <2>1. results # <<>> \/ Remembers
    BY <1>1, <1>4 DEF Knowledge, Informed
  <2>2. Known'
    <3>1. CASE results = <<>>
      BY <1>2, <2>1, <3>1 DEF Remembers, Known
    <3>2. CASE results # <<>>
      BY <1>2, <3>2, ContextBuilt DEF Knowledge, Lists, Known
    <3> QED BY <3>1, <3>2
  <2>3. Remembers'
    BY <1>1, <2>2 DEF Remembers, Agentic
  <2> QED BY <1>2, <2>2, <2>3 DEF Informed, Early, Searching, Talking
<1> QED
  BY <1>3, <1>4 DEF Knowledge

(* The check sends the request on, or back with another query.               *)
LEMMA CheckStep == ASSUME Session, Knowledge, Check PROVE Knowledge'
<1>1. /\ at = "check" /\ at' \in {"graph", "prompt", "retrieve"}
      /\ UNCHANGED <<inputs, plan, intent, hit, faults, found, results, context, messages>>
  BY DEF Check, Go, AfterLoops, planned
<1>2. Requested' /\ Lists'
  BY <1>1, ReadStays, ListsStay DEF Knowledge
<1>3. ASSUME faults' = 0, hit' PROVE Informed'
  <2>1. Remembers
    BY <1>1, <1>3 DEF Knowledge, Informed
  <2>2. Remembers' /\ Known'
    BY <1>1, <2>1 DEF Remembers, Agentic, Known
  <2> QED BY <1>1, <2>2 DEF Informed, Early, Searching, Talking
<1> QED
  BY <1>2, <1>3 DEF Knowledge

(* What the graph adds stands before the chunks.                             *)
LEMMA GraphStep == ASSUME Session, Knowledge, Graph PROVE Knowledge'
<1> DEFINE graph == <<"graph">>
<1>1. /\ at = "graph" /\ at' = "prompt"
      /\ UNCHANGED <<inputs, plan, intent, hit, found, results, messages>>
      /\ context' = context \/ context' = graph \o context
  BY DEF Graph, Go, planned, search
<1>2. Works(FALSE) \/ Breaks(FALSE)
  BY DEF Graph
<1>3. IsSeq(graph) /\ Len(graph) = 1 /\ IsSeq(context)
  BY Single DEF Knowledge, Lists
<1> HIDE DEF graph
<1>4. /\ IsSeq(graph \o context) /\ Len(graph \o context) = 1 + Len(context)
      /\ \A i \in 1..Len(context) : (graph \o context)[i + 1] = context[i]
  <2>1. /\ IsSeq(graph \o context) /\ Len(graph \o context) = Len(graph) + Len(context)
        /\ \A i \in 1..Len(context) : (graph \o context)[i + Len(graph)] = context[i]
    <3>1. IsSeq(graph) /\ IsSeq(context)
      BY <1>3
    <3> QED BY ONLY <3>1, Joining
  <2> QED BY <1>3, <2>1
<1>5. Requested' /\ Lists'
  BY <1>1, <1>3, <1>4, ReadStays DEF Knowledge, Lists
<1>6. ASSUME faults' = 0, hit' PROVE Informed'
  <2>1. Known
    BY <1>1, <1>2, <1>6, Trusted DEF Knowledge, Informed, Works
  <2>2. CASE context' = context
    BY <1>1, <2>1, <2>2 DEF Known, Informed, Early, Searching, Talking
  <2>3. CASE context' = graph \o context
    <3>1. PICK i \in DOMAIN context : context[i] = "chunk"
      BY <2>1 DEF Known
    <3>2. Len(context) \in Nat /\ DOMAIN context = 1..Len(context)
      BY <1>3, Shape
    <3>3. DOMAIN (graph \o context) = 1..(1 + Len(context))
      BY <1>4, Shape
    <3>4. i + 1 \in DOMAIN (graph \o context) /\ (graph \o context)[i + 1] = "chunk"
      BY <1>4, <3>1, <3>2, <3>3
    <3>5. Known'
      BY <2>3, <3>4 DEF Known
    <3> QED BY <1>1, <3>5 DEF Informed, Early, Searching, Talking
  <2> QED BY <1>1, <2>2, <2>3
<1> QED
  BY <1>5, <1>6 DEF Knowledge

(* The prompt brings the context, whatever prompt it is.                     *)
LEMMA PromptStep == ASSUME Session, Knowledge, Prompt PROVE Knowledge'
<1>1. /\ at = "prompt" /\ at' \in {"compress", "turns"}
      /\ UNCHANGED <<inputs, plan, hit, found, results, context>>
  BY DEF Prompt, Go, planned, search
<1>2. \E custom, facts : messages' = Opening(custom, facts) \/ messages' = Opening(custom, facts) \o Asked
  BY DEF Prompt
<1>3. UNCHANGED faults \/ Works(FALSE) \/ Breaks(FALSE)
  BY DEF Prompt
<1>4. IsSeq(messages') /\ (context # <<>> => Tells(messages'))
  <2>1. IsSeq(Asked)
    BY Conversation DEF Knowledge
  <2>2. PICK custom, facts : messages' = Opening(custom, facts) \/ messages' = Opening(custom, facts) \o Asked
    BY <1>2
  <2>3. IsSeq(Opening(custom, facts)) /\ (context # <<>> => Tells(Opening(custom, facts)))
    BY Prompted
  <2> QED BY <2>1, <2>2, <2>3, Joining, Telling
<1>5. Requested' /\ Lists'
  BY <1>1, <1>4, ReadStays DEF Knowledge, Lists
<1>6. ASSUME faults' = 0, hit' PROVE Informed'
  <2>1. Known
    BY <1>1, <1>3, <1>6, Trusted DEF Knowledge, Informed, Works
  <2>2. context # <<>>
    <3>1. DOMAIN context # {}
      BY <2>1 DEF Known
    <3> QED BY <3>1
  <2>3. Known' /\ Briefed'
    BY <1>1, <1>4, <2>1, <2>2 DEF Known, Briefed, Tells
  <2> QED BY <1>1, <2>3 DEF Informed, Early, Searching, Talking
<1> QED
  BY <1>5, <1>6 DEF Knowledge

(* The turns and the question follow.                                        *)
LEMMA LoadTurnsStep == ASSUME Session, Knowledge, LoadTurns PROVE Knowledge'
<1>1. /\ at = "turns" /\ at' = "compress"
      /\ UNCHANGED <<inputs, plan, hit, found, results, context>>
  BY DEF LoadTurns, Go, planned, search
<1>2. messages' = messages \o Turns(history) \o Asked \/ messages' = messages \o Asked
  BY DEF LoadTurns
<1>3. UNCHANGED faults \/ Works(FALSE) \/ Breaks(FALSE)
  BY DEF LoadTurns
<1>4. IsSeq(messages') /\ (Tells(messages) => Tells(messages'))
  <2>1. IsSeq(messages) /\ IsSeq(Asked) /\ IsSeq(Turns(history))
    BY Conversation DEF Knowledge, Lists
  <2>2. IsSeq(messages \o Turns(history)) /\ (Tells(messages) => Tells(messages \o Turns(history)))
    BY <2>1, Joining, Telling
  <2>3. CASE messages' = (messages \o Turns(history)) \o Asked
    BY <2>1, <2>2, <2>3, Joining, Telling
  <2>4. CASE messages' = messages \o Asked
    BY <2>1, <2>4, Joining, Telling
  <2> QED BY <1>2, <2>3, <2>4
<1>5. Requested' /\ Lists'
  BY <1>1, <1>4, ReadStays DEF Knowledge, Lists
<1>6. ASSUME faults' = 0, hit' PROVE Informed'
  <2>1. Known /\ Briefed
    BY <1>1, <1>3, <1>6, Trusted DEF Knowledge, Informed, Talking, Works
  <2>2. Known' /\ Briefed'
    BY <1>1, <1>4, <2>1 DEF Known, Briefed, Tells
  <2> QED BY <1>1, <2>2 DEF Informed, Early, Searching, Talking
<1> QED
  BY <1>5, <1>6 DEF Knowledge

(* Compression leaves the context where it is.                               *)
LEMMA CompressStep == ASSUME Session, Knowledge, Compress PROVE Knowledge'
<1>1. /\ at = "compress" /\ at' \in {"compress", "model"}
      /\ messages' = Trimmed(messages) \/ messages' = messages
      /\ UNCHANGED <<inputs, plan, hit, faults, found, results, context>>
  BY DEF Compress, Go, planned, search
<1>2. IsSeq(messages') /\ (Tells(messages) => Tells(messages'))
  BY <1>1, Trimming DEF Knowledge, Lists
<1>3. Requested' /\ Lists'
  BY <1>1, <1>2, ReadStays DEF Knowledge, Lists
<1>4. ASSUME faults' = 0, hit' PROVE Informed'
  <2>1. Known /\ Briefed
    BY <1>1, <1>4 DEF Knowledge, Informed, Talking
  <2>2. Known' /\ Briefed'
    BY <1>1, <1>2, <2>1 DEF Known, Briefed, Tells
  <2> QED BY <1>1, <2>2 DEF Informed, Early, Searching, Talking
<1> QED
  BY <1>3, <1>4 DEF Knowledge

(* The model and the meter change nothing of it.                             *)
LEMMA EndingSteps == ASSUME Session, Knowledge, Generate \/ Meter PROVE Knowledge'
<1>1. /\ at' \in {"meter", "done"}
      /\ UNCHANGED <<inputs, plan, found, results, context, messages>>
  BY DEF Generate, Meter, Reply, Go, planned, search
<1>2. Requested' /\ Lists'
  BY <1>1, ReadStays, ListsStay DEF Knowledge
<1>3. Informed'
  BY <1>1 DEF Informed, Early, Searching, Talking
<1> QED
  BY <1>2, <1>3 DEF Knowledge

(* Nothing changes.                                                          *)
LEMMA KnowledgeStutters == ASSUME Knowledge, UNCHANGED vars PROVE Knowledge'
<1>1. UNCHANGED <<inputs, plan, intent, view, at, hit, faults, found, results, context, messages>>
  BY DEF vars, search, planned
<1>2. Requested' /\ Lists'
  BY <1>1, ReadStays, ListsStay DEF Knowledge
<1>3. ASSUME faults' = 0, hit' PROVE Informed'
  <2>1. Informed
    BY <1>1, <1>3 DEF Knowledge
  <2>2. (IF migrated THEN FullText ELSE Likes)' = (IF migrated THEN FullText ELSE Likes)
    BY <1>1, SameSearch DEF inputs
  <2>3. Offered' = Offered
    BY <1>1, <2>2 DEF Offered
  <2>4. Remembers' = Remembers /\ Known' = Known /\ Briefed' = Briefed
    BY <1>1 DEF Remembers, Agentic, Known, Briefed
  <2> QED BY <1>1, <2>1, <2>3, <2>4 DEF Informed, inputs
<1> QED
  BY <1>2, <1>3 DEF Knowledge

(* Every step keeps it.                                                      *)
LEMMA KnowledgeKept == Session /\ Knowledge /\ [Next]_vars => Knowledge'
  BY PlanStep, EarlySteps, LookupStep, WebsiteStep, NearStep, NoEmbeddingStep, FrontStep, KeywordStep,
     KeywordLikeStep, UseStep, GatherStep, CheckStep, GraphStep, PromptStep, LoadTurnsStep, CompressStep,
     EndingSteps, KnowledgeStutters
  DEF Next, Retrieve

(* A request starts without any of it.                                       *)
LEMMA KnowledgeInit == Init => Knowledge
<1> SUFFICES ASSUME Init PROVE Knowledge
  OBVIOUS
<1>1. Requested /\ ~hit
  BY DEF Init, Requested
<1>2. Lists
  BY Nothing DEF Init, Lists
<1> QED
  BY <1>1, <1>2 DEF Knowledge

(* Whatever retrieval of a request without faults matched a chunk, the model *)
(* is given a context made of chunks, and a message of the system brings it: *)
(* one retrieval that finds nothing, the order of the searches, the cuts,    *)
(* one chunk per title and the compression never take the last of them       *)
(* (_keyword_search, _agentic_retrieve, build_messages, _compress).          *)
THEOREM KnowledgeArrives == Spec => []KnowledgeReachesTheModel
<1>1. Knowledge => KnowledgeReachesTheModel
  <2> SUFFICES ASSUME Knowledge, at = "model", faults = 0, hit
               PROVE  Holds("context") /\ context # <<"website">>
    BY DEF KnowledgeReachesTheModel
  <2>1. Known /\ Briefed
    BY DEF Knowledge, Informed, Talking
  <2>2. Holds("context")
    BY <2>1 DEF Briefed, Holds
  <2>3. context # <<"website">>
    <3>1. DOMAIN <<"website">> = {1} /\ <<"website">>[1] # "chunk"
      OBVIOUS
    <3> QED BY <2>1, <3>1 DEF Known
  <2> QED BY <2>2, <2>3
<1>2. Session /\ Knowledge /\ [Next]_vars => Knowledge'
  BY KnowledgeKept
<1> QED
  BY <1>1, <1>2, KnowledgeInit, SessionInvariant, PTL DEF Spec

-----------------------------------------------------------------------------
(* Recursion up to a number. *)

(* Induction up to n.                                                        *)
LEMMA Counting ==
    ASSUME NEW n \in Nat, NEW S, 0 \in S, \A i \in 1..n : i - 1 \in S => i \in S
    PROVE  0..n \subseteq S
<1> DEFINE others == {i \in 1..n : i \notin S}
<1>1. ASSUME others # {} PROVE FALSE
  <2>1. others \in SUBSET (1..n)
    OBVIOUS
  <2> HIDE DEF others
  <2>2. PICK i \in others : \A j \in others : i <= j
    BY <1>1, <2>1, Least
  <2>3. i \in 1..n /\ i \notin S
    BY DEF others
  <2>4. i - 1 \notin others
    BY <2>2, <2>3
  <2>5. i - 1 = 0 \/ i - 1 \in 1..n
    BY <2>3
  <2> QED BY <2>3, <2>4, <2>5 DEF others
<1>2. \A i \in 0..n : i = 0 \/ i \in 1..n
  OBVIOUS
<1> QED
  BY <1>1, <1>2

(* A function by recursion up to n: each value from the ones before it.      *)
Follows(f, n, base, next) == f[0] = base /\ \A i \in 1..n : f[i] = next[i][f]

(* There is such a function.                                                *)
LEMMA Recursion ==
    ASSUME NEW n \in Nat, NEW V, NEW base \in V, NEW next \in [1..n -> [[0..n -> V] -> V]],
           \A i \in 1..n, f, g \in [0..n -> V] : (\A j \in 0..(i - 1) : f[j] = g[j]) => next[i][f] = next[i][g]
    PROVE  \E f \in [0..n -> V] : Follows(f, n, base, next)
<1> DEFINE S == {k \in 0..n : \E f \in [0..n -> V] : Follows(f, k, base, next)}
<1>1. 0 \in S
  <2> DEFINE f == [i \in 0..n |-> base]
  <2>1. f \in [0..n -> V] /\ Follows(f, 0, base, next)
    BY DEF Follows
  <2> HIDE DEF f
  <2>2. 0 \in 0..n
    OBVIOUS
  <2> QED BY <2>1, <2>2
<1>2. ASSUME NEW k \in 1..n, k - 1 \in S PROVE k \in S
  <2>1. PICK f \in [0..n -> V] : Follows(f, k - 1, base, next)
    BY <1>2
  <2> DEFINE g == [i \in 0..n |-> IF i = k THEN next[k][f] ELSE f[i]]
  <2>2. g \in [0..n -> V]
    OBVIOUS
  <2>3. g[k] = next[k][f] /\ \A i \in 0..(k - 1) : g[i] = f[i]
    OBVIOUS
  <2> HIDE DEF g
  <2>4. ASSUME NEW i \in 1..k PROVE g[i] = next[i][g]
    <3>1. i \in 1..n /\ \A j \in 0..(i - 1) : j \in 0..(k - 1)
      OBVIOUS
    <3>2. next[i][f] = next[i][g]
      <4>1. \A j \in 0..(i - 1) : f[j] = g[j]
        BY <2>3, <3>1
      <4> QED BY <2>2, <3>1, <4>1
    <3>3. CASE i = k
      BY <2>3, <3>2, <3>3
    <3>4. CASE i # k
      <4>1. i \in 1..(k - 1) /\ i \in 0..(k - 1)
        BY <3>4
      <4> QED BY <2>1, <2>3, <3>2, <4>1 DEF Follows
    <3> QED BY <3>3, <3>4
  <2>5. g[0] = base
    <3>1. 0 \in 0..(k - 1)
      OBVIOUS
    <3> QED BY <2>1, <2>3, <3>1 DEF Follows
  <2>6. Follows(g, k, base, next)
    BY <2>4, <2>5 DEF Follows
  <2>7. k \in 0..n
    OBVIOUS
  <2> QED BY <2>2, <2>6, <2>7
<1> HIDE DEF S
<1>3. 0..n \subseteq S
  BY <1>1, <1>2, Counting
<1>4. n \in S
  BY <1>3
<1> QED
  BY <1>4 DEF S

-----------------------------------------------------------------------------
(* FlattenSeq adds the sequences up one after the other.                     *)
AddsUp(f, seqs, n) ==
    /\ f[0] = <<>>
    /\ \A i \in 0..n : IsSeq(f[i])
    /\ \A i \in 1..n : f[i] = f[i - 1] \o seqs[i]

(* Lists one after the other are what their parts add up to.                *)
LEMMA Flattening ==
    ASSUME NEW n \in Nat, NEW seqs, DOMAIN seqs = 1..n, seqs = [i \in DOMAIN seqs |-> seqs[i]],
           \A i \in 1..n : IsSeq(seqs[i])
    PROVE  \E f : AddsUp(f, seqs, n) /\ FlattenSeq(seqs) = f[n]
<1> DEFINE U == UNION {Range1(seqs[i]) : i \in 1..n}
           V == Seq(U)
<1>1. Len(seqs) = n
  BY Listing
<1>2. \A i \in 1..n : seqs[i] \in V
  <2> TAKE i \in 1..n
  <2>1. seqs[i] \in Seq(Range1(seqs[i]))
    BY DEF IsSeq
  <2>2. Range1(seqs[i]) \subseteq U
    OBVIOUS
  <2> HIDE DEF U
  <2> QED BY <2>1, <2>2, SeqMonotonic
<1>3. <<>> \in V /\ \A s, t \in V : s \o t \in V
  <2> HIDE DEF U
  <2> QED BY EmptySeq, ConcatProperties
<1>4. \A s \in V : IsSeq(s) /\ <<>> \o s = s
  <2> HIDE DEF U
  <2> QED BY OfElements, ConcatEmptySeq
<1> HIDE DEF V
<1> DEFINE next == [i \in 1..n |-> [f \in [0..n -> V] |-> f[i - 1] \o seqs[i]]]
<1>5. PICK g \in [0..n -> V] : Follows(g, n, <<>>, next)
  <2>1. next \in [1..n -> [[0..n -> V] -> V]]
    <3>1. ASSUME NEW i \in 1..n, NEW f \in [0..n -> V] PROVE f[i - 1] \o seqs[i] \in V
      <4>1. i - 1 \in 0..n
        OBVIOUS
      <4> QED BY <1>2, <1>3, <4>1
    <3> QED BY <3>1
  <2>2. \A i \in 1..n, f, h \in [0..n -> V] : (\A j \in 0..(i - 1) : f[j] = h[j]) => next[i][f] = next[i][h]
    <3>1. \A i \in 1..n : i - 1 \in 0..(i - 1)
      OBVIOUS
    <3> QED BY <3>1
  <2> HIDE DEF next
  <2>3. <<>> \in V
    BY <1>3
  <2> DEFINE base == <<>>
  <2>4. base \in V
    BY <2>3
  <2> HIDE DEF base
  <2>5. \E g \in [0..n -> V] : Follows(g, n, base, next)
    BY <2>1, <2>2, <2>4, Recursion
  <2> QED BY <2>5 DEF base
<1>6. g[0] = <<>> /\ \A i \in 1..n : g[i] = g[i - 1] \o seqs[i]
  BY <1>5 DEF Follows
<1> HIDE DEF next
<1> DEFINE Flattens(f) == f = [i \in 1..n |-> IF i = 1 THEN seqs[i] ELSE f[i - 1] \o seqs[i]]
           F == CHOOSE f : Flattens(f)
<1>7. CASE n = 0
  <2>1. seqs = <<>> /\ FlattenSeq(seqs) = seqs
    BY <1>1, <1>7, Listing DEF FlattenSeq
  <2>2. AddsUp(g, seqs, n) /\ g[n] = <<>>
    BY <1>4, <1>6, <1>7 DEF AddsUp
  <2> QED BY <2>1, <2>2
<1>8. CASE n # 0
  <2>1. FlattenSeq(seqs) = F[n]
    BY <1>1, <1>8 DEF FlattenSeq
  <2>2. Flattens(F)
    <3> DEFINE f == [i \in 1..n |-> g[i]]
    <3>1. \A i \in 1..n : f[i] = IF i = 1 THEN seqs[i] ELSE f[i - 1] \o seqs[i]
      <4> TAKE i \in 1..n
      <4>1. CASE i = 1
        <5>1. g[1] = g[0] \o seqs[1] /\ seqs[1] \in V
          <6>1. 1 \in 1..n /\ 1 - 1 = 0
            BY <1>8
          <6> QED BY <1>2, <1>6, <6>1
        <5> QED BY <1>4, <1>6, <4>1, <5>1
      <4>2. CASE i # 1
        <5>1. i - 1 \in 1..n
          BY <4>2
        <5> QED BY <1>6, <4>2, <5>1
      <4> QED BY <4>1, <4>2
    <3>2. f = [i \in 1..n |-> f[i]]
      OBVIOUS
    <3> HIDE DEF f
    <3>3. Flattens(f)
      BY <3>1, <3>2
    <3> QED BY <3>3
  <2> HIDE DEF F
  <2> DEFINE These == {0} \union {i \in 1..n : F[i] = g[i]}
  <2>3. ASSUME NEW i \in 1..n, i - 1 \in These PROVE i \in These
    <3>1. F[i] = IF i = 1 THEN seqs[i] ELSE F[i - 1] \o seqs[i]
      BY <2>2
    <3>2. g[i] = g[i - 1] \o seqs[i] /\ seqs[i] \in V
      BY <1>2, <1>6
    <3>3. CASE i = 1
      <4>1. g[i - 1] = <<>>
        BY <1>6, <3>3
      <4> QED BY <1>4, <3>1, <3>2, <3>3, <4>1
    <3>4. CASE i # 1
      <4>1. i - 1 # 0
        BY <3>4
      <4>2. F[i - 1] = g[i - 1]
        BY <2>3, <4>1
      <4> QED BY <3>1, <3>2, <3>4, <4>2
    <3> QED BY <3>3, <3>4
  <2>4. 0 \in These
    OBVIOUS
  <2> HIDE DEF These
  <2>5. 0..n \subseteq These
    BY <2>3, <2>4, Counting
  <2>6. F[n] = g[n]
    <3>1. n \in These
      BY <2>5
    <3> QED BY <1>8, <3>1 DEF These
  <2>7. AddsUp(g, seqs, n)
    <3>1. \A i \in 0..n : g[i] \in V
      OBVIOUS
    <3> QED BY <1>4, <1>6, <3>1 DEF AddsUp
  <2> QED BY <2>1, <2>6, <2>7
<1> QED
  BY <1>7, <1>8

(* Two sequences together have what each of them has.                        *)
LEMMA RangeOfJoin ==
    ASSUME NEW s, NEW t, IsSeq(s), IsSeq(t)
    PROVE  Range1(s \o t) = Range1(s) \union Range1(t)
<1>1. PICK m \in Nat : m = Len(s) /\ DOMAIN s = 1..m
  BY Shape
<1>2. PICK n \in Nat : n = Len(t) /\ DOMAIN t = 1..n
  BY Shape
<1>3. DOMAIN (s \o t) = 1..m + n
  <2>1. IsSeq(s \o t) /\ Len(s \o t) = m + n
    BY <1>1, <1>2, Joining
  <2> QED BY <2>1, Shape
<1>4. \A i \in 1..m + n : i \in 1..m \/ (i - m \in 1..n /\ i = (i - m) + m)
  OBVIOUS
<1>5. \A i \in 1..m : (s \o t)[i] = s[i] /\ i \in 1..m + n
  BY <1>1, <1>2, Joining
<1>6. \A i \in 1..n : (s \o t)[i + m] = t[i] /\ i + m \in 1..m + n
  BY <1>1, <1>2, Joining
<1> QED
  BY <1>1, <1>2, <1>3, <1>4, <1>5, <1>6 DEF Range1

(* Of some sequences, one after the other: what it has is what one of them has. *)
LEMMA Gathering ==
    ASSUME NEW n \in Nat, NEW seqs, DOMAIN seqs = 1..n, seqs = [i \in DOMAIN seqs |-> seqs[i]],
           \A i \in 1..n : IsSeq(seqs[i])
    PROVE  /\ IsSeq(FlattenSeq(seqs))
           /\ Range1(FlattenSeq(seqs)) = UNION {Range1(seqs[i]) : i \in 1..n}
<1>1. PICK f : AddsUp(f, seqs, n) /\ FlattenSeq(seqs) = f[n]
  BY Flattening
<1> DEFINE These == {i \in 0..n : Range1(f[i]) = UNION {Range1(seqs[j]) : j \in 1..i}}
<1>2. 0 \in These
  <2>1. 1..0 = {} /\ 0 \in 0..n /\ f[0] = <<>> /\ Range1(<<>>) = {}
    BY <1>1 DEF AddsUp, Range1
  <2> QED BY <2>1
<1>3. ASSUME NEW i \in 1..n, i - 1 \in These PROVE i \in These
  <2>1. f[i] = f[i - 1] \o seqs[i] /\ IsSeq(f[i - 1]) /\ IsSeq(seqs[i])
    <3>1. i - 1 \in 0..n
      OBVIOUS
    <3> QED BY <1>1, <3>1 DEF AddsUp
  <2>2. Range1(f[i]) = Range1(f[i - 1]) \union Range1(seqs[i])
    BY <2>1, RangeOfJoin
  <2>3. 1..i = 1..(i - 1) \union {i}
    OBVIOUS
  <2>4. Range1(f[i - 1]) = UNION {Range1(seqs[j]) : j \in 1..(i - 1)}
    BY <1>3
  <2> QED BY <2>2, <2>3, <2>4
<1> HIDE DEF These
<1>4. 0..n \subseteq These
  BY <1>2, <1>3, Counting
<1>5. n \in These
  BY <1>4
<1> QED
  BY <1>1, <1>5 DEF These, AddsUp

-----------------------------------------------------------------------------
(* A word of one piece.  It stands in a text on its own, or even after a     *)
(* space.                                                                    *)
Stands(x, text) ==
    \E i \in 1..Len(text) :
        text[i] = x /\ (i = 1 \/ text[i - 1] = Space) /\ (i = Len(text) \/ text[i + 1] = Space)

Parted(x, text) ==
    \E i \in 2..Len(text) : text[i] = x /\ text[i - 1] = Space /\ (i = Len(text) \/ text[i + 1] = Space)

(* What may follow a word.                                                   *)
Apart(text) == text = <<>> \/ text[1] = Space

(* Places in a text, and in one with m pieces before it.                     *)
LEMMA Shifted ==
    \A m, n \in Nat : \A i \in 1..n :
        /\ i + m \in 1..m + n /\ i \in 1..m + n
        /\ i >= 2 => i + m \in 2..m + n /\ i - 1 \in 1..n /\ (i + m) - 1 = (i - 1) + m /\ (i - 1) + 1 = i
        /\ i # n => i + 1 \in 1..n /\ (i + m) + 1 = (i + 1) + m
        /\ i = 1 \/ i >= 2
  OBVIOUS

(* A parted word is not the first piece.                                     *)
LEMMA PartedAt ==
    ASSUME NEW x, NEW text, NEW n \in Nat, n = Len(text)
    PROVE  Parted(x, text)
               <=> \E i \in 1..n : i >= 2 /\ text[i] = x /\ text[i - 1] = Space /\ (i = n \/ text[i + 1] = Space)
<1>1. \A i : i \in 2..n <=> i \in 1..n /\ i >= 2
  OBVIOUS
<1> QED
  BY <1>1 DEF Parted

(* It stays apart when something is put before it,                           *)
LEMMA PartedAfter ==
    ASSUME NEW x, NEW s, NEW t, IsSeq(s), IsSeq(t), Parted(x, t)
    PROVE  Parted(x, s \o t)
<1>1. PICK m \in Nat : m = Len(s)
  BY Shape
<1>2. PICK n \in Nat : n = Len(t)
  BY Shape
<1>3. Len(s \o t) = m + n /\ \A i \in 1..n : (s \o t)[i + m] = t[i]
  BY <1>1, <1>2, Joining
<1>4. PICK i \in 1..n : i >= 2 /\ t[i] = x /\ t[i - 1] = Space /\ (i = n \/ t[i + 1] = Space)
  BY <1>2, PartedAt
<1>5. i + m \in 2..m + n /\ i \in 1..n /\ i - 1 \in 1..n /\ (i + m) - 1 = (i - 1) + m
  BY <1>1, <1>2, <1>4, Shifted
<1>6. i = n \/ (i + 1 \in 1..n /\ (i + m) + 1 = (i + 1) + m)
  BY <1>1, <1>2, <1>4, Shifted
<1>7. (s \o t)[i + m] = x /\ (s \o t)[(i + m) - 1] = Space
  BY <1>3, <1>4, <1>5
<1>8. i + m = m + n \/ (s \o t)[(i + m) + 1] = Space
  BY <1>1, <1>2, <1>3, <1>4, <1>6
<1> QED
  BY <1>3, <1>5, <1>7, <1>8 DEF Parted

(* and when something apart follows.                                         *)
LEMMA PartedBefore ==
    ASSUME NEW x, NEW s, NEW t, IsSeq(s), IsSeq(t), Parted(x, s), Apart(t)
    PROVE  Parted(x, s \o t)
<1>1. PICK m \in Nat : m = Len(s)
  BY Shape
<1>2. PICK n \in Nat : n = Len(t)
  BY Shape
<1>a. n = 0 \/ t[1] = Space
  BY <1>2, Shape DEF Apart
<1>3. /\ Len(s \o t) = m + n
      /\ \A i \in 1..m : (s \o t)[i] = s[i]
      /\ \A i \in 1..n : (s \o t)[i + m] = t[i]
  BY <1>1, <1>2, Joining
<1>4. PICK i \in 1..m : i >= 2 /\ s[i] = x /\ s[i - 1] = Space /\ (i = m \/ s[i + 1] = Space)
  BY <1>1, PartedAt
<1>5. i \in 2..m + n /\ i \in 1..m /\ i - 1 \in 1..m /\ (i = m \/ i + 1 \in 1..m)
  <2>1. i \in 1..n + m /\ n + m = m + n /\ i - 1 \in 1..m /\ (i = m \/ i + 1 \in 1..m)
    BY <1>1, <1>2, <1>4, Shifted
  <2> QED BY <1>4, <2>1
<1>6. (s \o t)[i] = x /\ (s \o t)[i - 1] = Space
  BY <1>3, <1>4, <1>5
<1>7. i = m + n \/ (s \o t)[i + 1] = Space
  <2>1. CASE i # m
    BY <1>3, <1>4, <1>5, <2>1
  <2>2. CASE i = m /\ n # 0
    <3>1. 1 \in 1..n /\ i + 1 = 1 + m
      BY <1>2, <2>2
    <3> QED BY <1>a, <1>3, <2>2, <3>1
  <2>3. CASE i = m /\ n = 0
    BY <1>1, <2>3
  <2> QED BY <2>1, <2>2, <2>3
<1> QED
  BY <1>3, <1>5, <1>6, <1>7 DEF Parted

(* A word that stands in a text is apart in it after a space.                *)
LEMMA StandsParted ==
    ASSUME NEW x, NEW text, IsSeq(text)
    PROVE  Stands(x, text) <=> Parted(x, <<Space>> \o text)
<1> DEFINE t == <<Space>> \o text
<1>1. PICK n \in Nat : n = Len(text)
  BY Shape
<1>2. Len(t) = n + 1 /\ t[1] = Space /\ \A i \in 1..n : t[i + 1] = text[i]
  <2>1. IsSeq(<<Space>>) /\ Len(<<Space>>) = 1 /\ <<Space>>[1] = Space
    BY Single
  <2>2. 1 \in 1..1
    OBVIOUS
  <2>3. Len(t) = 1 + n /\ t[1] = <<Space>>[1] /\ \A i \in 1..n : t[i + 1] = text[i]
    BY <1>1, <2>1, <2>2, Joining
  <2> HIDE DEF t
  <2> QED BY <1>1, <2>1, <2>3
<1> HIDE DEF t
<1>3. ASSUME Stands(x, text) PROVE Parted(x, t)
  <2>1. PICK i \in 1..n : text[i] = x /\ (i = 1 \/ text[i - 1] = Space) /\ (i = n \/ text[i + 1] = Space)
    BY <1>1, <1>3 DEF Stands
  <2>2. i + 1 \in 2..n + 1 /\ (i + 1) - 1 = i /\ (i = n \/ i + 1 \in 1..n)
    BY <1>1, <2>1
  <2>3. t[i + 1] = x /\ (i + 1 = n + 1 \/ t[(i + 1) + 1] = Space)
    BY <1>2, <2>1, <2>2
  <2>4. t[i] = Space
    <3>1. CASE i = 1
      BY <1>2, <3>1
    <3>2. CASE i # 1
      <4>1. i - 1 \in 1..n /\ (i - 1) + 1 = i
        BY <1>1, <2>1, <3>2
      <4> QED BY <1>2, <2>1, <3>2, <4>1
    <3> QED BY <3>1, <3>2
  <2> QED BY <1>2, <2>2, <2>3, <2>4 DEF Parted
<1>4. ASSUME Parted(x, t) PROVE Stands(x, text)
  <2>1. PICK i \in 2..n + 1 : t[i] = x /\ t[i - 1] = Space /\ (i = n + 1 \/ t[i + 1] = Space)
    BY <1>2, <1>4 DEF Parted
  <2>2. i - 1 \in 1..n /\ (i - 1) + 1 = i
    BY <1>1, <2>1
  <2>3. text[i - 1] = x
    BY <1>2, <2>1, <2>2
  <2>4. i - 1 = 1 \/ text[(i - 1) - 1] = Space
    <3>1. i - 1 = 1 \/ ((i - 1) - 1 \in 1..n /\ ((i - 1) - 1) + 1 = i - 1)
      BY <1>1, <2>2
    <3> QED BY <1>2, <2>1, <3>1
  <2>5. i - 1 = n \/ text[(i - 1) + 1] = Space
    <3>1. i - 1 = n \/ (i \in 1..n /\ (i - 1) + 1 = i)
      BY <1>1, <2>2
    <3> QED BY <1>2, <2>1, <3>1
  <2> QED BY <1>1, <2>2, <2>3, <2>4, <2>5 DEF Stands
<1> QED
  BY <1>3, <1>4 DEF t

(* So it stands in any text in which it is parted,                           *)
LEMMA PartedStands == ASSUME NEW x, NEW text, IsSeq(text), Parted(x, text) PROVE Stands(x, text)
<1>1. PICK n \in Nat : n = Len(text)
  BY Shape
<1>2. PICK i \in 2..n : text[i] = x /\ text[i - 1] = Space /\ (i = n \/ text[i + 1] = Space)
  BY <1>1 DEF Parted
<1>3. i \in 1..n
  BY <1>1, <1>2
<1> QED
  BY <1>1, <1>2, <1>3 DEF Stands

(* Joining is associative.                                                   *)
LEMMA JoinsAssociate ==
    ASSUME NEW s, NEW t, NEW u, IsSeq(s), IsSeq(t), IsSeq(u)
    PROVE  (s \o t) \o u = s \o (t \o u)
<1> DEFINE S == Range1(s) \union Range1(t) \union Range1(u)
<1>1. s \in Seq(S) /\ t \in Seq(S) /\ u \in Seq(S)
  <2>1. s \in Seq(Range1(s)) /\ t \in Seq(Range1(t)) /\ u \in Seq(Range1(u))
    BY DEF IsSeq
  <2>2. Range1(s) \subseteq S /\ Range1(t) \subseteq S /\ Range1(u) \subseteq S
    OBVIOUS
  <2> HIDE DEF S
  <2> QED BY <2>1, <2>2, SeqMonotonic
<1> HIDE DEF S
<1> QED
  BY <1>1, ConcatAssociative

(* and still stands when something apart follows.                            *)
LEMMA StandsBefore ==
    ASSUME NEW x, NEW s, NEW t, IsSeq(s), IsSeq(t), Stands(x, s), Apart(t)
    PROVE  Stands(x, s \o t)
<1>1. IsSeq(<<Space>>) /\ IsSeq(<<Space>> \o s) /\ IsSeq(s \o t)
  BY Single, Joining
<1>2. (<<Space>> \o s) \o t = <<Space>> \o (s \o t)
  BY <1>1, JoinsAssociate
<1>3. Parted(x, (<<Space>> \o s) \o t)
  BY <1>1, StandsParted, PartedBefore
<1> QED
  BY <1>1, <1>2, <1>3, StandsParted

(* Among sequences that are apart a space and a word keep the word parted.   *)
LEMMA FlatParted ==
    ASSUME NEW n \in Nat, NEW seqs, DOMAIN seqs = 1..n, seqs = [i \in DOMAIN seqs |-> seqs[i]],
           \A i \in 1..n : IsSeq(seqs[i]) /\ Apart(seqs[i]),
           NEW x, NEW k \in 1..n, Parted(x, seqs[k])
    PROVE  Parted(x, FlattenSeq(seqs))
<1>1. PICK f : AddsUp(f, seqs, n) /\ FlattenSeq(seqs) = f[n]
  BY Flattening
<1> DEFINE These == {i \in 0..n : i < k \/ Parted(x, f[i])}
<1>2. 0 \in These
  OBVIOUS
<1>3. ASSUME NEW i \in 1..n, i - 1 \in These PROVE i < k \/ Parted(x, f[i])
  <2>1. f[i] = f[i - 1] \o seqs[i] /\ IsSeq(f[i - 1]) /\ IsSeq(seqs[i]) /\ Apart(seqs[i])
    <3>1. i - 1 \in 0..n
      OBVIOUS
    <3> QED BY <1>1, <3>1 DEF AddsUp
  <2>2. CASE i < k
    BY <2>2
  <2>3. CASE i = k
    BY <2>1, <2>3, PartedAfter
  <2>4. CASE i > k
    <3>1. Parted(x, f[i - 1])
      <4>1. ~(i - 1 < k)
        BY <2>4
      <4> QED BY <1>3, <4>1
    <3> QED BY <2>1, <3>1, PartedBefore
  <2>5. i < k \/ i = k \/ i > k
    OBVIOUS
  <2> QED BY <2>2, <2>3, <2>4, <2>5
<1>4. \A i \in 1..n : i - 1 \in These => i \in These
  <2>1. \A i \in 1..n : i \in 0..n
    OBVIOUS
  <2> QED BY <1>3, <2>1
<1> HIDE DEF These
<1>6. 0..n \subseteq These
  BY <1>2, <1>4, Counting
<1>5. n \in These
  BY <1>6
<1> QED
  BY <1>1, <1>5 DEF These

-----------------------------------------------------------------------------
(* Words.                                                                   *)

(* A sequence of one piece.                                                  *)
LEMMA OnePiece == ASSUME NEW s, DOMAIN s = 1..1, s = [i \in DOMAIN s |-> s[i]] PROVE s = <<s[1]>>
  OBVIOUS

(* It has that piece.                                                        *)
LEMMA RangeOfSingle == ASSUME NEW x PROVE Range1(<<x>>) = {x}
<1>1. DOMAIN <<x>> = 1..1 /\ <<x>>[1] = x
  OBVIOUS
<1>2. \A i : i \in 1..1 <=> i = 1
  OBVIOUS
<1> QED
  BY <1>1, <1>2 DEF Range1

(* A part of a sequence.                                                     *)
LEMMA PartOf ==
    ASSUME NEW s, IsSeq(s), NEW a \in 1..Len(s) + 1, NEW b \in 0..Len(s)
    PROVE  /\ IsSeq(SubSeq(s, a, b))
           /\ Len(SubSeq(s, a, b)) = IF a <= b THEN b - a + 1 ELSE 0
           /\ \A i \in 1..b - a + 1 : SubSeq(s, a, b)[i] = s[a + i - 1]
<1>1. PICK n \in Nat : n = Len(s) /\ DOMAIN s = 1..n
  BY Shape
<1>2. a \in 1..n + 1 /\ b \in 0..n
  BY <1>1
<1>3. a \in Int /\ b \in Int /\ \A i \in a..b : i \in 1..n
  BY <1>1, <1>2
<1>4. \A i \in a..b : s[i] \in Range1(s)
  BY <1>1, <1>3 DEF Range1
<1>5. /\ SubSeq(s, a, b) \in Seq(Range1(s))
      /\ Len(SubSeq(s, a, b)) = IF a <= b THEN b - a + 1 ELSE 0
      /\ \A i \in 1..b - a + 1 : SubSeq(s, a, b)[i] = s[a + i - 1]
  BY ONLY <1>3, <1>4, SubSeqProperties
<1> QED
  BY <1>5, OfElements

(* The greatest of some places.                                              *)
LEMMA MaxOf ==
    ASSUME NEW n \in Nat, NEW S \in SUBSET (1..n), S # {}
    PROVE  Max(S) \in S /\ \A i \in S : i <= Max(S)
<1>1. PICK m \in S : \A i \in S : i <= m
  BY Greatest
<1>2. \A i, j \in S : i <= j <=> j >= i
  OBVIOUS
<1>3. m \in S /\ \A i \in S : m >= i
  BY <1>1, <1>2
<1>4. Max(S) \in S /\ \A i \in S : Max(S) >= i
  BY <1>3 DEF Max
<1> QED
  BY <1>2, <1>4

(* A word goes on until the next space.                                      *)
LEMMA UntilSpace ==
    ASSUME NEW text, NEW n \in Nat, n = Len(text), NEW i \in 1..n, Starts(i, text)
    PROVE  /\ Until(i, text) \in i..n
           /\ \A k \in i..Until(i, text) : text[k] # Space
           /\ Until(i, text) = n \/ text[Until(i, text) + 1] = Space
<1> DEFINE S == {j \in i..n : \A k \in i..j : text[k] # Space}
<1>1. S \in SUBSET (1..n) /\ i \in S
  <2>1. \A k \in i..i : k = i
    OBVIOUS
  <2>2. text[i] # Space
    BY DEF Starts
  <2>3. i \in i..n /\ \A j \in i..n : j \in 1..n
    OBVIOUS
  <2> QED BY <2>1, <2>2, <2>3
<1>2. Until(i, text) = Max(S)
  BY DEF Until
<1> DEFINE j == Max(S)
<1>3. j \in S /\ \A k \in S : k <= j
  <2> HIDE DEF S
  <2> QED BY <1>1, MaxOf
<1>4. j \in i..n /\ \A k \in i..j : text[k] # Space
  BY <1>3
<1> HIDE DEF j
<1>5. ASSUME j # n, text[j + 1] # Space PROVE FALSE
  <2>1. j + 1 \in i..n /\ ~(j + 1 <= j) /\ \A k \in i..(j + 1) : k \in i..j \/ k = j + 1
    BY <1>4, <1>5
  <2>2. j + 1 \in S
    BY <1>4, <1>5, <2>1
  <2> QED BY <1>3, <2>1, <2>2
<1> QED
  BY <1>2, <1>4, <1>5 DEF j

(* The words of a text.                                                      *)
WordAt(i, text) == IF Starts(i, text) THEN <<SubSeq(text, i, Until(i, text))>> ELSE <<>>

(* They are these parts, each where a word starts.                          *)
LEMMA WordsAt ==
    ASSUME NEW text, IsSeq(text)
    PROVE  /\ IsSeq(Words(text))
           /\ Range1(Words(text))
                  = {SubSeq(text, i, Until(i, text)) : i \in {j \in 1..Len(text) : Starts(j, text)}}
<1>1. PICK n \in Nat : n = Len(text) /\ DOMAIN text = 1..n
  BY Shape
<1> DEFINE seqs == [i \in 1..n |-> WordAt(i, text)]
<1>2. Words(text) = FlattenSeq(seqs)
  BY <1>1 DEF Words, WordAt
<1>3. \A i \in 1..n : IsSeq(seqs[i]) /\ Range1(seqs[i]) = IF Starts(i, text) THEN {SubSeq(text, i, Until(i, text))} ELSE {}
  <2> TAKE i \in 1..n
  <2>1. seqs[i] = WordAt(i, text)
    OBVIOUS
  <2> HIDE DEF seqs
  <2>2. CASE Starts(i, text)
    <3> DEFINE w == SubSeq(text, i, Until(i, text))
    <3>1. seqs[i] = <<w>>
      BY <2>1, <2>2 DEF WordAt
    <3> HIDE DEF w
    <3>2. IsSeq(<<w>>) /\ Range1(<<w>>) = {w}
      BY Single, RangeOfSingle
    <3> QED BY <2>2, <3>1, <3>2 DEF w
  <2>3. CASE ~Starts(i, text)
    <3>1. seqs[i] = <<>>
      BY <2>1, <2>3 DEF WordAt
    <3>2. Range1(<<>>) = {}
      BY DEF Range1
    <3> QED BY <2>3, <3>1, <3>2, Nothing
  <2> QED BY <2>2, <2>3
<1>4. DOMAIN seqs = 1..n /\ seqs = [i \in DOMAIN seqs |-> seqs[i]]
  OBVIOUS
<1> HIDE DEF seqs
<1>5. IsSeq(FlattenSeq(seqs)) /\ Range1(FlattenSeq(seqs)) = UNION {Range1(seqs[i]) : i \in 1..n}
  BY <1>3, <1>4, Gathering
<1>6. UNION {Range1(seqs[i]) : i \in 1..n} = {SubSeq(text, i, Until(i, text)) : i \in {j \in 1..n : Starts(j, text)}}
  BY <1>3
<1> QED
  BY <1>1, <1>2, <1>5, <1>6

(* They are texts.                                                           *)
LEMMA WordsAreTexts ==
    ASSUME NEW text, IsSeq(text)
    PROVE  \A w \in Range1(Words(text)) : IsSeq(w)
<1>1. PICK n \in Nat : n = Len(text)
  BY Shape
<1> SUFFICES ASSUME NEW i \in 1..n, Starts(i, text) PROVE IsSeq(SubSeq(text, i, Until(i, text)))
  BY <1>1, WordsAt
<1>2. Until(i, text) \in i..n
  BY <1>1, UntilSpace
<1>3. i \in 1..n + 1 /\ Until(i, text) \in 0..n
  BY <1>1, <1>2
<1> QED
  BY <1>1, <1>3, PartOf

(* A word of one piece stands in the text,                                   *)
LEMMA WordStands ==
    ASSUME NEW text, IsSeq(text), NEW w \in Range1(Words(text)), Len(w) = 1
    PROVE  w = <<w[1]>> /\ w[1] # Space /\ Stands(w[1], text)
<1>1. PICK n \in Nat : n = Len(text)
  BY Shape
<1>2. PICK i \in 1..n : Starts(i, text) /\ w = SubSeq(text, i, Until(i, text))
  BY <1>1, WordsAt
<1> DEFINE j == Until(i, text)
<1>3. j \in i..n /\ (j = n \/ text[j + 1] = Space)
  BY <1>1, <1>2, UntilSpace
<1>4. text[i] # Space /\ (i = 1 \/ text[i - 1] = Space)
  BY <1>2 DEF Starts
<1> HIDE DEF j
<1>5. i \in 1..n + 1 /\ j \in 0..n /\ i <= j
  BY <1>1, <1>3
<1>6. IsSeq(w) /\ Len(w) = j - i + 1 /\ \A k \in 1..j - i + 1 : w[k] = text[i + k - 1]
  BY <1>1, <1>2, <1>5, PartOf DEF j
<1>7. j = i
  <2>1. j - i + 1 = 1
    BY <1>6
  <2> QED BY ONLY <1>1, <1>3, <2>1
<1>8. w[1] = text[i]
  <2>1. 1 \in 1..j - i + 1 /\ i + 1 - 1 = i
    BY <1>3
  <2> QED BY <1>6, <2>1
<1>9. w = <<w[1]>>
  <2>1. DOMAIN w = 1..1 /\ w = [k \in DOMAIN w |-> w[k]]
    BY <1>6, Shape
  <2> QED BY <2>1, OnePiece
<1> QED
  BY <1>1, <1>3, <1>4, <1>7, <1>8, <1>9 DEF Stands

(* and a piece that stands in it is a word of it.                            *)
LEMMA StandsWord ==
    ASSUME NEW text, IsSeq(text), NEW x, x # Space, Stands(x, text)
    PROVE  <<x>> \in Range1(Words(text))
<1>1. PICK n \in Nat : n = Len(text)
  BY Shape
<1>2. PICK i \in 1..n : text[i] = x /\ (i = 1 \/ text[i - 1] = Space) /\ (i = n \/ text[i + 1] = Space)
  BY <1>1 DEF Stands
<1>3. Starts(i, text)
  BY <1>2 DEF Starts
<1>4. Until(i, text) = i
  <2>1. Until(i, text) \in i..n /\ \A k \in i..Until(i, text) : text[k] # Space
    BY <1>1, <1>3, UntilSpace
  <2> DEFINE j == Until(i, text)
  <2> HIDE DEF j
  <2>2. j = i \/ (i # n /\ i + 1 \in i..j)
    BY <2>1 DEF j
  <2> QED BY <1>2, <2>1, <2>2 DEF j
<1>5. i \in 1..n + 1 /\ i \in 0..n /\ i - i + 1 = 1 /\ i + 1 - 1 = i /\ 1 \in 1..1
  OBVIOUS
<1> DEFINE w == SubSeq(text, i, i)
<1>6. IsSeq(w) /\ Len(w) = 1 /\ w[1] = text[i]
  BY <1>1, <1>5, PartOf
<1> HIDE DEF w
<1>7. w = <<x>>
  <2>1. DOMAIN w = 1..1 /\ w = [k \in DOMAIN w |-> w[k]]
    BY <1>6, Shape
  <2> QED BY <1>2, <1>6, <2>1, OnePiece
<1>8. w \in Range1(Words(text))
  BY <1>1, <1>3, <1>4, WordsAt DEF w
<1> QED
  BY <1>7, <1>8

(* A text in which a word stands.                                            *)
Bears(x, text) == IsSeq(text) /\ Stands(x, text)

(* Of some words one of a single piece stands in what they make together.    *)
LEMMA JoinedHas ==
    ASSUME NEW n \in Nat, NEW words, DOMAIN words = 1..n, words = [i \in DOMAIN words |-> words[i]],
           \A i \in 1..n : IsSeq(words[i]),
           NEW x, NEW k \in 1..n, words[k] = <<x>>
    PROVE  Bears(x, Joined(words))
<1> DEFINE seqs == [i \in 1..n |-> IF words[i] = <<>> THEN <<>> ELSE <<Space>> \o words[i]]
           t    == FlattenSeq(seqs)
<1>1. Joined(words) = SubSeq(t, 2, Len(t))
  BY DEF Joined
<1>2. \A i \in 1..n : IsSeq(seqs[i]) /\ Apart(seqs[i])
  <2> TAKE i \in 1..n
  <2>1. CASE words[i] = <<>>
    BY <2>1, Nothing DEF Apart
  <2>2. CASE words[i] # <<>>
    <3> DEFINE s == <<Space>> \o words[i]
    <3>1. IsSeq(<<Space>>) /\ Len(<<Space>>) = 1 /\ <<Space>>[1] = Space /\ 1 \in 1..1
      BY Single
    <3>2. IsSeq(s) /\ s[1] = Space
      BY <3>1, Joining
    <3>3. seqs[i] = s
      BY <2>2
    <3> HIDE DEF seqs, s
    <3> QED BY <3>2, <3>3 DEF Apart
  <2> QED BY <2>1, <2>2
<1>3. Parted(x, seqs[k])
  <2>1. IsSeq(<<x>>) /\ Stands(x, <<x>>) /\ <<x>> # <<>>
    <3>1. IsSeq(<<x>>) /\ Len(<<x>>) = 1 /\ <<x>>[1] = x /\ 1 \in 1..1
      BY Single
    <3> QED BY <3>1, Nothing DEF Stands
  <2>2. Parted(x, <<Space>> \o <<x>>)
    BY <2>1, StandsParted
  <2> QED BY <2>1, <2>2
<1>4. DOMAIN seqs = 1..n /\ seqs = [i \in DOMAIN seqs |-> seqs[i]]
  OBVIOUS
<1> HIDE DEF seqs
<1>5. IsSeq(t) /\ Parted(x, t)
  BY <1>2, <1>3, <1>4, Gathering, FlatParted
<1> HIDE DEF t
<1>6. PICK m \in Nat : m = Len(t)
  BY <1>5, Shape
<1>7. PICK i \in 1..m : i >= 2 /\ t[i] = x /\ t[i - 1] = Space /\ (i = m \/ t[i + 1] = Space)
  BY <1>5, <1>6, PartedAt
<1>8. 2 \in 1..m + 1 /\ m \in 0..m /\ 2 <= m
  BY <1>6, <1>7
<1> DEFINE u == SubSeq(t, 2, m)
<1>9. IsSeq(u) /\ Len(u) = m - 2 + 1 /\ \A j \in 1..m - 2 + 1 : u[j] = t[2 + j - 1]
  BY <1>5, <1>6, <1>8, PartOf
<1> HIDE DEF u
<1>10. Len(u) = m - 1 /\ \A j \in 1..m - 1 : u[j] = t[j + 1]
  <2>1. m - 2 + 1 = m - 1 /\ \A j \in 1..m - 1 : 2 + j - 1 = j + 1
    BY <1>6
  <2> QED BY <1>9, <2>1
<1>11. /\ i - 1 \in 1..m - 1 /\ (i - 1) + 1 = i
       /\ i - 1 = 1 \/ ((i - 1) - 1 \in 1..m - 1 /\ ((i - 1) - 1) + 1 = i - 1)
       /\ i = m \/ i \in 1..m - 1
       /\ i = m => i - 1 = m - 1
  BY <1>6, <1>7
<1>12. u[i - 1] = x /\ (i - 1 = 1 \/ u[(i - 1) - 1] = Space) /\ (i - 1 = m - 1 \/ u[(i - 1) + 1] = Space)
  BY <1>7, <1>10, <1>11
<1> QED
  BY <1>1, <1>6, <1>9, <1>10, <1>11, <1>12 DEF Bears, Stands, u

(* What is left of a single piece.                                            *)
LEMMA RemovedOf ==
    ASSUME NEW y, NEW ignored
    PROVE  Removed(<<y>>, ignored) = IF y \in ignored THEN <<>> ELSE <<y>>
<1> DEFINE seqs == [i \in 1..1 |-> IF <<y>>[i] \in ignored THEN <<>> ELSE <<<<y>>[i]>>]
<1>1. Removed(<<y>>, ignored) = FlattenSeq(seqs)
  <2>1. DOMAIN <<y>> = 1..1
    OBVIOUS
  <2> QED BY <2>1 DEF Removed
<1>2. seqs[1] = IF y \in ignored THEN <<>> ELSE <<y>>
  OBVIOUS
<1>3. IsSeq(seqs[1])
  BY <1>2, Single, Nothing
<1>4. DOMAIN seqs = 1..1 /\ seqs = [i \in DOMAIN seqs |-> seqs[i]]
  OBVIOUS
<1> HIDE DEF seqs
<1>5. \A i \in 1..1 : IsSeq(seqs[i])
  <2>1. \A i \in 1..1 : i = 1
    OBVIOUS
  <2> QED BY <1>3, <2>1
<1>6. PICK f : AddsUp(f, seqs, 1) /\ FlattenSeq(seqs) = f[1]
  <2>1. 1 \in Nat
    OBVIOUS
  <2> QED BY <1>4, <1>5, <2>1, Flattening
<1>7. f[1] = <<>> \o seqs[1]
  <2>1. 1 \in 1..1 /\ 1 - 1 = 0
    OBVIOUS
  <2>2. f[1] = f[1 - 1] \o seqs[1] /\ f[0] = <<>>
    BY <1>6, <2>1 DEF AddsUp
  <2> QED BY <2>1, <2>2
<1>8. <<>> \o seqs[1] = seqs[1]
  <2>1. seqs[1] \in Seq(Range1(seqs[1]))
    BY <1>3 DEF IsSeq
  <2> QED BY <2>1, ConcatEmptySeq
<1> QED
  BY <1>1, <1>2, <1>6, <1>7, <1>8

(* Word by word a piece stays that no entry of the map is made of.           *)
LEMMA ByWordHas ==
    ASSUME NEW x, x # Space, NEW text, Bears(x, text), NEW map, NEW ignored, NEW bare,
           \A entry \in DOMAIN map : IsSeq(map[entry]),
           Removed(Bared(Lower(<<x>>), bare), ignored) \notin DOMAIN map
    PROVE  Bears(x, ByWord(text, map, ignored, bare))
<1> DEFINE words == Words(text)
           Clean(w) == Removed(Bared(Lower(w), bare), ignored)
           all == [i \in DOMAIN words |-> IF Clean(words[i]) \in DOMAIN map THEN map[Clean(words[i])] ELSE words[i]]
<1>1. ByWord(text, map, ignored, bare) = Joined(all)
  BY DEF ByWord
<1>2. IsSeq(words) /\ \A w \in Range1(words) : IsSeq(w)
  BY WordsAt, WordsAreTexts DEF Bears
<1>3. <<x>> \in Range1(words)
  BY StandsWord DEF Bears
<1>4. Clean(<<x>>) \notin DOMAIN map
  OBVIOUS
<1> HIDE DEF words, Clean
<1>5. PICK n \in Nat : n = Len(words) /\ DOMAIN words = 1..n
  BY <1>2, Shape
<1>6. PICK k \in 1..n : words[k] = <<x>>
  BY <1>3, <1>5 DEF Range1
<1>7. \A i \in 1..n : IsSeq(all[i])
  <2> TAKE i \in 1..n
  <2>1. IsSeq(words[i])
    BY <1>2, <1>5 DEF Range1
  <2> QED BY <1>5, <2>1
<1>8. all[k] = <<x>>
  BY <1>4, <1>5, <1>6
<1>9. DOMAIN all = 1..n /\ all = [i \in DOMAIN all |-> all[i]]
  BY <1>5
<1> HIDE DEF all
<1>10. Bears(x, Joined(all))
  BY <1>5, <1>6, <1>7, <1>8, <1>9, JoinedHas
<1> QED
  BY <1>1, <1>10

(* What follows the last piece that is kept is cut off.                      *)
LEMMA StrippedHas ==
    ASSUME NEW x, x \notin MARKS \union {Space}, NEW text, Bears(x, text)
    PROVE  Bears(x, Stripped(text))
<1>1. IsSeq(text)
  BY DEF Bears
<1>2. PICK n \in Nat : n = Len(text)
  BY <1>1, Shape
<1> DEFINE S == {i \in 1..n : text[i] \notin MARKS \union {Space}}
<1>3. PICK i \in 1..n : text[i] = x /\ (i = 1 \/ text[i - 1] = Space) /\ (i = n \/ text[i + 1] = Space)
  BY <1>2 DEF Bears, Stands
<1>4. i \in S
  BY <1>3
<1>5. Stripped(text) = SubSeq(text, 1, Max(S))
  BY <1>2, <1>4 DEF Stripped, SelectLastInSeq
<1> DEFINE j == Max(S)
<1>6. j \in S /\ i <= j
  <2>1. S \in SUBSET (1..n) /\ S # {}
    BY <1>4
  <2> HIDE DEF S
  <2> QED BY <1>2, <1>4, <2>1, MaxOf
<1>7. j \in 1..n
  BY <1>6
<1> HIDE DEF j, S
<1> DEFINE t == SubSeq(text, 1, j)
<1>8. IsSeq(t) /\ Len(t) = j /\ \A k \in 1..j : t[k] = text[k]
  <2>1. 1 \in 1..n + 1 /\ j \in 0..n /\ 1 <= j /\ j - 1 + 1 = j /\ \A k \in 1..j : 1 + k - 1 = k
    BY <1>2, <1>7
  <2>2. /\ IsSeq(t) /\ Len(t) = IF 1 <= j THEN j - 1 + 1 ELSE 0
        /\ \A k \in 1..j - 1 + 1 : t[k] = text[1 + k - 1]
    BY <1>1, <1>2, <2>1, PartOf
  <2> HIDE DEF t
  <2> QED BY <2>1, <2>2
<1> HIDE DEF t
<1>9. i \in 1..j /\ (i = 1 \/ i - 1 \in 1..j) /\ (i = j \/ (i # n /\ i + 1 \in 1..j))
  BY <1>2, <1>3, <1>6, <1>7
<1>10. t[i] = x /\ (i = 1 \/ t[i - 1] = Space) /\ (i = j \/ t[i + 1] = Space)
  BY <1>3, <1>8, <1>9
<1> QED
  BY <1>5, <1>8, <1>9, <1>10 DEF Bears, Stands, j, t

-----------------------------------------------------------------------------
(* Texts that are read piece by piece, and phrases that are replaced.       *)

(* Piece by piece.                                                           *)
LEMMA EachBears ==
    ASSUME NEW x, NEW text, Bears(x, text), NEW y, NEW u, DOMAIN u = DOMAIN text, u = [i \in DOMAIN u |-> u[i]],
           \A i \in DOMAIN text : (text[i] = x => u[i] = y) /\ (text[i] = Space => u[i] = Space)
    PROVE  Bears(y, u)
<1>1. IsSeq(text)
  BY DEF Bears
<1>2. PICK n \in Nat : n = Len(text) /\ DOMAIN text = 1..n
  BY <1>1, Shape
<1>3. IsSeq(u) /\ Len(u) = n
  BY <1>2, Listing
<1>4. PICK i \in 1..n : text[i] = x /\ (i = 1 \/ text[i - 1] = Space) /\ (i = n \/ text[i + 1] = Space)
  BY <1>2 DEF Bears, Stands
<1>5. (i = 1 \/ i - 1 \in 1..n) /\ (i = n \/ i + 1 \in 1..n)
  BY <1>2, <1>4
<1>6. u[i] = y /\ (i = 1 \/ u[i - 1] = Space) /\ (i = n \/ u[i + 1] = Space)
  BY <1>2, <1>4, <1>5
<1> QED
  BY <1>3, <1>6 DEF Bears, Stands

(* Where a phrase stands in a text.                                          *)
OccursAt(i, old, text) == i + Len(old) - 1 <= Len(text) /\ IsAt(i, old, text)

(* Its pieces are there then.                                               *)
LEMMA MatchesAt ==
    ASSUME NEW text, IsSeq(text), NEW old, IsSeq(old), NEW n \in Nat, n = Len(text), NEW m \in Nat, m = Len(old),
           m # 0, NEW i \in 1..n, OccursAt(i, old, text)
    PROVE  i + m - 1 <= n /\ \A k \in 1..m : text[i + k - 1] = old[k]
<1>1. i + m - 1 <= n /\ SubSeq(text, i, i + m - 1) = old
  BY DEF OccursAt, IsAt
<1> DEFINE b == i + m - 1
<1>2. i \in 1..n + 1 /\ b \in 0..n /\ i <= b /\ b - i + 1 = m
  BY <1>1
<1> HIDE DEF b
<1>3. \A k \in 1..b - i + 1 : SubSeq(text, i, b)[k] = text[i + k - 1]
  BY <1>2, PartOf
<1> QED
  BY <1>1, <1>2, <1>3 DEF b

(* How a phrase is replaced, from each place of the text on.                 *)
Replaces(rest, text, old, new) ==
    \A i \in 1..(Len(text) + Len(old)) :
        /\ IsSeq(rest[i])
        /\ rest[i] = IF i > Len(text) THEN <<>>
                     ELSE IF OccursAt(i, old, text) THEN new \o rest[i + Len(old)]
                     ELSE <<text[i]>> \o rest[i + 1]

(* There is such a function, and it gives the text with the phrase replaced.*)
LEMMA Replacing ==
    ASSUME NEW text, IsSeq(text), NEW old, IsSeq(old), old # <<>>, NEW new, IsSeq(new)
    PROVE  \E rest : Replaces(rest, text, old, new) /\ Replaced(text, old, new) = rest[1]
<1>1. PICK n \in Nat : n = Len(text) /\ DOMAIN text = 1..n
  BY Shape
<1>2. PICK m \in Nat : m = Len(old)
  BY Shape
<1>3. m # 0 /\ n + m - 1 \in Nat
  <2>1. m # 0
    BY <1>2, Shape
  <2> QED BY <1>1, <1>2, <2>1
<1> DEFINE at1(i) == OccursAt(i, old, text)
           Rests(f) == f = [i \in 1..(n + m) |-> IF i > n THEN <<>>
                                                ELSE IF at1(i) THEN new \o f[i + m] ELSE <<text[i]>> \o f[i + 1]]
           F == CHOOSE f : Rests(f)
<1>4. Replaced(text, old, new) = F[1]
  BY <1>1, <1>2 DEF Replaced, OccursAt
<1> HIDE DEF at1
<1> DEFINE U == Range1(text) \union Range1(new)
           V == Seq(U)
<1>5. <<>> \in V /\ new \in V /\ \A s, t \in V : s \o t \in V
  <2>1. new \in Seq(Range1(new)) /\ Range1(new) \subseteq U
    BY DEF IsSeq
  <2> HIDE DEF U
  <2> QED BY <2>1, EmptySeq, ConcatProperties, SeqMonotonic
<1>6. \A i \in 1..n : <<text[i]>> \in V
  BY <1>1 DEF Range1
<1>7. \A s \in V : IsSeq(s)
  <2> HIDE DEF U
  <2> QED BY OfElements
<1> HIDE DEF V
<1> DEFINE l == n + m - 1
           Step(k, f) == IF n + m - k > n THEN <<>>
                         ELSE IF at1(n + m - k) THEN new \o f[k - m] ELSE <<text[n + m - k]>> \o f[k - 1]
           next == [k \in 1..l |-> [f \in [0..l -> V] |-> Step(k, f)]]
<1>8. \A k \in 1..l : n + m - k > n \/ (k - m \in 0..(k - 1) /\ k - m \in 0..l /\ n + m - k \in 1..n)
  BY <1>1, <1>2, <1>3
<1>9. \A k \in 1..l : k - 1 \in 0..(k - 1) /\ k - 1 \in 0..l
  BY <1>3
<1>10. PICK g \in [0..l -> V] : Follows(g, l, <<>>, next)
  <2>1. next \in [1..l -> [[0..l -> V] -> V]]
    <3>1. ASSUME NEW k \in 1..l, NEW f \in [0..l -> V] PROVE Step(k, f) \in V
      <4>1. CASE n + m - k > n
        BY <1>5, <4>1
      <4>2. CASE ~(n + m - k > n)
        <5>1. f[k - m] \in V /\ f[k - 1] \in V /\ <<text[n + m - k]>> \in V
          BY <1>6, <1>8, <1>9, <4>2
        <5> QED BY <1>5, <4>2, <5>1
      <4> QED BY <4>1, <4>2
    <3> HIDE DEF Step, l
    <3> QED BY <3>1
  <2>2. \A k \in 1..l, f, h \in [0..l -> V] : (\A j \in 0..(k - 1) : f[j] = h[j]) => next[k][f] = next[k][h]
    <3> SUFFICES ASSUME NEW k \in 1..l, NEW f \in [0..l -> V], NEW h \in [0..l -> V],
                        \A j \in 0..(k - 1) : f[j] = h[j]
                 PROVE  Step(k, f) = Step(k, h)
      <4> HIDE DEF Step, l
      <4> QED OBVIOUS
    <3> QED BY <1>8, <1>9
  <2>3. l \in Nat
    BY <1>3
  <2> HIDE DEF next, l
  <2> DEFINE base == <<>>
  <2>4. base \in V
    BY <1>5
  <2> HIDE DEF base
  <2>5. \E g \in [0..l -> V] : Follows(g, l, base, next)
    BY <2>1, <2>2, <2>3, <2>4, Recursion
  <2> QED BY <2>5 DEF base
<1>11. g[0] = <<>> /\ \A k \in 1..l : g[k] = Step(k, g)
  <2> HIDE DEF Step, l
  <2> QED BY <1>10 DEF Follows
<1> HIDE DEF next
<1> DEFINE f == [i \in 1..(n + m) |-> g[n + m - i]]
<1>12. Rests(f)
  <2>1. ASSUME NEW i \in 1..(n + m)
        PROVE  f[i] = IF i > n THEN <<>> ELSE IF at1(i) THEN new \o f[i + m] ELSE <<text[i]>> \o f[i + 1]
    <3> DEFINE k == n + m - i
    <3>1. k \in 0..l /\ n + m - k = i /\ (k = 0 \/ k \in 1..l)
      BY <1>1, <1>2
    <3>2. f[i] = g[k]
      OBVIOUS
    <3>3. CASE k = 0
      <4>1. i > n
        BY <1>1, <1>2, <1>3, <3>3
      <4> QED BY <1>11, <3>2, <3>3, <4>1
    <3>4. CASE k \in 1..l
      <4>1. g[k] = IF i > n THEN <<>> ELSE IF at1(i) THEN new \o g[k - m] ELSE <<text[i]>> \o g[k - 1]
        BY <1>11, <3>1, <3>4
      <4>2. i > n \/ (i + m \in 1..(n + m) /\ n + m - (i + m) = k - m)
        BY <1>1, <1>2
      <4>3. i > n \/ (i + 1 \in 1..(n + m) /\ n + m - (i + 1) = k - 1)
        BY <1>1, <1>2, <1>3
      <4> HIDE DEF k
      <4>4. i > n \/ (f[i + m] = g[k - m] /\ f[i + 1] = g[k - 1])
        BY <4>2, <4>3
      <4> HIDE DEF f
      <4> QED BY <3>2, <4>1, <4>4
    <3> QED BY <3>1, <3>3, <3>4
  <2>2. f = [i \in 1..(n + m) |-> f[i]]
    OBVIOUS
  <2> HIDE DEF f
  <2> QED BY <2>1, <2>2
<1>13. Rests(F)
  <2> HIDE DEF f
  <2> QED BY <1>12
<1> HIDE DEF F, f
<1>14. \A i \in 1..(n + m) : F[i] = IF i > n THEN <<>> ELSE IF at1(i) THEN new \o F[i + m] ELSE <<text[i]>> \o F[i + 1]
  BY <1>13
<1>15. \A i \in 1..(n + m) : F[i] \in V
  <2> DEFINE These == {k \in 0..l : \A j \in 0..k : F[n + m - j] \in V}
  <2>1. ASSUME NEW j \in 0..l, \A o \in 0..l : o < j => F[n + m - o] \in V
        PROVE  F[n + m - j] \in V
    <3> DEFINE i == n + m - j
    <3>1. i \in 1..(n + m)
      BY <1>1, <1>2
    <3>2. CASE i > n
      BY <1>5, <1>14, <3>1, <3>2
    <3>3. CASE ~(i > n)
      <4>1. i \in 1..n /\ j - m \in 0..l /\ j - 1 \in 0..l /\ j - m < j /\ j - 1 < j
        BY <1>1, <1>2, <1>3, <3>1, <3>3
      <4>2. n + m - (j - m) = i + m /\ n + m - (j - 1) = i + 1
        BY <1>1, <1>2
      <4>3. F[i + m] \in V /\ F[i + 1] \in V
        BY <2>1, <4>1, <4>2
      <4> HIDE DEF i, l
      <4>4. new \o F[i + m] \in V /\ <<text[i]>> \o F[i + 1] \in V
        BY <1>5, <1>6, <4>1, <4>3
      <4>5. F[i] \in V
        BY <1>14, <3>1, <3>3, <4>4
      <4> QED BY <4>5 DEF i
    <3> QED BY <3>2, <3>3
  <2>2. 0 \in These
    <3>1. 0 \in 0..l /\ \A o \in 0..l : ~(o < 0)
      BY <1>3
    <3>2. F[n + m - 0] \in V
      BY <2>1, <3>1
    <3>3. \A j \in 0..0 : j = 0
      OBVIOUS
    <3> QED BY <3>1, <3>2, <3>3
  <2>3. ASSUME NEW k \in 1..l, k - 1 \in These PROVE k \in These
    <3>1. \A o \in 0..l : o < k => o \in 0..(k - 1)
      OBVIOUS
    <3>2. F[n + m - k] \in V
      <4>1. k \in 0..l
        OBVIOUS
      <4>2. \A o \in 0..l : o < k => F[n + m - o] \in V
        BY <2>3, <3>1
      <4> HIDE DEF l, These
      <4> QED BY <2>1, <4>1, <4>2
    <3>3. \A j \in 0..k : j = k \/ j \in 0..(k - 1)
      OBVIOUS
    <3>4. k \in 0..l
      OBVIOUS
    <3> HIDE DEF l
    <3> QED BY <2>3, <3>2, <3>3, <3>4
  <2> HIDE DEF These
  <2>4. 0..l \subseteq These
    <3> HIDE DEF l
    <3>1. l \in Nat
      BY <1>3 DEF l
    <3> QED BY <2>2, <2>3, <3>1, Counting
  <2>5. ASSUME NEW i \in 1..(n + m) PROVE F[i] \in V
    <3>1. n + m - i \in 0..l /\ n + m - i \in 0..(n + m - i) /\ n + m - (n + m - i) = i
      BY <1>1, <1>2
    <3>2. F[n + m - (n + m - i)] \in V
      BY <2>4, <3>1 DEF These
    <3> QED BY <3>1, <3>2
  <2> QED BY <2>5
<1>16. Replaces(F, text, old, new)
  BY <1>1, <1>2, <1>7, <1>14, <1>15 DEF Replaces, at1
<1> QED
  BY <1>4, <1>16

(* A phrase that begins and ends with other pieces than a space.             *)
Phrase(old) == IsSeq(old) /\ old # <<>> /\ old[1] # Space /\ old[Len(old)] # Space

(* A word that is no part of the phrase stays.                               *)
LEMMA ReplacedBears ==
    ASSUME NEW x, x # Space, NEW text, Bears(x, text), NEW old, Phrase(old), x \notin Range1(old),
           NEW new, IsSeq(new)
    PROVE  Bears(x, Replaced(text, old, new))
<1>1. IsSeq(text) /\ IsSeq(old) /\ old # <<>>
  BY DEF Bears, Phrase
<1>2. PICK n \in Nat : n = Len(text)
  BY <1>1, Shape
<1>3. PICK m \in Nat : m = Len(old) /\ DOMAIN old = 1..m
  BY <1>1, Shape
<1>4. m # 0 /\ 1 \in 1..m /\ m \in 1..m
  <2>1. m # 0
    BY <1>1, <1>3, Shape
  <2> QED BY <1>3, <2>1
<1>5. old[1] # Space /\ old[m] # Space /\ \A k \in 1..m : old[k] # x
  BY <1>3 DEF Phrase, Range1
<1>6. PICK rest : Replaces(rest, text, old, new) /\ Replaced(text, old, new) = rest[1]
  BY <1>1, Replacing
<1>7. \A i \in 1..(n + m) : IsSeq(rest[i])
  BY <1>2, <1>3, <1>6 DEF Replaces
<1>8. \A i \in 1..n : \/ OccursAt(i, old, text) /\ rest[i] = new \o rest[i + m]
                      \/ ~OccursAt(i, old, text) /\ rest[i] = <<text[i]>> \o rest[i + 1]
  <2>1. \A i \in 1..n : i \in 1..(n + m) /\ ~(i > n)
    BY <1>2, <1>3
  <2> QED BY <1>2, <1>3, <1>6, <2>1 DEF Replaces
<1>9. \A i \in 1..n : OccursAt(i, old, text) => i + m - 1 <= n /\ \A k \in 1..m : text[i + k - 1] = old[k]
  BY <1>1, <1>2, <1>3, <1>4, MatchesAt
<1>10. PICK p \in 1..n : text[p] = x /\ (p = 1 \/ text[p - 1] = Space) /\ (p = n \/ text[p + 1] = Space)
  BY <1>2 DEF Bears, Stands
<1>11. \A i \in 1..n : text[i] \in {x, Space} => ~OccursAt(i, old, text)
  <2> SUFFICES ASSUME NEW i \in 1..n, text[i] \in {x, Space}, OccursAt(i, old, text) PROVE FALSE
    OBVIOUS
  <2>1. i + 1 - 1 = i
    OBVIOUS
  <2> QED BY <1>4, <1>5, <1>9, <2>1
<1>12. Apart(rest[p + 1])
  <2>1. CASE p = n
    <3>1. n + 1 \in 1..(n + m) /\ n + 1 > n
      BY <1>2, <1>3, <1>4
    <3>2. rest[n + 1] = <<>>
      BY <1>2, <1>3, <1>6, <3>1 DEF Replaces
    <3> QED BY <2>1, <3>2 DEF Apart
  <2>2. CASE p # n
    <3>1. p + 1 \in 1..n /\ p + 2 \in 1..(n + m) /\ (p + 1) + 1 = p + 2
      BY <1>2, <1>3, <1>4, <1>10, <2>2
    <3>2. text[p + 1] = Space
      BY <1>10, <2>2
    <3>3. rest[p + 1] = <<Space>> \o rest[p + 2]
      BY <1>8, <1>11, <3>1, <3>2
    <3>4. IsSeq(<<Space>>) /\ Len(<<Space>>) = 1 /\ <<Space>>[1] = Space /\ 1 \in 1..1
      BY Single
    <3>5. (<<Space>> \o rest[p + 2])[1] = <<Space>>[1]
      BY <1>7, <3>1, <3>4, Joining
    <3> QED BY <3>3, <3>4, <3>5 DEF Apart
  <2> QED BY <2>1, <2>2
<1>13. Stands(x, rest[p])
  <2>1. p + 1 \in 1..(n + m)
    BY <1>2, <1>3, <1>4, <1>10
  <2>2. rest[p] = <<x>> \o rest[p + 1]
    BY <1>8, <1>10, <1>11
  <2>3. IsSeq(<<x>>) /\ Stands(x, <<x>>)
    <3>1. IsSeq(<<x>>) /\ Len(<<x>>) = 1 /\ <<x>>[1] = x /\ 1 \in 1..1
      BY Single
    <3> QED BY <3>1 DEF Stands
  <2> QED BY <1>7, <1>12, <2>1, <2>2, <2>3, StandsBefore
<1>14. CASE p = 1
  <2>1. 1 \in 1..(n + m)
    BY <1>2, <1>3, <1>4
  <2> QED BY <1>6, <1>7, <1>13, <1>14, <2>1 DEF Bears
<1>15. CASE p # 1
  <2> DEFINE l == p - 2
             These == {k \in 0..l : \A j \in 0..k : Parted(x, rest[p - 1 - j])}
  <2>1. l \in Nat /\ p - 1 \in 1..n /\ text[p - 1] = Space
    BY <1>2, <1>10, <1>15
  <2>2. Parted(x, rest[p - 1])
    <3>1. rest[p - 1] = <<Space>> \o rest[p]
      <4>1. (p - 1) + 1 = p
        BY <1>10
      <4> QED BY <1>8, <1>11, <2>1, <4>1
    <3>2. p \in 1..(n + m)
      BY <1>2, <1>3, <1>10
    <3> QED BY <1>7, <1>13, <3>1, <3>2, StandsParted
  <2>3. ASSUME NEW i \in 1..p - 2, \A o \in 1..p - 1 : o > i => Parted(x, rest[o])
        PROVE  Parted(x, rest[i])
    <3>1. i \in 1..n /\ i + 1 \in 1..p - 1 /\ i + 1 > i /\ i + 1 \in 1..(n + m)
      BY <1>2, <1>3, <1>10
    <3>2. CASE OccursAt(i, old, text)
      <4>1. i + m - 1 <= n /\ \A k \in 1..m : text[i + k - 1] = old[k]
        BY <1>9, <3>1, <3>2
      <4>2. i + m \in 1..p - 1 /\ i + m > i
        <5>1. ASSUME p <= i + m - 1 PROVE FALSE
          <6>1. p - i + 1 \in 1..m /\ i + (p - i + 1) - 1 = p
            BY <1>3, <1>10, <3>1, <5>1
          <6>2. text[p] = old[p - i + 1]
            BY <4>1, <6>1
          <6> QED BY <1>5, <1>10, <6>1, <6>2
        <5>2. ASSUME i + m - 1 = p - 1 PROVE FALSE
          <6>1. text[i + m - 1] = old[m]
            BY <1>4, <4>1
          <6> QED BY <1>5, <2>1, <5>2, <6>1
        <5>3. ~(p <= i + m - 1) /\ i + m - 1 # p - 1
          BY <5>1, <5>2
        <5> QED BY ONLY <1>2, <1>3, <1>4, <5>3
      <4>3. i + m \in 1..(n + m)
        BY <1>3, <3>1
      <4>4. rest[i] = new \o rest[i + m]
        BY <1>8, <3>1, <3>2
      <4>5. Parted(x, rest[i + m])
        BY <2>3, <4>2
      <4> QED BY <1>7, <4>3, <4>4, <4>5, PartedAfter
    <3>3. CASE ~OccursAt(i, old, text)
      <4>1. rest[i] = <<text[i]>> \o rest[i + 1]
        BY <1>8, <3>1, <3>3
      <4>2. Parted(x, rest[i + 1])
        BY <2>3, <3>1
      <4>3. IsSeq(<<text[i]>>)
        BY Single
      <4> QED BY <1>7, <3>1, <4>1, <4>2, <4>3, PartedAfter
    <3> QED BY <3>2, <3>3
  <2>4. 0 \in These
    <3>1. 0 \in 0..l /\ \A j \in 0..0 : p - 1 - j = p - 1
      BY <2>1, <1>10
    <3> QED BY <2>2, <3>1
  <2>5. ASSUME NEW k \in 1..l, k - 1 \in These PROVE k \in These
    <3>1. p - 1 - k \in 1..p - 2
      BY <1>10, <1>2
    <3>2. \A o \in 1..p - 1 : o > p - 1 - k => p - 1 - o \in 0..(k - 1) /\ p - 1 - (p - 1 - o) = o
      BY <1>10, <1>2
    <3>3. \A j \in 0..(k - 1) : Parted(x, rest[p - 1 - j])
      BY <2>5
    <3>4. \A o \in 1..p - 1 : o > p - 1 - k => Parted(x, rest[o])
      <4> SUFFICES ASSUME NEW o \in 1..p - 1, o > p - 1 - k PROVE Parted(x, rest[o])
        OBVIOUS
      <4>1. p - 1 - o \in 0..(k - 1) /\ p - 1 - (p - 1 - o) = o
        BY <3>2
      <4>2. Parted(x, rest[p - 1 - (p - 1 - o)])
        BY <3>3, <4>1
      <4> QED BY <4>1, <4>2
    <3>5. Parted(x, rest[p - 1 - k])
      BY <2>3, <3>1, <3>4
    <3>6. k \in 0..l /\ \A j \in 0..k : j = k \/ j \in 0..(k - 1)
      OBVIOUS
    <3> HIDE DEF l
    <3> QED BY <3>3, <3>5, <3>6
  <2> HIDE DEF These
  <2>6. 0..l \subseteq These
    <3> HIDE DEF l
    <3> QED BY <2>1, <2>4, <2>5, Counting
  <2>7. Parted(x, rest[1])
    <3>1. l \in 0..l /\ p - 1 - l = 1
      BY <1>10, <2>1
    <3>2. Parted(x, rest[p - 1 - l])
      <4> HIDE DEF l
      <4> QED BY <2>6, <3>1 DEF These
    <3> QED BY <3>1, <3>2
  <2>8. 1 \in 1..(n + m)
    BY <1>2, <1>3, <1>4
  <2> QED BY <1>6, <1>7, <2>7, <2>8, PartedStands DEF Bears
<1> QED
  BY <1>14, <1>15

(* A word stays that is no part of any of the phrases replaced in turn.      *)
LEMMA InTurnBears ==
    ASSUME NEW x, x # Space, NEW text, Bears(x, text), NEW rewrites, NEW n \in Nat, n = Len(rewrites),
           \A i \in 1..n : /\ Phrase(rewrites[i][1]) /\ x \notin Range1(rewrites[i][1])
                           /\ IsSeq(rewrites[i][2])
    PROVE  Bears(x, InTurn(text, rewrites))
<1> DEFINE One(t, i) == Replaced(t, rewrites[i][1], rewrites[i][2])
           Next1(f, i) == IF i = 0 THEN text ELSE One(f[i - 1], i)
           After(f, k) == f = [i \in 0..k |-> Next1(f, i)]
           F == CHOOSE f : After(f, n)
           S == {k \in 0..n : \E f : After(f, k)}
<1>1. InTurn(text, rewrites) = F[n]
  BY DEF InTurn
<1> HIDE DEF One
<1>2. 0 \in S
  <2> DEFINE f == [i \in 0..0 |-> text]
  <2>1. \A i \in 0..0 : i = 0
    OBVIOUS
  <2>2. After(f, 0)
    BY <2>1
  <2>3. 0 \in 0..n
    OBVIOUS
  <2> HIDE DEF After, f
  <2> QED BY <2>2, <2>3
<1>3. ASSUME NEW k \in 1..n, k - 1 \in S PROVE k \in S
  <2>1. PICK f : After(f, k - 1)
    BY <1>3
  <2>2. \A i \in 0..(k - 1) : f[i] = Next1(f, i)
    BY <2>1
  <2> DEFINE g == [i \in 0..k |-> IF i = k THEN One(f[k - 1], k) ELSE f[i]]
  <2>3. \A i \in 0..k : i = k \/ (i \in 0..(k - 1) /\ i # k /\ (i = 0 \/ (i - 1 \in 0..k /\ i - 1 # k)))
    OBVIOUS
  <2>4. k - 1 \in 0..k /\ k - 1 # k /\ k # 0 /\ k \in 0..n
    OBVIOUS
  <2>5. ASSUME NEW i \in 0..k PROVE g[i] = Next1(g, i)
    <3>1. CASE i = k
      <4>1. g[k - 1] = f[k - 1] /\ g[k] = One(f[k - 1], k)
        BY <2>4
      <4> HIDE DEF g
      <4> QED BY <2>4, <3>1, <4>1
    <3>2. CASE i # k
      <4>1. i \in 0..(k - 1) /\ (i = 0 \/ (i - 1 \in 0..k /\ i - 1 # k))
        BY <2>3, <3>2
      <4>2. g[i] = f[i] /\ (i = 0 \/ g[i - 1] = f[i - 1])
        BY <3>2, <4>1
      <4> HIDE DEF g
      <4> QED BY <2>2, <4>1, <4>2
    <3> QED BY <3>1, <3>2
  <2>6. g = [i \in 0..k |-> g[i]]
    OBVIOUS
  <2> HIDE DEF g
  <2>7. After(g, k)
    <3> HIDE DEF Next1
    <3> QED BY <2>5, <2>6
  <2> HIDE DEF After
  <2> QED BY <2>4, <2>7
<1>4. n \in S
  <2> HIDE DEF S
  <2>1. 0..n \subseteq S
    BY <1>2, <1>3, Counting
  <2>2. n \in 0..n
    OBVIOUS
  <2> QED BY <2>1, <2>2
<1>5. After(F, n)
  <2> HIDE DEF After
  <2> QED BY <1>4
<1> HIDE DEF F, S
<1>6. \A i \in 0..n : F[i] = Next1(F, i)
  BY <1>5
<1> DEFINE T == {k \in 0..n : Bears(x, F[k])}
<1>7. 0 \in T
  BY <1>6
<1>8. ASSUME NEW k \in 1..n, k - 1 \in T PROVE k \in T
  <2>1. k \in 0..n /\ k # 0 /\ Bears(x, F[k - 1])
    BY <1>8
  <2>2. F[k] = One(F[k - 1], k)
    BY <1>6, <2>1
  <2>3. Bears(x, One(F[k - 1], k))
    BY <2>1, ReplacedBears DEF One
  <2> QED BY <2>1, <2>2, <2>3
<1> HIDE DEF T
<1>9. 0..n \subseteq T
  BY <1>7, <1>8, Counting
<1>10. n \in 0..n
  OBVIOUS
<1> QED
  BY <1>1, <1>9, <1>10 DEF T

-----------------------------------------------------------------------------
(* The dictionaries.                                                        *)

(* A finite set can be listed.                                               *)
LEMMA SetListed ==
    ASSUME NEW S, IsFiniteSet(S)
    PROVE  SetToSeq(S) \in Seq(S)
<1>1. PICK n \in Nat : n = Cardinality(S)
  BY FS_CardinalityType
<1>2. \E f \in [1..n -> S] : IsInjective(f)
  BY <1>1, FS_CardinalityType DEF ExistsBijection, Bijection, Injection
<1>3. SetToSeq(S) \in [1..n -> S]
  BY <1>1, <1>2 DEF SetToSeq
<1> QED
  BY <1>1, <1>3, SeqDef

(* A phrase of a dictionary is one.                                          *)
LEMMA PhraseIs == ASSUME NEW text, IsPhrase(text) PROVE Phrase(text)
  BY OfElements DEF IsPhrase, Phrase

(* There is a longest of finitely many phrases.                              *)
LEMMA LongestOf ==
    ASSUME NEW S, IsFiniteSet(S), S # {}, \A e \in S : IsPhrase(e)
    PROVE  Max({Len(e) : e \in S}) \in Nat
<1> DEFINE lens == {Len(e) : e \in S}
<1>1. PICK n \in Nat : n = Cardinality(S)
  BY FS_CardinalityType
<1>2. PICK f \in [1..n -> S] : \A e \in S : \E i \in 1..n : f[i] = e
  BY <1>1, FS_CardinalityType DEF ExistsBijection, Bijection, Surjection
<1>3. \A e \in S : Len(e) \in Nat /\ Len(e) # 0
  BY PhraseIs, Shape DEF Phrase
<1> DEFINE T == {k \in 0..n : \E m \in Nat : \A i \in 1..k : Len(f[i]) <= m}
<1>4. 0 \in T
  <2>1. 0 \in 0..n /\ 0 \in Nat /\ \A i \in 1..0 : FALSE
    OBVIOUS
  <2> QED BY <2>1
<1>5. ASSUME NEW k \in 1..n, k - 1 \in T PROVE k \in T
  <2>1. PICK m \in Nat : \A i \in 1..(k - 1) : Len(f[i]) <= m
    BY <1>5
  <2>2. PICK l \in Nat : l = Len(f[k])
    BY <1>2, <1>3
  <2>3. \A i \in 1..k : i = k \/ i \in 1..(k - 1)
    OBVIOUS
  <2>4. \A i \in 1..k : i \in 1..n
    OBVIOUS
  <2>5. \A i \in 1..k : Len(f[i]) \in Nat
    BY <1>3, <2>4
  <2>6. \A i \in 1..k : Len(f[i]) <= m + l
    <3> SUFFICES ASSUME NEW i \in 1..k PROVE Len(f[i]) <= m + l
      OBVIOUS
    <3>1. CASE i = k
      BY <2>1, <2>2, <3>1
    <3>2. CASE i \in 1..(k - 1)
      <4>1. Len(f[i]) <= m /\ Len(f[i]) \in Nat
        BY <2>1, <2>5, <3>2
      <4> QED BY <2>1, <2>2, <4>1
    <3> QED BY <2>3, <3>1, <3>2
  <2>7. m + l \in Nat /\ k \in 0..n
    BY <2>1, <2>2
  <2> QED BY <2>6, <2>7
<1> HIDE DEF T
<1>6. 0..n \subseteq T
  BY <1>4, <1>5, Counting
<1>7. PICK m \in Nat : \A i \in 1..n : Len(f[i]) <= m
  <2>1. n \in 0..n
    BY <1>1
  <2> QED BY <1>6, <2>1 DEF T
<1>8. lens \in SUBSET (1..m) /\ lens # {}
  <2>1. ASSUME NEW e \in S PROVE Len(e) \in 1..m
    <3>1. PICK i \in 1..n : f[i] = e
      BY <1>2
    <3>2. Len(e) <= m
      BY <1>7, <3>1
    <3>3. Len(e) \in Nat /\ Len(e) # 0
      BY <1>3
    <3> QED BY <1>7, <3>2, <3>3
  <2> QED BY <2>1
<1>9. Max(lens) \in lens
  <2> HIDE DEF lens
  <2> QED BY <1>7, <1>8, MaxOf
<1> QED
  BY <1>3, <1>9

(* The entries of a map, the longest first.                                  *)
LEMMA LongestListed ==
    ASSUME NEW map \in BengaliMaps
    PROVE  /\ IsSeq(LongestFirst[map])
           /\ Range1(LongestFirst[map]) \subseteq DOMAIN map
<1>1. IsFiniteSet(DOMAIN map) /\ DOMAIN map # {} /\ \A e \in DOMAIN map : IsPhrase(e)
  BY DictionaryAssumption
<1> DEFINE longest == Max({Len(entry) : entry \in DOMAIN map})
           Part(n) == {entry \in DOMAIN map : Len(entry) = longest + 1 - n}
           seqs == [n \in 1..longest |-> SetToSeq(Part(n))]
<1>2. LongestFirst[map] = FlattenSeq(seqs)
  BY DEF LongestFirst
<1>3. longest \in Nat
  BY <1>1, LongestOf
<1> HIDE DEF longest
<1>4. ASSUME NEW n \in 1..longest PROVE IsSeq(seqs[n]) /\ Range1(seqs[n]) \subseteq DOMAIN map
  <2>1. IsFiniteSet(Part(n))
    BY <1>1, FS_Subset
  <2> HIDE DEF Part
  <2>2. seqs[n] \in Seq(Part(n))
    BY <2>1, SetListed
  <2>3. Part(n) \subseteq DOMAIN map
    BY DEF Part
  <2> HIDE DEF seqs
  <2>4. IsSeq(seqs[n])
    BY <2>2, OfElements
  <2>5. \A i \in DOMAIN seqs[n] : seqs[n][i] \in Part(n)
    BY <2>2, LenProperties, ElementOfSeq
  <2> QED BY <2>3, <2>4, <2>5 DEF Range1
<1>5. DOMAIN seqs = 1..longest /\ seqs = [n \in DOMAIN seqs |-> seqs[n]]
  OBVIOUS
<1> HIDE DEF seqs
<1>6. IsSeq(FlattenSeq(seqs)) /\ Range1(FlattenSeq(seqs)) = UNION {Range1(seqs[n]) : n \in 1..longest}
  BY <1>3, <1>4, <1>5, Gathering
<1> QED
  BY <1>2, <1>4, <1>6

(* A piece as a map of pieces reads it.                                      *)
Reading(p, map) == IF p \in DOMAIN map THEN map[p] ELSE p

(* The maps of pieces leave the spaces, and make no other.                   *)
LEMMA SpacesStay ==
    ASSUME NEW map \in {BENGALI_DIGITS, PHONETIC, LOWER}
    PROVE  Reading(Space, map) = Space /\ \A p : p # Space => Reading(p, map) # Space
  BY DictionaryAssumption DEF Reading

(* Each piece of a text as the map reads it.                                 *)
LEMMA ReadBears ==
    ASSUME NEW x, NEW text, Bears(x, text), NEW map \in {BENGALI_DIGITS, PHONETIC, LOWER}
    PROVE  Bears(Reading(x, map), [i \in DOMAIN text |-> Reading(text[i], map)])
<1> DEFINE u == [i \in DOMAIN text |-> Reading(text[i], map)]
<1>1. Reading(Space, map) = Space
  BY SpacesStay
<1>2. DOMAIN u = DOMAIN text /\ u = [i \in DOMAIN u |-> u[i]]
  OBVIOUS
<1>3. \A i \in DOMAIN text : (text[i] = x => u[i] = Reading(x, map)) /\ (text[i] = Space => u[i] = Space)
  BY <1>1
<1> HIDE DEF u
<1> QED
  BY <1>2, <1>3, EachBears DEF u

(* So a text is put in lower case, given its digits, and spelled.            *)
LEMMA EachIsRead ==
    ASSUME NEW text
    PROVE  /\ Lower(text) = [i \in DOMAIN text |-> Reading(text[i], LOWER)]
           /\ Digits(text) = [i \in DOMAIN text |-> Reading(text[i], BENGALI_DIGITS)]
           /\ Transliterated(text) = [i \in DOMAIN text |-> Reading(text[i], PHONETIC)]
  BY DEF Lower, Digits, Transliterated, Reading

(* A word stands in the text in lower case,                                 *)
LEMMA LowerBears == ASSUME NEW x, NEW text, Bears(x, text) PROVE Bears(Reading(x, LOWER), Lower(text))
  BY ReadBears, EachIsRead

(* in the text with its digits,                                             *)
LEMMA DigitsBear == ASSUME NEW x, NEW text, Bears(x, text) PROVE Bears(Reading(x, BENGALI_DIGITS), Digits(text))
  BY ReadBears, EachIsRead

(* and in the text as it is spelled.                                        *)
LEMMA TransliteratedBears ==
    ASSUME NEW x, NEW text, Bears(x, text)
    PROVE  Bears(Reading(x, PHONETIC), Transliterated(text))
  BY ReadBears, EachIsRead

(* The texts of a single piece.                                              *)
LEMMA OneRead ==
    ASSUME NEW x
    PROVE  /\ Lower(<<x>>) = <<Reading(x, LOWER)>>
           /\ Digits(<<x>>) = <<Reading(x, BENGALI_DIGITS)>>
           /\ Spelled(<<x>>) = <<Reading(Reading(x, BENGALI_DIGITS), PHONETIC)>>
           /\ \A bare : Bared(<<x>>, bare) = <<Reading(x, bare)>>
<1>1. \A map : [i \in DOMAIN <<x>> |-> Reading(<<x>>[i], map)] = <<Reading(x, map)>>
  OBVIOUS
<1>2. Digits(<<x>>) = <<Reading(x, BENGALI_DIGITS)>>
  BY <1>1, EachIsRead
<1>3. ASSUME NEW y
      PROVE  [i \in DOMAIN <<y>> |-> IF <<y>>[i] \in DOMAIN PHONETIC THEN PHONETIC[<<y>>[i]] ELSE <<y>>[i]]
                 = <<Reading(y, PHONETIC)>>
  BY DEF Reading
<1>4. Spelled(<<x>>) = <<Reading(Reading(x, BENGALI_DIGITS), PHONETIC)>>
  BY <1>2, <1>3 DEF Spelled
<1>5. \A bare : Bared(<<x>>, bare) = <<Reading(x, bare)>>
  BY DEF Bared, Reading
<1> QED
  BY <1>1, <1>2, <1>4, <1>5, EachIsRead

(* A piece that no dictionary lists: as it stands, in lower case, or as the  *)
(* look-ups read it.                                                         *)
Unlisted(x) ==
    /\ x # Space /\ x \notin Listed /\ Reading(x, LOWER) \notin Listed
    /\ \A bare \in {BARE, LETTERS} : Reading(Reading(x, LOWER), bare) \notin Listed

(* It is no mark, and no piece of an entry.                                 *)
LEMMA UnlistedHas ==
    ASSUME NEW x, Unlisted(x)
    PROVE  /\ x # Space /\ Reading(x, LOWER) # Space
           /\ x \notin MARKS /\ Reading(x, LOWER) \notin MARKS
           /\ \A map \in BengaliMaps \union WordMaps : \A e \in DOMAIN map :
                 /\ x \notin Range1(e)
                 /\ \A bare \in {BARE, LETTERS} : Reading(Reading(x, LOWER), bare) \notin Range1(e)
           /\ \A i \in DOMAIN PHRASE_REWRITES :
                 x \notin Range1(PHRASE_REWRITES[i][1]) /\ Reading(x, LOWER) \notin Range1(PHRASE_REWRITES[i][1])
<1>1. Reading(x, LOWER) # Space
  BY SpacesStay DEF Unlisted
<1>2. \A y : y \notin Listed =>
          /\ y \notin MARKS
          /\ \A map \in BengaliMaps \union WordMaps : \A e \in DOMAIN map : y \notin Range1(e)
          /\ \A i \in DOMAIN PHRASE_REWRITES : y \notin Range1(PHRASE_REWRITES[i][1])
  <2> SUFFICES ASSUME NEW y, y \notin Listed
               PROVE  /\ y \notin MARKS
                      /\ \A map \in BengaliMaps \union WordMaps : \A e \in DOMAIN map : y \notin Range1(e)
                      /\ \A i \in DOMAIN PHRASE_REWRITES : y \notin Range1(PHRASE_REWRITES[i][1])
    OBVIOUS
  <2> DEFINE words   == UNION {UNION {Range1(entry) : entry \in DOMAIN map} : map \in BengaliMaps \union WordMaps}
             phrases == UNION {Range1(PHRASE_REWRITES[i][1]) : i \in DOMAIN PHRASE_REWRITES}
  <2>0. Listed = (words \union phrases) \union MARKS
    BY DEF Listed
  <2>1. y \notin MARKS /\ y \notin words /\ y \notin phrases
    <3> HIDE DEF words, phrases
    <3> QED BY <2>0
  <2>2. ASSUME NEW map \in BengaliMaps \union WordMaps, NEW e \in DOMAIN map, y \in Range1(e) PROVE FALSE
    <3>1. y \in UNION {Range1(f) : f \in DOMAIN map}
      BY <2>2
    <3> QED BY <2>1, <3>1
  <2>3. ASSUME NEW i \in DOMAIN PHRASE_REWRITES, y \in Range1(PHRASE_REWRITES[i][1]) PROVE FALSE
    BY <2>1, <2>3
  <2> QED BY <2>1, <2>2, <2>3
<1> QED
  BY <1>1, <1>2 DEF Unlisted

(* A word that no dictionary lists is kept by the passes word by word,       *)
LEMMA UnlistedStays ==
    ASSUME NEW x, Unlisted(x), NEW text, Bears(x, text), NEW map \in WordMaps, NEW ignored,
           NEW bare \in {BARE, LETTERS}
    PROVE  Bears(x, ByWord(text, map, ignored, bare))
<1>1. \A e \in DOMAIN map : IsPhrase(e) /\ map[e] \in Seq(STRING)
  BY DictionaryAssumption
<1>2. \A e \in DOMAIN map : IsSeq(map[e])
  BY <1>1, OfElements
<1>3. Removed(Bared(Lower(<<x>>), bare), ignored) \notin DOMAIN map
  <2> DEFINE read == Reading(Reading(x, LOWER), bare)
  <2>1. Bared(Lower(<<x>>), bare) = <<read>>
    BY OneRead
  <2>2. Removed(Bared(Lower(<<x>>), bare), ignored) \in {<<>>, <<read>>}
    BY <2>1, RemovedOf
  <2>3. <<>> \notin DOMAIN map
    BY <1>1 DEF IsPhrase
  <2>4. <<read>> \notin DOMAIN map
    <3>1. read \in Range1(<<read>>)
      BY RangeOfSingle
    <3>2. map \in BengaliMaps \union WordMaps
      OBVIOUS
    <3> QED BY <3>1, <3>2, UnlistedHas
  <2> QED BY <2>2, <2>3, <2>4
<1> QED
  BY <1>2, <1>3, ByWordHas DEF Unlisted

(* by the translation of what stands around it,                              *)
LEMMA TranslatedBears ==
    ASSUME NEW x, Unlisted(x), NEW text, Bears(x, text), NEW map \in BengaliMaps
    PROVE  Bears(x, Translated(map, text))
<1> DEFINE entries  == LongestFirst[map]
           rewrites == [i \in DOMAIN entries |-> <<entries[i], <<Space>> \o map[entries[i]] \o <<Space>>>>]
<1>1. Translated(map, text) = InTurn(text, rewrites)
  BY DEF Translated
<1>2. IsSeq(entries) /\ Range1(entries) \subseteq DOMAIN map
  BY LongestListed
<1> HIDE DEF entries
<1>3. PICK n \in Nat : n = Len(entries) /\ DOMAIN entries = 1..n
  BY <1>2, Shape
<1>4. Len(rewrites) = n
  <2>1. DOMAIN rewrites = 1..n /\ rewrites = [i \in DOMAIN rewrites |-> rewrites[i]]
    BY <1>3
  <2> HIDE DEF rewrites
  <2> QED BY <2>1, <1>3, Listing
<1>5. ASSUME NEW i \in 1..n
      PROVE  Phrase(rewrites[i][1]) /\ x \notin Range1(rewrites[i][1]) /\ IsSeq(rewrites[i][2])
  <2> DEFINE e == entries[i]
  <2>1. e \in DOMAIN map
    BY <1>2, <1>3 DEF Range1
  <2>2. rewrites[i][1] = e /\ rewrites[i][2] = <<Space>> \o map[e] \o <<Space>>
    BY <1>3
  <2> HIDE DEF e, rewrites
  <2>3. IsPhrase(e) /\ map[e] \in Seq(STRING)
    BY <2>1, DictionaryAssumption
  <2>4. Phrase(e) /\ IsSeq(map[e])
    BY <2>3, PhraseIs, OfElements
  <2>5. IsSeq(<<Space>>)
    BY Single
  <2>6. IsSeq(<<Space>> \o map[e] \o <<Space>>)
    BY <2>4, <2>5, Joining
  <2>7. x \notin Range1(e)
    BY <2>1, UnlistedHas
  <2> QED BY <2>2, <2>4, <2>6, <2>7
<1> HIDE DEF rewrites
<1>6. Bears(x, InTurn(text, rewrites))
  BY <1>3, <1>4, <1>5, InTurnBears DEF Unlisted
<1> QED
  BY <1>1, <1>6

-----------------------------------------------------------------------------
(* The passes, one after the other.                                         *)

(* by the normalization, which spells it,                                    *)
LEMMA NormalizedBears ==
    ASSUME NEW x, NEW d, d = Reading(x, BENGALI_DIGITS), NEW y, y = Reading(d, PHONETIC),
           Unlisted(x), Unlisted(d), Unlisted(y), NEW text, Bears(x, text)
    PROVE  Bears(y, Normalized(text))
<1>1. BANGLISH_INTENT_MAP \in WordMaps /\ PHONETIC_CORRECTION_MAP \in WordMaps
  BY DEF WordMaps
<1>2. /\ BENGALI_INTENT_MAP \in BengaliMaps /\ BENGALI_PRODUCT_MAP \in BengaliMaps
      /\ BENGALI_LOANWORD_MAP \in BengaliMaps
  BY DEF BengaliMaps
<1>3. CASE ~HasBengali(text)
  <2>1. Normalized(text) = Banglish(text)
    BY <1>3 DEF Normalized
  <2>2. Bears(x, Banglish(text))
    BY <1>1, UnlistedStays DEF Banglish
  <2>3. x \notin BENGALI
    <3>1. PICK n \in Nat : n = Len(text) /\ DOMAIN text = 1..n
      BY Shape DEF Bears
    <3>2. \E i \in DOMAIN text : text[i] = x
      BY <3>1 DEF Bears, Stands
    <3> QED BY <1>3, <3>2 DEF HasBengali
  <2>4. y = x
    <3>1. x \notin DOMAIN BENGALI_DIGITS /\ x \notin DOMAIN PHONETIC
      BY <2>3 DEF BENGALI
    <3> QED BY <3>1 DEF Reading
  <2> QED BY <2>1, <2>2, <2>4
<1>4. CASE HasBengali(text)
  <2> DEFINE t1 == Digits(text)
             t2 == Translated(BENGALI_LOANWORD_MAP, t1)
             t3 == Translated(BENGALI_PRODUCT_MAP, t2)
             t4 == Translated(BENGALI_INTENT_MAP, t3)
             t5 == Banglish(t4)
             t6 == Transliterated(t5)
             t7 == ByWord(t6, PHONETIC_CORRECTION_MAP, MARKS \union NUMBERS, LETTERS)
  <2>1. Normalized(text) = Stripped(t7)
    BY <1>4 DEF Normalized
  <2>2. Bears(d, t1)
    BY DigitsBear
  <2> HIDE DEF t1
  <2>3. Bears(d, t2)
    BY <1>2, <2>2, TranslatedBears
  <2> HIDE DEF t2
  <2>4. Bears(d, t3)
    BY <1>2, <2>3, TranslatedBears
  <2> HIDE DEF t3
  <2>5. Bears(d, t4)
    BY <1>2, <2>4, TranslatedBears
  <2> HIDE DEF t4
  <2>6. Bears(d, t5)
    BY <1>1, <2>5, UnlistedStays DEF Banglish
  <2> HIDE DEF t5
  <2>7. Bears(y, t6)
    BY <2>6, TransliteratedBears
  <2> HIDE DEF t6
  <2>8. Bears(y, t7)
    BY <1>1, <2>7, UnlistedStays
  <2> HIDE DEF t7
  <2>9. y \notin MARKS \union {Space}
    BY UnlistedHas
  <2> QED BY <2>1, <2>8, <2>9, StrippedHas
<1> QED
  BY <1>3, <1>4

(* and by the rewriting, which puts it in lower case.                        *)
LEMMA RewrittenBears ==
    ASSUME NEW y, Unlisted(y), NEW text, Bears(y, text)
    PROVE  Bears(Reading(y, LOWER), Rewritten(text))
<1> DEFINE l == Reading(y, LOWER)
           t == Stripped(Lower(text))
           u == InTurn(t, PHRASE_REWRITES)
<1>1. l # Space /\ l \notin MARKS
  BY UnlistedHas
<1>2. Reading(l, LOWER) = l
  BY DictionaryAssumption DEF Reading
<1>3. Unlisted(l)
  BY <1>1, <1>2 DEF Unlisted
<1>4. Bears(l, Lower(text))
  BY LowerBears
<1> HIDE DEF l
<1>5. Bears(l, t)
  BY <1>1, <1>4, StrippedHas
<1> HIDE DEF t
<1>6. PHRASE_REWRITES \in Seq(Seq(STRING) \X Seq(STRING))
  BY DictionaryAssumption
<1>7. PICK n \in Nat : n = Len(PHRASE_REWRITES) /\ DOMAIN PHRASE_REWRITES = 1..n
  BY <1>6, LenProperties
<1>8. ASSUME NEW i \in 1..n
      PROVE  /\ Phrase(PHRASE_REWRITES[i][1]) /\ l \notin Range1(PHRASE_REWRITES[i][1])
             /\ IsSeq(PHRASE_REWRITES[i][2])
  <2>1. PHRASE_REWRITES[i] \in Seq(STRING) \X Seq(STRING)
    BY <1>6, <1>7, ElementOfSeq
  <2>2. PHRASE_REWRITES[i][2] \in Seq(STRING)
    BY <2>1
  <2>3. IsSeq(PHRASE_REWRITES[i][2])
    BY <2>2, OfElements
  <2>4. IsPhrase(PHRASE_REWRITES[i][1])
    BY <1>7, DictionaryAssumption
  <2>5. l \notin Range1(PHRASE_REWRITES[i][1])
    BY <1>3, <1>7, UnlistedHas
  <2> QED BY <2>3, <2>4, <2>5, PhraseIs
<1>9. Bears(l, u)
  BY <1>1, <1>5, <1>7, <1>8, InTurnBears
<1> HIDE DEF u
<1>10. ABBREVIATION_MAP \in WordMaps
  BY DEF WordMaps
<1>11. Bears(l, ByWord(u, ABBREVIATION_MAP, MARKS, BARE))
  BY <1>3, <1>9, <1>10, UnlistedStays
<1> QED
  BY <1>11 DEF Rewritten, u, t, l

(* What is put between a space and the next stands apart.                    *)
LEMMA ListApart ==
    ASSUME NEW S, IsFiniteSet(S), \A s \in S : IsSeq(s)
    PROVE  /\ IsSeq(FlattenSeq(SetToSeq({<<Space>> \o s : s \in S})))
           /\ Apart(FlattenSeq(SetToSeq({<<Space>> \o s : s \in S})))
<1> DEFINE T == {<<Space>> \o s : s \in S}
           list == SetToSeq(T)
           f == [s \in S |-> <<Space>> \o s]
<1>1. IsFiniteSet(T)
  <2>1. f \in [S -> T] /\ \A t \in T : \E s \in S : f[s] = t
    OBVIOUS
  <2>2. f \in Surjection(S, T)
    BY <2>1 DEF Surjection
  <2> HIDE DEF f, T
  <2> QED BY <2>2, FS_Surjection
<1>2. \A t \in T : IsSeq(t) /\ t[1] = Space
  <2> SUFFICES ASSUME NEW s \in S PROVE IsSeq(<<Space>> \o s) /\ (<<Space>> \o s)[1] = Space
    OBVIOUS
  <2>1. IsSeq(<<Space>>) /\ Len(<<Space>>) = 1 /\ <<Space>>[1] = Space /\ 1 \in 1..1
    BY Single
  <2> QED BY <2>1, Joining
<1> HIDE DEF T
<1>3. list \in Seq(T)
  BY <1>1, SetListed
<1> HIDE DEF list
<1>4. PICK n \in Nat : n = Len(list) /\ DOMAIN list = 1..n /\ list = [i \in DOMAIN list |-> list[i]]
  BY <1>3, LenProperties
<1>5. \A i \in 1..n : list[i] \in T
  BY <1>3, <1>4, ElementOfSeq
<1>6. PICK g : AddsUp(g, list, n) /\ FlattenSeq(list) = g[n]
  BY <1>2, <1>4, <1>5, Flattening
<1>7. \A i \in 1..n : IsSeq(list[i]) /\ list[i][1] = Space
  BY <1>2, <1>5
<1> DEFINE These == {k \in 0..n : Apart(g[k])}
<1>8. 0 \in These
  BY <1>6 DEF AddsUp, Apart
<1>9. ASSUME NEW k \in 1..n, k - 1 \in These PROVE k \in These
  <2>1. g[k] = g[k - 1] \o list[k] /\ IsSeq(g[k - 1]) /\ IsSeq(list[k]) /\ Apart(g[k - 1])
    <3>1. k - 1 \in 0..n
      OBVIOUS
    <3> QED BY <1>6, <1>7, <1>9, <3>1 DEF AddsUp
  <2>2. CASE g[k - 1] = <<>>
    <3>1. list[k] \in Seq(Range1(list[k]))
      BY <2>1 DEF IsSeq
    <3>2. <<>> \o list[k] = list[k]
      BY <3>1, ConcatEmptySeq
    <3>3. Apart(g[k])
      BY <1>7, <2>1, <2>2, <3>2 DEF Apart
    <3> QED BY <3>3
  <2>3. CASE g[k - 1] # <<>>
    <3>1. Len(g[k - 1]) \in Nat /\ Len(g[k - 1]) # 0
      BY <2>1, <2>3, Shape
    <3>2. 1 \in 1..Len(g[k - 1])
      BY <3>1
    <3> DEFINE s == g[k - 1]
               t == list[k]
    <3>3. (s \o t)[1] = s[1]
      <4>1. IsSeq(s) /\ IsSeq(t) /\ 1 \in 1..Len(s)
        BY <2>1, <3>2
      <4> HIDE DEF s, t
      <4> QED BY <4>1, Joining
    <3>4. Apart(g[k])
      BY <2>1, <2>3, <3>3 DEF Apart
    <3> QED BY <3>4
  <2> QED BY <2>2, <2>3
<1> HIDE DEF These
<1>10. 0..n \subseteq These
  BY <1>8, <1>9, Counting
<1>11. n \in These
  BY <1>10
<1>12. Apart(g[n]) /\ IsSeq(g[n])
  BY <1>6, <1>11 DEF These, AddsUp
<1> QED
  BY <1>6, <1>12 DEF list, T

-----------------------------------------------------------------------------
(* What is appended for the search.                                         *)

(* Words make a text.                                                        *)
LEMMA JoinedIs ==
    ASSUME NEW n \in Nat, NEW words, DOMAIN words = 1..n, words = [i \in DOMAIN words |-> words[i]],
           \A i \in 1..n : IsSeq(words[i])
    PROVE  IsSeq(Joined(words))
<1> DEFINE seqs == [i \in 1..n |-> IF words[i] = <<>> THEN <<>> ELSE <<Space>> \o words[i]]
           t    == FlattenSeq(seqs)
<1>1. Joined(words) = SubSeq(t, 2, Len(t))
  BY DEF Joined
<1>2. \A i \in 1..n : IsSeq(seqs[i])
  <2> TAKE i \in 1..n
  <2>1. IsSeq(<<Space>> \o words[i])
    BY Single, Joining
  <2> QED BY <2>1, Nothing
<1>3. DOMAIN seqs = 1..n /\ seqs = [i \in DOMAIN seqs |-> seqs[i]]
  OBVIOUS
<1> HIDE DEF seqs
<1>4. IsSeq(t)
  BY <1>2, <1>3, Gathering
<1> HIDE DEF t
<1>5. PICK m \in Nat : m = Len(t)
  BY <1>4, Shape
<1>6. CASE m = 0
  <2>1. SubSeq(t, 2, m) = <<>>
    <3>1. \A i \in 2..m : FALSE
      BY <1>6
    <3>2. SubSeq(t, 2, m) \in Seq(Range1(t)) /\ Len(SubSeq(t, 2, m)) = 0
      BY ONLY <1>5, <1>6, <3>1, SubSeqProperties
    <3> QED BY <3>2, OfElements, Shape
  <2> QED BY <1>1, <1>5, <2>1, Nothing
<1>7. CASE m # 0
  <2>1. 2 \in 1..m + 1 /\ m \in 0..m
    BY <1>5, <1>7
  <2>2. IsSeq(SubSeq(t, 2, m))
    BY <1>4, <1>5, <2>1, PartOf
  <2> QED BY <1>1, <1>5, <2>2
<1> QED
  BY <1>6, <1>7

(* There are finitely many constraints, each a text.                         *)
LEMMA ConstraintsAre ==
    ASSUME NEW text
    PROVE  IsFiniteSet(Constraints(text)) /\ \A c \in Constraints(text) : IsSeq(c)
<1> DEFINE limits == {m \in NUMBERS : Names(text, {<<"under", Space, m>>, <<"below", Space, m>>})}
           colors == {d \in {"black", "navy"} : Names(text, {<<d>>})}
           sizes  == {z \in {"xl", "large"} : Names(text, {<<z>>})}
           A == {<<"price", Space, "under", Space, n>> : n \in limits}
           B == {<<c>> : c \in colors}
           C == {<<"size", Space, s>> : s \in sizes}
<1>1. Constraints(text) = A \union B \union C
  BY DEF Constraints
<1>2. A \subseteq {<<"price", Space, "under", Space, "3">>, <<"price", Space, "under", Space, "2000">>}
  BY DEF NUMBERS
<1>3. B \subseteq {<<"black">>, <<"navy">>}
  OBVIOUS
<1>4. C \subseteq {<<"size", Space, "xl">>, <<"size", Space, "large">>}
  OBVIOUS
<1>5. \A x, y, S : S \subseteq {x, y} => IsFiniteSet(S)
  <2> SUFFICES ASSUME NEW x, NEW y, NEW S, S \subseteq {x, y} PROVE IsFiniteSet(S)
    OBVIOUS
  <2>1. IsFiniteSet({x}) /\ IsFiniteSet({y})
    BY FS_Singleton
  <2>2. IsFiniteSet({x} \union {y})
    BY <2>1, FS_Union
  <2>3. S \subseteq {x} \union {y}
    OBVIOUS
  <2> QED BY <2>2, <2>3, FS_Subset
<1>6. ASSUME NEW c \in A \union B \union C PROVE IsSeq(c)
  <2>1. ASSUME NEW a, NEW b, NEW d, NEW e, NEW f PROVE IsSeq(<<a, b, d, e, f>>)
    <3>1. <<a, b, d, e, f>> \in Seq({a, b, d, e, f})
      OBVIOUS
    <3> QED BY <3>1, OfElements
  <2>2. ASSUME NEW a, NEW b, NEW d PROVE IsSeq(<<a, b, d>>)
    <3>1. <<a, b, d>> \in Seq({a, b, d})
      OBVIOUS
    <3> QED BY <3>1, OfElements
  <2>3. ASSUME NEW a PROVE IsSeq(<<a>>)
    BY Single
  <2> QED BY <2>1, <2>2, <2>3
<1>7. IsFiniteSet(A) /\ IsFiniteSet(B) /\ IsFiniteSet(C)
  <2> HIDE DEF A, B, C
  <2>1. IsFiniteSet(A)
    BY <1>2, <1>5
  <2>2. IsFiniteSet(B)
    BY <1>3, <1>5
  <2>3. IsFiniteSet(C)
    BY <1>4, <1>5
  <2> QED BY <2>1, <2>2, <2>3
<1> HIDE DEF A, B, C
<1>8. IsFiniteSet(A \union B \union C)
  BY <1>7, FS_Union
<1> QED
  BY <1>1, <1>6, <1>8

(* There are finitely many runs of capitalized words, each a text.           *)
LEMMA RunsAre ==
    ASSUME NEW text, IsSeq(text), NEW least
    PROVE  IsFiniteSet(Runs(text, least)) /\ \A r \in Runs(text, least) : IsSeq(r)
<1> DEFINE words == Words(text)
           Part(b) == Joined(SubSeq(words, b[1], b[2]))
           Run(i, j) == \A k \in i..j : Len(words[k]) = 1 /\ words[k][1] \in TITLES
           bounds == {b \in (DOMAIN words) \X (DOMAIN words) :
                         /\ b[2] - b[1] >= least - 1 /\ Run(b[1], b[2])
                         /\ (b[1] = 1 \/ ~Run(b[1] - 1, b[2]))
                         /\ (b[2] = Len(words) \/ ~Run(b[1], b[2] + 1))}
           R == {Part(b) : b \in bounds}
           f == [b \in bounds |-> Part(b)]
<1>1. Runs(text, least) = R
  BY DEF Runs
<1>2. IsSeq(words) /\ \A w \in Range1(words) : IsSeq(w)
  BY WordsAt, WordsAreTexts
<1> HIDE DEF words
<1>3. PICK n \in Nat : n = Len(words) /\ DOMAIN words = 1..n
  BY <1>2, Shape
<1>4. bounds \subseteq (1..n) \X (1..n)
  BY <1>3
<1> HIDE DEF bounds
<1>5. IsFiniteSet(bounds)
  <2>1. IsFiniteSet(1..n)
    BY FS_Interval
  <2>2. IsFiniteSet((1..n) \X (1..n))
    BY <2>1, FS_Product
  <2> QED BY <1>4, <2>2, FS_Subset
<1>6. IsFiniteSet(R)
  <2> HIDE DEF Part
  <2>1. f \in [bounds -> R] /\ \A r \in R : \E b \in bounds : f[b] = r
    OBVIOUS
  <2>2. f \in Surjection(bounds, R)
    BY <2>1 DEF Surjection
  <2> HIDE DEF f, R
  <2> QED BY <1>5, <2>2, FS_Surjection
<1>7. ASSUME NEW b \in bounds PROVE IsSeq(Part(b))
  <2>1. PICK a \in 1..n, c \in 1..n : b = <<a, c>>
    BY <1>4
  <2>2. a \in 1..n + 1 /\ c \in 0..n
    OBVIOUS
  <2> DEFINE s == SubSeq(words, a, c)
  <2>3. /\ IsSeq(s) /\ Len(s) = IF a <= c THEN c - a + 1 ELSE 0
        /\ \A i \in 1..c - a + 1 : s[i] = words[a + i - 1]
    BY <1>2, <1>3, <2>2, PartOf
  <2> HIDE DEF s
  <2>4. PICK m \in Nat : m = Len(s) /\ DOMAIN s = 1..m /\ s = [i \in DOMAIN s |-> s[i]]
    BY <2>3, Shape
  <2>5. \A i \in 1..m : IsSeq(s[i])
    <3> TAKE i \in 1..m
    <3>1. i \in 1..c - a + 1 /\ a + i - 1 \in 1..n
      BY <1>3, <2>1, <2>3, <2>4
    <3>2. s[i] = words[a + i - 1]
      BY <2>3, <3>1
    <3>3. words[a + i - 1] \in Range1(words)
      BY <1>3, <3>1 DEF Range1
    <3> QED BY <1>2, <3>2, <3>3
  <2>6. IsSeq(Joined(s))
    BY <2>4, <2>5, JoinedIs
  <2> QED BY <2>1, <2>6 DEF s
<1> QED
  BY <1>1, <1>6, <1>7

(* What is appended for the search leaves the words of the wording.          *)
LEMMA RetrievalBears ==
    ASSUME NEW x, NEW text, Bears(x, text)
    PROVE  Bears(x, Retrieval(text))
<1> DEFINE C == Constraints(text)
           R == Runs(text, 1)
           c == FlattenSeq(SetToSeq({<<Space>> \o s : s \in C}))
           r == FlattenSeq(SetToSeq({<<Space>> \o s : s \in R}))
           h == <<Space, "compare">>
<1>1. Retrieval(text) \in {text \o c, text \o (h \o r), text \o <<>>}
  BY DEF Retrieval
<1>2. IsSeq(c) /\ Apart(c)
  <2>1. IsFiniteSet(C) /\ \A s \in C : IsSeq(s)
    BY ConstraintsAre
  <2> HIDE DEF C
  <2> QED BY <2>1, ListApart
<1>3. IsSeq(r)
  <2>1. IsFiniteSet(R) /\ \A s \in R : IsSeq(s)
    BY RunsAre DEF Bears
  <2> HIDE DEF R
  <2> QED BY <2>1, ListApart
<1> HIDE DEF c, r
<1>4. IsSeq(h \o r) /\ Apart(h \o r)
  <2>1. h \in Seq({Space, "compare"}) /\ Len(h) = 2 /\ h[1] = Space
    OBVIOUS
  <2>2. IsSeq(h)
    BY <2>1, OfElements
  <2> HIDE DEF h
  <2>3. 1 \in 1..Len(h)
    BY <2>1
  <2> QED BY <1>3, <2>1, <2>2, <2>3, Joining DEF Apart
<1> HIDE DEF h
<1>5. \A t : IsSeq(t) /\ Apart(t) => Bears(x, text \o t)
  BY Joining, StandsBefore DEF Bears
<1>6. IsSeq(<<>>) /\ Apart(<<>>)
  BY Nothing DEF Apart
<1> QED
  BY <1>1, <1>2, <1>4, <1>5, <1>6

(* Three pieces.                                                             *)
LEMMA ThreePieces ==
    ASSUME NEW s, IsSeq(s), Len(s) = 3
    PROVE  s = <<s[1], s[2], s[3]>>
<1>1. DOMAIN s = 1..3 /\ s = [i \in DOMAIN s |-> s[i]]
  BY Shape
<1>2. \A i \in 1..3 : i \in {1, 2, 3}
  OBVIOUS
<1> QED
  BY <1>1, <1>2

(* A text with one piece more at its beginning.                              *)
LEMMA OneBefore ==
    ASSUME NEW y, NEW s, IsSeq(s), NEW n \in Nat, n = Len(s)
    PROVE  /\ IsSeq(<<y>> \o s) /\ Len(<<y>> \o s) = n + 1 /\ (<<y>> \o s)[1] = y
           /\ \A i \in 1..n : (<<y>> \o s)[i + 1] = s[i]
<1> DEFINE t == <<y>> \o s
<1>1. IsSeq(<<y>>) /\ Len(<<y>>) = 1 /\ <<y>>[1] = y
  BY Single
<1>2. 1 \in 1..1
  OBVIOUS
<1>3. IsSeq(t) /\ Len(t) = 1 + n /\ t[1] = <<y>>[1] /\ \A i \in 1..n : t[i + 1] = s[i]
  BY <1>1, <1>2, Joining
<1> HIDE DEF t
<1>4. Len(t) = n + 1 /\ t[1] = y
  BY <1>1, <1>3
<1> QED
  BY <1>3, <1>4 DEF t

(* Or at its end.                                                           *)
LEMMA OneAfter ==
    ASSUME NEW y, NEW s, IsSeq(s), NEW n \in Nat, n = Len(s)
    PROVE  /\ IsSeq(s \o <<y>>) /\ Len(s \o <<y>>) = n + 1 /\ (s \o <<y>>)[n + 1] = y
           /\ \A i \in 1..n : (s \o <<y>>)[i] = s[i]
<1> DEFINE t == s \o <<y>>
<1>1. IsSeq(<<y>>) /\ Len(<<y>>) = 1 /\ <<y>>[1] = y
  BY Single
<1>2. 1 \in 1..1
  OBVIOUS
<1>3. IsSeq(t) /\ Len(t) = n + 1 /\ t[1 + n] = <<y>>[1] /\ \A i \in 1..n : t[i] = s[i]
  BY <1>1, <1>2, Joining
<1> HIDE DEF t
<1>4. t[n + 1] = y
  <2>1. 1 + n = n + 1
    OBVIOUS
  <2> QED BY <1>1, <1>3, <2>1
<1> QED
  BY <1>3, <1>4 DEF t

(* A word in lower case that stands in a text is named in it.                *)
LEMMA BearsNames ==
    ASSUME NEW x, x \notin MARKS, Reading(x, LOWER) = x, NEW text, Bears(x, text)
    PROVE  Names(text, {<<x>>})
<1> DEFINE low == Lower(text)
           u == [i \in DOMAIN low |-> IF low[i] \in MARKS THEN Space ELSE low[i]]
           a == <<Space>> \o u
           t == a \o <<Space>>
           phrase == <<Space>> \o <<x>> \o <<Space>>
<1>1. Bears(x, low)
  BY LowerBears
<1> HIDE DEF low
<1>2. Bears(x, u)
  <2>1. DOMAIN u = DOMAIN low /\ u = [i \in DOMAIN u |-> u[i]]
    OBVIOUS
  <2>2. \A i \in DOMAIN low : (low[i] = x => u[i] = x) /\ (low[i] = Space => u[i] = Space)
    OBVIOUS
  <2> HIDE DEF u
  <2> QED BY <1>1, <2>1, <2>2, EachBears
<1>3. Spaced(low) = t
  BY DEF Spaced
<1> HIDE DEF u
<1>4. IsSeq(u)
  BY <1>2 DEF Bears
<1>5. PICK n \in Nat : n = Len(u)
  BY <1>4, Shape
<1>6. IsSeq(a) /\ Len(a) = n + 1 /\ a[1] = Space /\ \A i \in 1..n : a[i + 1] = u[i]
  BY <1>4, <1>5, OneBefore
<1> HIDE DEF a
<1>7. IsSeq(t) /\ Len(t) = n + 2 /\ (\A i \in 1..n + 1 : t[i] = a[i]) /\ t[n + 2] = Space
  <2> DEFINE m == n + 1
  <2>1. m \in Nat /\ m = Len(a) /\ m + 1 = n + 2
    BY <1>5, <1>6
  <2> HIDE DEF m
  <2>2. IsSeq(t) /\ Len(t) = m + 1 /\ t[m + 1] = Space /\ \A i \in 1..m : t[i] = a[i]
    BY <1>6, <2>1, OneAfter
  <2> HIDE DEF t
  <2> QED BY <2>1, <2>2 DEF m
<1> HIDE DEF t
<1>9. PICK i \in 1..n : u[i] = x /\ (i = 1 \/ u[i - 1] = Space) /\ (i = n \/ u[i + 1] = Space)
  BY <1>2, <1>5 DEF Bears, Stands
<1>10. t[i] = Space
  <2>1. i \in 1..n + 1
    BY <1>5, <1>9
  <2>2. CASE i = 1
    BY <1>6, <1>7, <2>1, <2>2
  <2>3. CASE i # 1
    <3>1. i - 1 \in 1..n /\ (i - 1) + 1 = i
      BY <1>5, <1>9, <2>3
    <3>2. a[(i - 1) + 1] = u[i - 1]
      BY <1>6, <3>1
    <3> QED BY <1>7, <1>9, <2>1, <2>3, <3>1, <3>2
  <2> QED BY <2>2, <2>3
<1>11. t[i + 1] = x
  <2>1. i + 1 \in 1..n + 1
    BY <1>5, <1>9
  <2> QED BY <1>6, <1>7, <1>9, <2>1
<1>12. t[i + 2] = Space
  <2>1. CASE i = n
    BY <1>7, <2>1
  <2>2. CASE i # n
    <3>1. i + 1 \in 1..n /\ (i + 1) + 1 = i + 2 /\ i + 2 \in 1..n + 1
      BY <1>5, <1>9, <2>2
    <3>2. a[(i + 1) + 1] = u[i + 1]
      BY <1>6, <3>1
    <3> QED BY <1>7, <1>9, <2>2, <3>1, <3>2
  <2> QED BY <2>1, <2>2
<1>13. phrase = <<Space, x, Space>>
  <2> DEFINE b == <<Space>> \o <<x>>
             m == 2
             p == b \o <<Space>>
  <2>1. IsSeq(b) /\ Len(b) = m /\ b[1] = Space /\ b[2] = x /\ m \in Nat
    <3> DEFINE w == <<x>>
               l == 1
    <3>1. IsSeq(w) /\ Len(w) = l /\ w[1] = x /\ l \in Nat
      BY Single
    <3> HIDE DEF w, l
    <3>2. /\ IsSeq(<<Space>> \o w) /\ Len(<<Space>> \o w) = l + 1 /\ (<<Space>> \o w)[1] = Space
          /\ \A o \in 1..l : (<<Space>> \o w)[o + 1] = w[o]
      BY <3>1, OneBefore
    <3> DEFINE c == <<Space>> \o w
    <3>3. b = c
      BY DEF w
    <3>4. IsSeq(c) /\ Len(c) = l + 1 /\ c[1] = Space /\ \A o \in 1..l : c[o + 1] = w[o]
      BY <3>2
    <3> HIDE DEF b, c
    <3> QED BY <3>1, <3>3, <3>4 DEF l
  <2> HIDE DEF b, m
  <2>2. IsSeq(p) /\ Len(p) = m + 1 /\ p[m + 1] = Space /\ \A o \in 1..m : p[o] = b[o]
    BY <2>1, OneAfter
  <2> HIDE DEF p
  <2>3. Len(p) = 3 /\ p[1] = Space /\ p[2] = x /\ p[3] = Space
    BY <2>1, <2>2 DEF m
  <2>4. p = <<p[1], p[2], p[3]>>
    BY <2>2, <2>3, ThreePieces
  <2>5. phrase = p
    BY DEF p, b
  <2> QED BY <2>3, <2>4, <2>5
<1>14. Len(phrase) = 3
  BY <1>13
<1> HIDE DEF phrase
<1>15. SubSeq(t, i, i + 2) = <<Space, x, Space>>
  <2> DEFINE e == i + 2
             s == SubSeq(t, i, e)
  <2>1. i \in 1..Len(t) + 1 /\ e \in 0..Len(t) /\ i <= e /\ e - i + 1 = 3
    BY <1>5, <1>7, <1>9
  <2> HIDE DEF e
  <2>2. IsSeq(s) /\ Len(s) = 3 /\ \A k \in 1..3 : s[k] = t[i + k - 1]
    BY <1>7, <2>1, PartOf
  <2> HIDE DEF s
  <2>3. s[1] = t[i] /\ s[2] = t[i + 1] /\ s[3] = t[i + 2]
    <3>1. i + 1 - 1 = i /\ i + 2 - 1 = i + 1 /\ i + 3 - 1 = i + 2
      BY <1>9
    <3>2. 1 \in 1..3 /\ 2 \in 1..3 /\ 3 \in 1..3
      OBVIOUS
    <3> QED BY <2>2, <3>1, <3>2
  <2>4. s = <<s[1], s[2], s[3]>>
    BY <2>2, ThreePieces
  <2> QED BY <1>10, <1>11, <1>12, <2>3, <2>4 DEF s, e
<1>16. In(phrase, t)
  <2>1. i \in 1..(Len(t) - Len(phrase) + 1) /\ i + Len(phrase) - 1 = i + 2
    BY <1>5, <1>7, <1>9, <1>14
  <2>2. IsAt(i, phrase, t)
    BY <1>13, <1>15, <2>1 DEF IsAt
  <2> QED BY <2>1, <2>2 DEF In
<1>17. In(<<Space>> \o <<x>> \o <<Space>>, Spaced(Lower(text)))
  BY <1>3, <1>16 DEF phrase, low
<1> QED
  BY <1>17 DEF Names

(* A foreign word of a text is in the wording that is retrieved by.         *)
LEMMA ForeignIsSearched ==
    ASSUME NEW text, IsSeq(text), NEW w \in Range1(Words(text)), Len(w) = 1, Foreign(w)
    PROVE  Names(Retrieval(Wording(text)), {Lower(Spelled(w))})
<1> DEFINE x == w[1]
           d == Reading(x, BENGALI_DIGITS)
           y == Reading(d, PHONETIC)
           l == Reading(y, LOWER)
<1>1. w = <<x>> /\ x # Space /\ Bears(x, text)
  BY WordStands DEF Bears
<1> HIDE DEF x
<1>2. Digits(w) = <<d>> /\ Spelled(w) = <<y>>
  BY <1>1, OneRead
<1>3. d # Space /\ y # Space
  BY <1>1, SpacesStay
<1> HIDE DEF d, y
<1>4. ASSUME NEW p, p # Space, <<p>> \in {w, Digits(w), Spelled(w)} PROVE Unlisted(p)
  <2>1. ASSUME NEW bare \in {BARE, LETTERS}
        PROVE  {p, Reading(p, LOWER), Reading(Reading(p, LOWER), bare)} \intersect Listed = {}
    <3> DEFINE low == Reading(p, LOWER)
               read == Reading(low, bare)
    <3>1. Lower(<<p>>) = <<low>> /\ Bared(<<low>>, bare) = <<read>>
      BY OneRead
    <3>2. Range1((<<p>> \o <<low>>) \o <<read>>) = ({p} \union {low}) \union {read}
      <4> HIDE DEF low, read
      <4>1. IsSeq(<<p>>) /\ IsSeq(<<low>>) /\ IsSeq(<<read>>) /\ IsSeq(<<p>> \o <<low>>)
        BY Single, Joining
      <4> QED BY <4>1, RangeOfSingle, RangeOfJoin
    <3>3. Range1((<<p>> \o Lower(<<p>>)) \o Bared(Lower(<<p>>), bare)) \intersect Listed = {}
      BY <1>4 DEF Foreign
    <3> QED BY <3>1, <3>2, <3>3
  <2> QED BY <1>4, <2>1 DEF Unlisted
<1>5. Unlisted(x) /\ Unlisted(d) /\ Unlisted(y)
  BY <1>1, <1>2, <1>3, <1>4
<1>6. Bears(y, Normalized(text))
  BY <1>1, <1>5, NormalizedBears DEF d, y
<1>7. Bears(y, Corrected(Normalized(text)))
  <2>1. TYPO_MAP \in WordMaps
    BY DEF WordMaps
  <2> QED BY <1>5, <1>6, <2>1, UnlistedStays DEF Corrected
<1>8. Bears(l, Wording(text))
  BY <1>5, <1>7, RewrittenBears DEF Wording
<1>9. Bears(l, Retrieval(Wording(text)))
  BY <1>8, RetrievalBears
<1>10. l \notin MARKS
  BY <1>5, UnlistedHas
<1>11. Reading(l, LOWER) = l
  BY DictionaryAssumption DEF Reading
<1>12. Lower(Spelled(w)) = <<l>>
  BY <1>2, OneRead
<1> HIDE DEF l
<1>13. Names(Retrieval(Wording(text)), {<<l>>})
  BY <1>9, <1>10, <1>11, BearsNames
<1> QED
  BY <1>12, <1>13

(* Whatever the dictionaries and the text of the query: a word of its own    *)
(* that no dictionary has, as it is written or as the look-ups read it,      *)
(* stands in the wording that is retrieved by, as it is written or           *)
(* transliterated (RetrievalPlanner.plan, MultilingualNormalizer's "NEVER    *)
(* delete").  How many of its terms the structured lookup takes is another   *)
(* matter.                                                                   *)
THEOREM ForeignNamesSurvive == Spec => []NamesSurvive
<1>1. Knowledge => NamesSurvive
  <2> SUFFICES ASSUME Knowledge, plan.made, NEW w \in Range1(Words(query.text)), Len(w) = 1, Foreign(w)
               PROVE  Names(plan.retrieval, {Lower(Spelled(w))})
    BY DEF NamesSurvive
  <2>1. query \in Queries /\ plan \in {NoPlan, Planned(query.text)}
    BY DEF Knowledge, Requested
  <2>2. IsSeq(query.text)
    <3>1. query.text \in Seq(STRING)
      BY <2>1, QueryAssumption
    <3> QED BY <3>1, OfElements
  <2>3. plan = Planned(query.text)
    BY <2>1 DEF NoPlan
  <2>4. plan.retrieval = Retrieval(Wording(query.text))
    BY <2>3 DEF Planned
  <2> QED BY <2>2, <2>4, ForeignIsSearched
<1>2. Spec => []Knowledge
  <2>1. Session /\ Knowledge /\ [Next]_vars => Knowledge'
    BY KnowledgeKept
  <2>2. Init => Knowledge
    BY KnowledgeInit
  <2>3. Spec => []Session
    BY SessionInvariant
  <2> QED BY <2>1, <2>2, <2>3, PTL DEF Spec
<1> QED
  BY <1>1, <1>2, PTL

=============================================================================
