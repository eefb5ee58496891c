---------------------------- MODULE Understanding ----------------------------
(***************************************************************************)
(* How the text of a query is read: the passes of app/query_intelligence   *)
(* that turn mixed Bengali, Banglish and English into the wording that is  *)
(* searched for, and what RetrievalPlanner.plan makes of it.               *)
(*                                                                         *)
(* A text is a sequence of pieces: " ", punctuation, numbers, and words or *)
(* the parts of words that a dictionary tells apart.  What stands between  *)
(* two spaces is a word.  A piece that begins with _ is in Bengali script. *)
(* A dictionary has phrases, which no space begins or ends, and what they  *)
(* stand for, which may be nothing.                                        *)
(***************************************************************************)
EXTENDS Integers, FiniteSets, SequencesExt

Space == " "

CONSTANTS    \* the dictionaries: of texts, of pieces, and of replacements in their order
    BENGALI_INTENT_MAP, BENGALI_PRODUCT_MAP, BENGALI_LOANWORD_MAP,
    PHONETIC_CORRECTION_MAP, BANGLISH_INTENT_MAP, TYPO_MAP, ABBREVIATION_MAP,
    BENGALI_DIGITS, PHONETIC,
    LOWER,    \* of the pieces with capitals
    BARE,     \* of the pieces with marks inside: without them
    LETTERS,  \* of the pieces with marks or digits inside: the letters alone
    PHRASE_REWRITES

BengaliMaps == {BENGALI_INTENT_MAP, BENGALI_PRODUCT_MAP, BENGALI_LOANWORD_MAP}
WordMaps    == {PHONETIC_CORRECTION_MAP, BANGLISH_INTENT_MAP, TYPO_MAP, ABBREVIATION_MAP}

IsPhrase(text) == text \in Seq(STRING) /\ text # <<>> /\ text[1] # Space /\ text[Len(text)] # Space

ASSUME DictionaryAssumption ==
    /\ \A map \in BengaliMaps \union WordMaps :
          /\ IsFiniteSet(DOMAIN map) /\ DOMAIN map # {}
          /\ \A entry \in DOMAIN map : IsPhrase(entry) /\ map[entry] \in Seq(STRING)
    /\ \A map \in {BENGALI_DIGITS, PHONETIC, LOWER, BARE, LETTERS} :
          Space \notin DOMAIN map /\ \A piece \in DOMAIN map : map[piece] # Space
    /\ \A piece \in DOMAIN LOWER : LOWER[piece] \notin DOMAIN LOWER
    /\ PHRASE_REWRITES \in Seq(Seq(STRING) \X Seq(STRING))
    /\ \A i \in DOMAIN PHRASE_REWRITES : IsPhrase(PHRASE_REWRITES[i][1])

SYNONYM_GROUPS ==    \* a word of two groups belongs to the later one
    <<<<"hoodie", "sweatshirt">>, <<"return", "exchange", "refund">>, <<"price", "cost", "rate">>,
      <<"size", "sizing", "fit">>, <<"material", "fabric">>>>

MARKS   == {"?", "!", "."}
NUMBERS == {"3", "2000"}
SHORT   == {"3", "is", "to", "in", "of", "xl", "e", "i", "ti"}    \* of one or two characters
SKUS    == {"TRGM032486"}
TITLES  == {"Chittagong", "Bangladesh", "Taka", "Nike", "Trail", "Runner"}

-----------------------------------------------------------------------------
(* Texts. *)
Range1(s)       == {s[i] : i \in DOMAIN s}
Lower(text)     == [i \in DOMAIN text |-> IF text[i] \in DOMAIN LOWER THEN LOWER[text[i]] ELSE text[i]]
IsAt(i, phrase, text) == SubSeq(text, i, i + Len(phrase) - 1) = phrase
In(phrase, text) == \E i \in 1..(Len(text) - Len(phrase) + 1) : IsAt(i, phrase, text)

(* As words of their own, the marks aside. *)
Spaced(text)       == <<Space>> \o [i \in DOMAIN text |-> IF text[i] \in MARKS THEN Space ELSE text[i]] \o <<Space>>
Names(text, phrases) ==
    \E t \in {Spaced(Lower(text))}, phrase \in phrases : In(<<Space>> \o phrase \o <<Space>>, t)

Mentions(text, phrases) == \E t \in {Lower(text)}, phrase \in phrases : In(phrase, t)

(* A word starts after a space and goes on until the next. *)
Starts(i, text) == text[i] # Space /\ (i = 1 \/ text[i - 1] = Space)
Until(i, text)  == Max({j \in i..Len(text) : \A k \in i..j : text[k] # Space})

Words(text) ==
    FlattenSeq([i \in DOMAIN text |-> IF Starts(i, text) THEN <<SubSeq(text, i, Until(i, text))>> ELSE <<>>])

Joined(words) ==
    LET text == FlattenSeq([i \in DOMAIN words |-> IF words[i] = <<>> THEN <<>> ELSE <<Space>> \o words[i]])
    IN  SubSeq(text, 2, Len(text))

Removed(text, pieces) ==
    FlattenSeq([i \in DOMAIN text |-> IF text[i] \in pieces THEN <<>> ELSE <<text[i]>>])

Stripped(text) == SubSeq(text, 1, SelectLastInSeq(text, LAMBDA p : p \notin MARKS \union {Space}))

Replaced(text, old, new) ==
    LET rest[i \in 1..(Len(text) + Len(old))] ==
            IF i > Len(text) THEN <<>>
            ELSE IF i + Len(old) - 1 <= Len(text) /\ IsAt(i, old, text) THEN new \o rest[i + Len(old)]
            ELSE <<text[i]>> \o rest[i + 1]
    IN  rest[1]

(* Each of some replacements in turn, where the earlier ones left the text. *)
InTurn(text, rewrites) ==
    LET after[n \in 0..Len(rewrites)] ==
            IF n = 0 THEN text ELSE Replaced(after[n - 1], rewrites[n][1], rewrites[n][2])
    IN  after[Len(rewrites)]

(* Word by word: one found in the map, in lower case and without what the    *)
(* look-up ignores, also inside the word, is replaced; any other is kept as  *)
(* it is.                                                                    *)
Bared(text, bare) == [i \in DOMAIN text |-> IF text[i] \in DOMAIN bare THEN bare[text[i]] ELSE text[i]]

ByWord(text, map, ignored, bare) ==
    LET Clean(w) == Removed(Bared(Lower(w), bare), ignored)
        words    == Words(text)
    IN  Joined([i \in DOMAIN words |-> IF Clean(words[i]) \in DOMAIN map THEN map[Clean(words[i])] ELSE words[i]])

-----------------------------------------------------------------------------
(* MultilingualNormalizer.normalize. *)
BENGALI == DOMAIN BENGALI_DIGITS \union DOMAIN PHONETIC
           \union UNION {UNION {Range1(w) : w \in DOMAIN map} : map \in BengaliMaps}

HasBengali(text) == \E i \in DOMAIN text : text[i] \in BENGALI

Digits(text) == [i \in DOMAIN text |-> IF text[i] \in DOMAIN BENGALI_DIGITS THEN BENGALI_DIGITS[text[i]] ELSE text[i]]

(* Wherever it stands, also inside a longer word; the longest entries first. *)
LongestFirst[map \in BengaliMaps] ==
    LET longest == Max({Len(entry) : entry \in DOMAIN map})
    IN  FlattenSeq([n \in 1..longest |-> SetToSeq({entry \in DOMAIN map : Len(entry) = longest + 1 - n})])

Translated(map, text) ==
    LET entries == LongestFirst[map]
    IN  InTurn(text, [i \in DOMAIN entries |-> <<entries[i], <<Space>> \o map[entries[i]] \o <<Space>>>>])

Banglish(text) == ByWord(text, BANGLISH_INTENT_MAP, MARKS \union BENGALI, BARE)

Transliterated_Dropped(text) == Removed(text, BENGALI)    \* mutant: what no dictionary has is deleted

Transliterated(text) ==
    [i \in DOMAIN text |-> IF text[i] \in DOMAIN PHONETIC THEN PHONETIC[text[i]] ELSE text[i]]

Normalized(text) ==
    IF ~HasBengali(text) THEN Banglish(text)
    ELSE LET translated == Translated(BENGALI_INTENT_MAP, Translated(BENGALI_PRODUCT_MAP,
                               Translated(BENGALI_LOANWORD_MAP, Digits(text))))
         IN  Stripped(ByWord(Transliterated(Banglish(translated)), PHONETIC_CORRECTION_MAP, MARKS \union NUMBERS, LETTERS))

Corrected(text) == ByWord(text, TYPO_MAP, MARKS \union NUMBERS, LETTERS)

Rewritten(text) ==
    ByWord(InTurn(Stripped(Lower(text)), PHRASE_REWRITES), ABBREVIATION_MAP, MARKS, BARE)

Wording(text) == Rewritten(Corrected(Normalized(text)))

(* The wording of the keyword search: without noise, and with the first      *)
(* synonym of each group that is not in it.                                  *)
Noise == {<<"please">>, <<"show">>, <<"what">>, <<"is">>, <<"the">>, <<"of">>}

Denoised(text) ==
    LET words == SelectSeq(Words(Rewritten(text)), LAMBDA w : Lower(w) \notin Noise)
    IN  IF words = <<>> THEN Rewritten(text) ELSE Joined(words)

Expanded(text) ==
    LET Priced(t) == FoldLeft(LAMBDA q, n : Replaced(q, <<"under", Space, n>>,
                                 <<"under", Space, n, Space, "price", Space, "below", Space, n, Space, "bdt">>),
                              t, SetToSeq(NUMBERS))
        Group(w)   == {g \in DOMAIN SYNONYM_GROUPS : \E i \in DOMAIN SYNONYM_GROUPS[g] : w = <<SYNONYM_GROUPS[g][i]>>}
        Added(t, w) ==
            LET new == SelectSeq(SYNONYM_GROUPS[Max(Group(w))], LAMBDA s : ~In(<<s>>, t))
            IN  IF Group(w) = {} \/ new = <<>> THEN t ELSE t \o <<Space, Head(new)>>
        priced == Priced(Lower(text))
    IN  FoldLeft(Added, priced, Words(priced))

-----------------------------------------------------------------------------
(* What the wording is about. *)
Runs(text, least) ==    \* of capitalized words
    LET words == Words(text)
        Run(i, j) == \A k \in i..j : Len(words[k]) = 1 /\ words[k][1] \in TITLES
    IN  {Joined(SubSeq(words, run[1], run[2])) : run \in
            {b \in (DOMAIN words) \X (DOMAIN words) :
                /\ b[2] - b[1] >= least - 1 /\ Run(b[1], b[2])
                /\ (b[1] = 1 \/ ~Run(b[1] - 1, b[2])) /\ (b[2] = Len(words) \/ ~Run(b[1], b[2] + 1))}}

_KNOWN_BRANDS      == {<<"turaag">>, <<"nike">>}
_CATEGORY_KEYWORDS == {<<"hoodie">>, <<"cap">>, <<"hat">>}
_LOCATION_KEYWORDS == {<<"dhaka">>, <<"chittagong">>}

Entities(text) ==
    LET known == {b \in _KNOWN_BRANDS : In(b, Lower(text))}
                 \union {k \in _CATEGORY_KEYWORDS \union _LOCATION_KEYWORDS : Names(text, {k})}
    IN  known \union {<<p>> : p \in SKUS \intersect Range1(text)}
              \union {run \in Runs(text, 2) : Lower(run) \notin known}

HasSku(text) == SKUS \intersect Range1(text) # {}

_COMPARISON      == {<<"vs">>, <<"versus">>, <<"compare">>, <<"difference">>, <<"better">>}
_POLICY_KEYWORDS == {<<"policy">>, <<"return">>, <<"refund">>, <<"exchange">>, <<"delivery">>}
_SUPPORT_KEYWORDS == {<<"broken">>, <<"problem">>}
_PRICE  == {<<"price">>, <<"cost">>, <<"how", Space, "much">>, <<"rate">>}
_STOCK  == {<<"available">>, <<"in", Space, "stock">>, <<"stock">>, <<"availability">>}
_SEARCH == {<<"show">>, <<"find">>, <<"need">>, <<"buy">>}
_FAQ    == {<<"what">>, <<"how">>, <<"why">>, <<"where">>, <<"tell", Space, "me">>}

(* The first of the patterns that match. *)
FirstOf(order, matches) == Head(Append(SelectSeq(order, LAMBDA name : matches[name]), "general"))

Decomposed(text) ==
    FirstOf(<<"comparison", "policy", "support", "price", "stock", "search", "question">>,
            [comparison |-> Names(text, _COMPARISON),
             policy     |-> Mentions(text, _POLICY_KEYWORDS),
             support    |-> Mentions(text, _SUPPORT_KEYWORDS),
             price      |-> Names(text, _PRICE),
             stock      |-> Names(text, _STOCK),
             search     |-> Names(text, _SEARCH),
             question   |-> Names(text, _FAQ)])

Constraints(text) ==
    {<<"price", Space, "under", Space, n>> :
        n \in {m \in NUMBERS : Names(text, {<<"under", Space, m>>, <<"below", Space, m>>})}}
    \union {<<c>> : c \in {d \in {"black", "navy"} : Names(text, {<<d>>})}}
    \union {<<"size", Space, s>> : s \in {z \in {"xl", "large"} : Names(text, {<<z>>})}}

(* A product search has its constraints appended, a comparison what it names. *)
Retrieval(text) ==
    LET named == Runs(text, 1)
    IN  text \o CASE Decomposed(text) = "search" -> FlattenSeq(SetToSeq({<<Space>> \o c : c \in Constraints(text)}))
                  [] Decomposed(text) = "comparison" /\ Cardinality(named) > 1 ->
                         <<Space, "compare">> \o FlattenSeq(SetToSeq({<<Space>> \o n : n \in named}))
                  [] OTHER -> <<>>

(* SemanticRouter.route: only top_k and threshold of its decision are used. *)
Route(text) ==
    LET Plan(k, t) == [top_k |-> k, threshold |-> t]
        intent == Decomposed(text)
    IN  IF HasSku(text) THEN Plan(5, 0)
        ELSE CASE intent = "comparison"         -> Plan(10, 30)
               [] intent \in {"price", "stock"} -> Plan(8, 25)
               [] intent \in {"policy", "question"} -> Plan(6, 25)
               [] intent \in {"search", "general"} /\ Entities(text) # {} -> Plan(8, 25)
               [] OTHER -> IF Len(Words(text)) <= 3 THEN Plan(5, 35) ELSE Plan(6, 25)

(* Which passes changed something: the keyword search's wording, which       *)
(* nothing else reads, counts among them.                                    *)
Transformed(text) ==
    LET wording == Wording(text)
    IN  \/ Normalized(text) # text
        \/ Corrected(Normalized(text)) # Normalized(text)
        \/ wording # Lower(Corrected(Normalized(text)))
        \/ Expanded(Denoised(wording)) # wording

(* RetrievalPlanner.plan. *)
Planned(text) ==
    LET wording == Wording(text)
    IN  [made |-> TRUE, intent |-> Decomposed(wording), entities |-> Entities(wording),
         route |-> Route(wording), transformed |-> Transformed(text), retrieval |-> Retrieval(wording)]
=============================================================================
