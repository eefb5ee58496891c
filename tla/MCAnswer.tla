------------------------------- MODULE MCAnswer -------------------------------
EXTENDS AnswerProps, Dictionaries

(* Two pages of one product's variants, a policy page and a store's page.    *)
Chunk(source, index, product, store, title) ==
    [source |-> source, index |-> index, product |-> product, store |-> store, title |-> title]

Polo   == Chunk("products/polo", 0, TRUE, FALSE, "polo")
Navy   == Chunk("products/navy", 1, TRUE, FALSE, "polo")
Care   == Chunk("products/navy", 2, TRUE, FALSE, "polo")
Policy == Chunk("returns", 3, FALSE, FALSE, "")
Store  == Chunk("store-locations", 4, FALSE, TRUE, "stores")

MCChunks == {Polo, Navy, Care, Policy, Store}

Nothing == [sim |-> 0, rank |-> 0, like |-> FALSE, terms |-> FALSE]
View(f) == [c \in MCChunks |-> IF c \in DOMAIN f THEN f[c] ELSE Nothing]
Match(sim, rank, like, terms) == [sim |-> sim, rank |-> rank, like |-> like, terms |-> terms]

MCViews ==
    {View(<<>>),
     View(Polo :> Match(60, 6, TRUE, FALSE) @@ Navy :> Match(40, 3, TRUE, FALSE)
          @@ Care :> Match(27, 0, FALSE, FALSE) @@ Store :> Match(30, 0, FALSE, FALSE)),
     View(Navy :> Match(96, 0, TRUE, TRUE) @@ Polo :> Match(90, 8, TRUE, TRUE) @@ Policy :> Match(72, 0, FALSE, FALSE)),
     View(Policy :> Match(20, 5, TRUE, FALSE)),
     View(Care :> Match(10, 0, TRUE, FALSE)),
     View(Policy :> Match(33, 0, FALSE, FALSE))}

Query(text) ==
    [text |-> text, size |-> 20, jailbreak |-> FALSE, topic |-> FALSE, fraud |-> 0, pii |-> 0, leakage |-> 0]

Innocent == <<"what", " ", "is", " ", "the", " ", "policy", "?">>

MCQueries ==
    {Query(<<"_boxer", " ", "_er", " ", "_dam", " ", "_koto", "?">>),
     Query(<<"bdt", " ", "prise">>),
     Query(<<"turaag", " ", "nike", " ", "hoodie", " ", "cap", " ", "bdt", " ", "prise">>),
     Query(<<"stock">>),
     Query(<<"compare", " ", "hoodie", " ", "vs", " ", "cap", " ", "material">>),
     Query(<<"which", " ", "is", " ", "better">>),
     Query(<<"return", " ", "polcy">>),
     Query(<<"where", " ", "is", " ", "store">>),
     Query(<<"show", " ", "navy", " ", "under", " ", "2000">>),
     [Query(<<"tell", " ", "me", " ", "about", " ", "Trail", " ", "Runner">>) EXCEPT !.size = 300],
     Query(<<"TRGM032486">>),
     [Query(Innocent) EXCEPT !.jailbreak = TRUE],
     [Query(Innocent) EXCEPT !.topic = TRUE],
     [Query(Innocent) EXCEPT !.fraud = 3],
     [Query(Innocent) EXCEPT !.fraud = 2, !.pii = 3, !.leakage = 4]}

(* Texts of two words, to see what becomes of them; governance blocks them.  *)
MCWords == {<<"_torun">>, <<"_ki", "_bord">>, <<"_set", "_i">>, <<"_ferot">>, <<"_3">>, <<"Nike">>,
            <<"policy">>, <<"er">>, <<"poly">>, <<"2000">>, <<"_brip">>, <<"taka">>, <<"ta-ka">>, <<"al-amin">>, <<"polcy2">>}

MCTexts == {[Query(v \o <<" ">> \o w) EXCEPT !.topic = TRUE] : v, w \in MCWords}

MCAllQueries == MCQueries \union MCTexts

MCSubjects == {<<"Trail", " ", "Runner">>}

MCHistories == {<<>>, <<"user", "assistant", "user", "assistant", "user">>}
=============================================================================
