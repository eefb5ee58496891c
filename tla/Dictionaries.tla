----------------------------- MODULE Dictionaries -----------------------------
(***************************************************************************)
(* Samples of the dictionaries of app/query_intelligence, with the kinds   *)
(* of entries they have: one that stands for a word, for several words,    *)
(* for nothing, one that contains another, and one that is itself written  *)
(* in another dictionary.                                                  *)
(***************************************************************************)
EXTENDS Understanding

SampleDigits == "_3" :> "3"

SampleBengaliIntents ==
    <<"_dam">> :> <<"price">> @@ <<"_koto">> :> <<"how", Space, "much">> @@ <<"_ache">> :> <<"available">>
    @@ <<"_ferot">> :> <<"return">> @@ <<"_er">> :> <<>> @@ <<"_ki">> :> <<>>
    @@ <<"_e", "_ti">> :> <<>> @@ <<"_set", "_i">> :> <<>>

SampleBengaliProducts ==
    <<"_boxer">> :> <<"boxer">> @@ <<"_tupi">> :> <<"cap", Space, "hat">> @@ <<"_set">> :> <<"set">>

SampleLoanwords ==
    <<"_prais">> :> <<"price">> @@ <<"_set">> :> <<"set">> @@ <<"_xl">> :> <<"XL">>

SamplePhoneticCorrections == <<"brip">> :> <<"brief">> @@ <<"kalar">> :> <<"color">>

SampleBanglishIntents ==
    <<"dam">> :> <<"price">> @@ <<"koto">> :> <<"how", Space, "much">> @@ <<"taka">> :> <<"BDT">> @@ <<"er">> :> <<>>

SamplePhonetic ==
    "_e" :> "e" @@ "_ti" :> "ti" @@ "_i" :> "i" @@ "_brip" :> "brip" @@ "_bord" :> "bord" @@ "_torun" :> "torun"

SampleTypos == <<"colour">> :> <<"color">> @@ <<"polcy">> :> <<"policy">> @@ <<"prise">> :> <<"price">>

SamplePhraseRewrites ==    \* in this order
    LET policy == <<"return", Space, "and", Space, "exchange", Space, "policy", Space, "refund">>
    IN  <<<<<<"return", Space, "policy">>, policy>>,
          <<<<"exchange", Space, "policy">>, policy>>,
          <<<<"in", Space, "stock">>, <<"in", Space, "stock", Space, "available">>>>>>

SampleAbbreviations ==
    <<"ctg">> :> <<"Chittagong">> @@ <<"poly">> :> <<"polyester">>
    @@ <<"xl">> :> <<"extra", Space, "large", Space, "size">>
    @@ <<"bdt">> :> <<"BDT", Space, "Bangladesh", Space, "Taka">>

SampleBare    == "ta-ka" :> "taka" @@ "al-amin" :> "alamin"
SampleLetters == SampleBare @@ "polcy2" :> "polcy"

SampleLower ==
    "XL" :> "xl" @@ "BDT" :> "bdt" @@ "Chittagong" :> "chittagong" @@ "Bangladesh" :> "bangladesh"
    @@ "Taka" :> "taka" @@ "Nike" :> "nike" @@ "TRGM032486" :> "trgm032486" @@ "Trail" :> "trail"
    @@ "Runner" :> "runner"
===============================================================================
