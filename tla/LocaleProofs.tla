---------------------------- MODULE LocaleProofs ----------------------------
(***************************************************************************)
(* That the language of a page follows its precedence, that the match of a *)
(* browser's preferences is decided by the tables and that no message is   *)
(* shown as its key: for any number of browsers, any preferences and any   *)
(* value of the global setting.                                            *)
(***************************************************************************)
EXTENDS Locale, FiniteSetTheorems, WellFoundedInduction, TLAPS

-----------------------------------------------------------------------------
(* Places in a sequence.                                                   *)

\* Min picks the least of some places.  (By the well-foundedness of strict inclusion: the sets of the
\* places up to each of them are finite.)
LEMMA MinOfSome ==
  ASSUME NEW n \in Nat, NEW I \in SUBSET (1..n), I # {}
  PROVE Min(I) \in I /\ \A j \in I : Min(I) <= j
<1>. DEFINE UpTo(k) == I \cap (0..k)
            T == {UpTo(k) : k \in I}
            R == StrictSubsetOrdering(1..n)
<1>1. IsWellFoundedOn(R, SUBSET (1..n))
  <2>1. IsFiniteSet(1..n)
    BY FS_Interval
  <2>. QED BY <2>1, FS_FiniteSubsetsOfFinite, FS_StrictSubsetOrderingWellFounded
<1>2. T \subseteq SUBSET (1..n) /\ T # {}
  OBVIOUS
<1>3. \E X \in T : \A Y \in T : ~(<<Y, X>> \in R)
  <2>. HIDE DEF T, R
  <2>. QED BY <1>1, <1>2, WFMin
<1>4. PICK x \in I : \A y \in I : ~(<<UpTo(y), UpTo(x)>> \in R)
  BY <1>3
<1>5. ASSUME NEW y \in I PROVE x <= y
  <2>1. SUFFICES ASSUME y < x PROVE FALSE
    OBVIOUS
  <2>2. UpTo(y) \subseteq UpTo(x) /\ x \in UpTo(x) /\ x \notin UpTo(y)
    BY <2>1
  <2>3. <<UpTo(y), UpTo(x)>> \in R
    BY <1>2, <2>2 DEF StrictSubsetOrdering
  <2>. QED BY <1>4, <2>3
<1>. QED BY <1>5 DEF Min

\* The place that SelectInSeq finds, from the set of places that pass its test.
Place(I) == IF I # {} THEN Min(I) ELSE 0

\* It finds a place exactly if one passes, and then the first.
LEMMA FirstPlace ==
  ASSUME NEW n \in Nat, NEW I \in SUBSET (1..n)
  PROVE /\ Place(I) = 0 <=> I = {}
        /\ I # {} => Place(I) = Min(I) /\ Place(I) \in I
<1>1. ASSUME I # {} PROVE Min(I) \in I /\ Min(I) # 0
  BY <1>1, MinOfSome
<1>. QED BY <1>1 DEF Place

-----------------------------------------------------------------------------
(* The tables.                                                             *)

\* The languages with several catalogues, and the country of each of the others.
Several == {"ar", "bn", "de", "en", "es", "fr", "nl", "pt", "zh"}
Only == [cs |-> "cz", da |-> "dk", fi |-> "fi", hi |-> "in", hr |-> "hr", hu |-> "hu", it |-> "it",
         ja |-> "jp", ko |-> "kr", pl |-> "pl", ro |-> "ro", ru |-> "ru", sa |-> "in", sk |-> "sk",
         sl |-> "si", sv |-> "se", th |-> "th", tr |-> "tr", uk |-> "ua", vi |-> "vn"]

\* The catalogues of one language with others, and those that are alone in theirs.
Siblings ==
  {<<"en","us">>, <<"ar","ae">>, <<"ar","eg">>, <<"ar","sa">>, <<"bn","bd">>,
   <<"bn","in">>, <<"de","at">>, <<"de","ch">>, <<"de","de">>, <<"en","au">>,
   <<"en","ca">>, <<"en","gb">>, <<"en","in">>, <<"en","nz">>, <<"en","za">>,
   <<"es","ar">>, <<"es","es">>, <<"es","mx">>, <<"fr","be">>, <<"fr","ca">>,
   <<"fr","ch">>, <<"fr","fr">>, <<"nl","be">>, <<"nl","nl">>, <<"pt","br">>,
   <<"pt","pt">>, <<"zh","cn">>, <<"zh","tw">>}
Alone ==
  {<<"cs","cz">>, <<"da","dk">>, <<"fi","fi">>, <<"hi","in">>, <<"hr","hr">>,
   <<"hu","hu">>, <<"it","it">>, <<"ja","jp">>, <<"ko","kr">>, <<"pl","pl">>,
   <<"ro","ro">>, <<"ru","ru">>, <<"sa","in">>, <<"sk","sk">>, <<"sl","si">>,
   <<"sv","se">>, <<"th","th">>, <<"tr","tr">>, <<"uk","ua">>, <<"vi","vn">>}

\* The rows of catalogList are these.
LEMMA RowsHold == ASSUME NEW i \in DOMAIN catalogList PROVE catalogList[i][1] \in Siblings \cup Alone
<1>1. Len(catalogList) = 48 /\ i \in 1..48
  BY DEF catalogList
<1>2. ASSUME i \in 1..8 PROVE catalogList[i][1] \in Siblings \cup Alone
  BY <1>2 DEF catalogList, Siblings, Alone
<1>3. ASSUME i \in 9..16 PROVE catalogList[i][1] \in Siblings \cup Alone
  BY <1>3 DEF catalogList, Siblings, Alone
<1>4. ASSUME i \in 17..24 PROVE catalogList[i][1] \in Siblings \cup Alone
  BY <1>4 DEF catalogList, Siblings, Alone
<1>5. ASSUME i \in 25..32 PROVE catalogList[i][1] \in Siblings \cup Alone
  BY <1>5 DEF catalogList, Siblings, Alone
<1>6. ASSUME i \in 33..40 PROVE catalogList[i][1] \in Siblings \cup Alone
  BY <1>6 DEF catalogList, Siblings, Alone
<1>7. ASSUME i \in 41..48 PROVE catalogList[i][1] \in Siblings \cup Alone
  BY <1>7 DEF catalogList, Siblings, Alone
<1>. QED BY <1>1, <1>2, <1>3, <1>4, <1>5, <1>6, <1>7

\* Siblings are in a language with several catalogues.
LEMMA SiblingCodes == \A c \in Siblings : c # None /\ c[1] \in Several
BY DEF Siblings, Several, None

\* A code that is alone is given by its language.
LEMMA AloneCodes == \A c \in Alone : c # None /\ c = <<c[1], Only[c[1]]>>
BY DEF Alone, Only, None

\* The codes are the declared ones, none of them empty.
LEMMA CodesAreRows ==
  /\ \A c \in Codes : c # None /\ (c[1] \notin Several => c = <<c[1], Only[c[1]]>>)
  /\ Len(Declared) = 48 /\ \A i \in 1..48 : Declared[i] = catalogList[i][1]
  /\ Codes = {Declared[i] : i \in 1..48}
<1>1. DOMAIN catalogList = 1..48
  BY DEF catalogList
<1>2. Declared = [i \in 1..48 |-> catalogList[i][1]]
  BY <1>1 DEF Declared
<1>3. Len(Declared) = 48 /\ \A i \in 1..48 : Declared[i] = catalogList[i][1]
  BY <1>2
<1>4. Codes = {Declared[i] : i \in 1..48}
  BY <1>2 DEF Codes
<1>5. Codes \subseteq Siblings \cup Alone
  BY <1>1, <1>3, <1>4, RowsHold
<1>6. \A c \in Codes : c # None /\ (c[1] \notin Several => c = <<c[1], Only[c[1]]>>)
  BY <1>5, SiblingCodes, AloneCodes
<1>. QED BY <1>3, <1>4, <1>6

\* The catalogues that the tables name.
Preferred ==
  {<<"ar","sa">>, <<"bn","bd">>, <<"de","de">>, <<"en","us">>, <<"es","es">>, <<"fr","fr">>,
   <<"nl","nl">>, <<"pt","br">>, <<"es","mx">>, <<"pt","pt">>, <<"en","gb">>, <<"zh","cn">>, <<"zh","tw">>}

\* They are declared: no table names a catalogue that is not there.
LEMMA PreferredAreCodes == Preferred \subseteq Codes
<1>1. /\ catalogList[4][1] = <<"ar","sa">> /\ catalogList[5][1] = <<"bn","bd">>
      /\ catalogList[11][1] = <<"de","de">> /\ catalogList[1][1] = <<"en","us">>
      /\ catalogList[19][1] = <<"es","es">> /\ catalogList[25][1] = <<"fr","fr">>
      /\ catalogList[33][1] = <<"nl","nl">> /\ catalogList[35][1] = <<"pt","br">>
      /\ catalogList[20][1] = <<"es","mx">> /\ catalogList[36][1] = <<"pt","pt">>
      /\ catalogList[14][1] = <<"en","gb">> /\ catalogList[47][1] = <<"zh","cn">>
      /\ catalogList[48][1] = <<"zh","tw">>
  BY DEF catalogList
<1>. QED BY <1>1, CodesAreRows DEF Preferred

\* The catalogue the tables name for a preference.
Want(p) ==
  IF p[1] = "zh" THEN IF Traditional(p) THEN <<"zh","tw">> ELSE <<"zh","cn">>
  ELSE preferredFallback(p)

\* The tables name a catalogue of the language asked for, and one for every language with several.
LEMMA WantNamed ==
  ASSUME NEW p
  PROVE /\ Want(p) # None => Want(p) \in Codes /\ Want(p)[1] = p[1]
        /\ p[1] \in Several => Want(p) # None
<1>1. CASE p[1] = "zh"
  BY <1>1, PreferredAreCodes DEF Want, Preferred, None
<1>2. CASE p[1] # "zh"
  <2>1. Want(p) = preferredFallback(p)
    BY <1>2 DEF Want
  <2>2. CASE p[1] \notin DOMAIN languageDefaults
    <3>1. p[1] \notin Several /\ p[1] \notin DOMAIN regionDefaults
      BY <1>2, <2>2 DEF languageDefaults, regionDefaults, Several
    <3>2. Want(p) = None
      BY <2>1, <2>2, <3>1 DEF preferredFallback
    <3>. QED BY <3>1, <3>2
  <2>3. ASSUME p[1] \in DOMAIN languageDefaults
        PROVE \/ Want(p) = languageDefaults[p[1]]
              \/ p[1] \in DOMAIN regionDefaults /\ Want(p) = regionDefaults[p[1]][2]
    BY <2>1, <2>3 DEF preferredFallback
  <2>4. ASSUME NEW l \in DOMAIN languageDefaults
        PROVE languageDefaults[l] \in Preferred /\ languageDefaults[l][1] = l
    BY DEF languageDefaults, Preferred
  <2>5. ASSUME NEW l \in DOMAIN regionDefaults
        PROVE regionDefaults[l][2] \in Preferred /\ regionDefaults[l][2][1] = l
    BY DEF regionDefaults, Preferred
  <2>6. ASSUME p[1] \in DOMAIN languageDefaults PROVE Want(p) \in Preferred /\ Want(p)[1] = p[1]
    BY <2>3, <2>4, <2>5, <2>6
  <2>7. None \notin Codes
    BY CodesAreRows
  <2>. QED BY <2>2, <2>6, <2>7, PreferredAreCodes
<1>. QED BY <1>1, <1>2

-----------------------------------------------------------------------------
(* The match, which is the same in every order of declaration.             *)

\* Some catalogue is in the language of a preference.
Served(p) == \E c \in Codes : c[1] = p[1]
\* What a preference that no catalogue matches exactly settles for.
Settled(p) == IF Want(p) # None THEN Want(p) ELSE IF Served(p) THEN <<p[1], Only[p[1]]>> ELSE None

\* What a preference settles for is a catalogue of its language, if there is one.
LEMMA SettledIs ==
  ASSUME NEW p
  PROVE /\ Served(p) => Settled(p) \in Codes /\ Settled(p)[1] = p[1] /\ Settled(p) # None
        /\ ~Served(p) => Settled(p) = None
<1>1. Want(p) # None => Served(p)
  BY WantNamed DEF Served
<1>2. ASSUME Served(p), Want(p) = None PROVE <<p[1], Only[p[1]]>> \in Codes
  <2>1. PICK c \in Codes : c[1] = p[1]
    BY <1>2 DEF Served
  <2>. QED BY <1>2, <2>1, WantNamed, CodesAreRows
<1>3. None \notin Codes
  BY CodesAreRows
<1>. QED BY <1>1, <1>2, <1>3, WantNamed DEF Settled

\* A declaration of the catalogues, in any order.
Covers(codes) == Len(codes) \in Nat /\ Codes = {codes[i] : i \in 1..Len(codes)}

\* fallbackFor does not depend on the order.
LEMMA FallbackSettled ==
  ASSUME NEW codes, Covers(codes), NEW p
  PROVE fallbackFor(p, codes) = Settled(p)
<1>. DEFINE S == {i \in 1..Len(codes) : codes[i][1] = p[1]}
            W == {i \in 1..Len(codes) : codes[i] = Want(p)}
            same == IF Place(S) = 0 THEN None ELSE codes[Place(S)]
            named == IF Place(W) = 0 THEN None ELSE codes[Place(W)]
<1>1. Find(codes, LAMBDA c : c[1] = p[1]) = same
  BY DEF Find, SelectInSeq, Place
<1>2. Find(codes, LAMBDA c : c = Want(p)) = named
  BY DEF Find, SelectInSeq, Place
<1>3. fallbackFor(p, codes) = IF named # None THEN named ELSE same
  BY <1>1, <1>2 DEF fallbackFor, Want
<1>4. (Place(S) = 0 <=> S = {}) /\ (S # {} => Place(S) \in S)
  BY FirstPlace DEF Covers
<1>5. (Place(W) = 0 <=> W = {}) /\ (W # {} => Place(W) \in W)
  BY FirstPlace DEF Covers
<1>6. None \notin Codes
  BY CodesAreRows
<1>7. CASE Want(p) # None
  <2>1. Want(p) \in Codes
    BY <1>7, WantNamed
  <2>2. W # {}
    BY <2>1 DEF Covers
  <2>3. named = Want(p)
    BY <1>5, <2>2, <2>1, <1>6
  <2>. QED BY <1>3, <1>7, <2>3 DEF Settled
<1>8. CASE Want(p) = None
  <2>1. W = {} /\ named = None
    BY <1>5, <1>6, <1>8 DEF Covers
  <2>2. p[1] \notin Several
    BY <1>8, WantNamed
  <2>3. CASE Served(p)
    <3>1. S # {}
      BY <2>3 DEF Served, Covers
    <3>2. same \in Codes /\ same[1] = p[1]
      BY <1>4, <3>1 DEF Covers
    <3>3. same = <<p[1], Only[p[1]]>>
      BY <2>2, <3>2, CodesAreRows
    <3>. QED BY <1>3, <1>8, <2>1, <2>3, <3>3 DEF Settled
  <2>4. CASE ~Served(p)
    <3>1. S = {}
      BY <2>4 DEF Served, Covers
    <3>. QED BY <1>3, <1>4, <1>8, <2>1, <2>4, <3>1 DEF Settled
  <2>. QED BY <2>3, <2>4
<1>. QED BY <1>7, <1>8

\* The preferences that have a catalogue of their own, and those that have one of their language.
Exact(p) == {i \in 1..Len(p) : p[i] \in Codes}
Close(p) == {i \in 1..Len(p) : Served(p[i])}

\* Neither does matchLocale: the first preference that has a catalogue, else what the first that is
\* served settles for.
LEMMA Matched ==
  ASSUME NEW codes, Covers(codes), NEW p \in Seq(Tags)
  PROVE matchLocale(p, codes) =
          IF Exact(p) # {} THEN p[Min(Exact(p))]
          ELSE IF Close(p) # {} THEN Settled(p[Min(Close(p))]) ELSE None
<1>. DEFINE E == {i \in 1..Len(p) : Contains(codes, p[i])}
            C == {i \in 1..Len(p) : fallbackFor(p[i], codes) # None}
<1>1. SelectInSeq(p, LAMBDA q : Contains(codes, q)) = Place(E)
  BY DEF SelectInSeq, Place
<1>2. SelectInSeq(p, LAMBDA q : fallbackFor(q, codes) # None) = Place(C)
  BY DEF SelectInSeq, Place
<1>3. matchLocale(p, codes) =
        IF Place(E) # 0 THEN p[Place(E)]
        ELSE IF Place(C) # 0 THEN fallbackFor(p[Place(C)], codes) ELSE None
  BY <1>1, <1>2 DEF matchLocale
<1>4. E = Exact(p)
  BY DEF Contains, Exact, Covers
<1>5. C = Close(p)
  BY FallbackSettled, SettledIs DEF Close
<1>6. (Place(E) = 0 <=> E = {}) /\ (E # {} => Place(E) = Min(E) /\ Place(E) \in E)
  <2>1. Len(p) \in Nat /\ E \in SUBSET (1..Len(p))
    OBVIOUS
  <2>. HIDE DEF E
  <2>. QED BY <2>1, FirstPlace
<1>7. (Place(C) = 0 <=> C = {}) /\ (C # {} => Place(C) = Min(C) /\ Place(C) \in C)
  <2>1. Len(p) \in Nat /\ C \in SUBSET (1..Len(p))
    OBVIOUS
  <2>. HIDE DEF C
  <2>. QED BY <2>1, FirstPlace
<1>. HIDE DEF E, C
<1>. QED BY <1>3, <1>4, <1>5, <1>6, <1>7, FallbackSettled

\* The declared order is one, and its reverse is another.
LEMMA DeclaredCovers == Covers(Declared) /\ Covers(Reverse(Declared))
<1>1. Covers(Declared)
  BY CodesAreRows DEF Covers
<1>2. Reverse(Declared) = [i \in 1..48 |-> Declared[(48 - i) + 1]]
  BY CodesAreRows DEF Reverse
<1>3. Len(Reverse(Declared)) = 48
  BY <1>2
<1>4. ASSUME NEW i \in 1..48
      PROVE Declared[i] = Reverse(Declared)[49 - i] /\ Reverse(Declared)[i] = Declared[49 - i]
  BY <1>2
<1>. DEFINE r == Reverse(Declared)
<1>5. Codes = {r[i] : i \in 1..48}
  <2>1. ASSUME NEW c \in Codes PROVE \E i \in 1..48 : c = r[i]
    <3>1. PICK i \in 1..48 : c = Declared[i]
      BY CodesAreRows
    <3>2. 49 - i \in 1..48
      OBVIOUS
    <3>. QED BY <1>4, <3>1, <3>2
  <2>2. ASSUME NEW i \in 1..48 PROVE r[i] \in Codes
    <3>1. 49 - i \in 1..48
      OBVIOUS
    <3>. QED BY <1>4, <3>1, CodesAreRows
  <2>. HIDE DEF r
  <2>. QED BY <2>1, <2>2
<1>. HIDE DEF r
<1>6. Covers(r)
  BY <1>3, <1>5 DEF Covers, r
<1>. QED BY <1>1, <1>6 DEF r

\* The match is decided by the tables, for every list of preferences.
LEMMA MatchLemma ==
  ASSUME \A b \in Browsers : prefs[b] \in Seq(Tags)
  PROVE MatchDecided
<1>. SUFFICES ASSUME NEW b \in Browsers
     PROVE LET p == prefs[b]
               m == detectBrowserLocale(p)
               served == {i \in DOMAIN p : \E c \in Codes : c[1] = p[i][1]}
               exact == {i \in DOMAIN p : p[i] \in Codes}
               First(S) == p[CHOOSE i \in S : \A j \in S : i <= j]
           IN /\ m = matchLocale(p, Reverse(Declared))
              /\ exact # {} => m = First(exact)
              /\ exact = {} /\ served # {} => m[1] = First(served)[1]
              /\ served = {} => m = None
  BY DEF MatchDecided
<1>. DEFINE p == prefs[b]
            m == detectBrowserLocale(p)
<1>1. p \in Seq(Tags) /\ DOMAIN p = 1..Len(p) /\ Len(p) \in Nat
  OBVIOUS
<1>2. m = IF Exact(p) # {} THEN p[Min(Exact(p))]
          ELSE IF Close(p) # {} THEN Settled(p[Min(Close(p))]) ELSE None
  BY <1>1, Matched, DeclaredCovers DEF detectBrowserLocale
<1>3. m = matchLocale(p, Reverse(Declared))
  BY <1>1, <1>2, Matched, DeclaredCovers
<1>4. {i \in DOMAIN p : \E c \in Codes : c[1] = p[i][1]} = Close(p)
  BY <1>1 DEF Close, Served
<1>5. {i \in DOMAIN p : p[i] \in Codes} = Exact(p)
  BY <1>1 DEF Exact
<1>6. Exact(p) \subseteq Close(p)
  BY DEF Exact, Close, Served
<1>7. Close(p) # {} => Min(Close(p)) \in Close(p)
  BY <1>1, MinOfSome DEF Close
<1>8. Exact(p) = {} /\ Close(p) # {} => m[1] = p[Min(Close(p))][1]
  BY <1>2, <1>7, SettledIs DEF Close
<1>. HIDE DEF m
<1>9. /\ Exact(p) # {} => m = p[CHOOSE i \in Exact(p) : \A j \in Exact(p) : i <= j]
      /\ Exact(p) = {} /\ Close(p) # {} =>
           m[1] = p[CHOOSE i \in Close(p) : \A j \in Close(p) : i <= j][1]
      /\ Close(p) = {} => m = None
  BY <1>2, <1>6, <1>8 DEF Min
<1>. QED BY <1>3, <1>4, <1>5, <1>9 DEF m

-----------------------------------------------------------------------------
(* The messages.                                                           *)

\* The languages a message may be in, and the countries that may state it differently.
Languages ==
  {"ar", "bn", "cs", "da", "de", "en", "es", "fi", "fr", "hi", "hr", "hu", "it", "ja",
   "ko", "nl", "pl", "pt", "ro", "ru", "sa", "sk", "sl", "sv", "th", "tr", "uk", "vi", "zh"}
Countries == {"en-GB", "ar-EG", "de-CH", "es-latam", "fr-CA", "nl-BE", "pt-PT"}

\* No country is mistaken for a language, and a raw key for neither.
LEMMA NamesApart == Languages \cap Countries = {} /\ "raw key" \notin Languages \cup Countries
BY DEF Languages, Countries

\* A catalogue in one language: what it has of the messages asked for is in it, or stated by a country.
Speaks(catalog, lang) ==
  /\ Base \subseteq DOMAIN catalog
  /\ catalog["plain"] = lang
  /\ catalog["regional"] \in {lang} \cup Countries
  /\ "refusal" \in DOMAIN catalog => catalog["refusal"] = lang

\* A catalogue that is written out has its language.
LEMMA WrittenSpeaks ==
  ASSUME NEW lang, NEW keys, Base \subseteq keys PROVE Speaks(Written(lang, keys), lang)
BY DEF Speaks, Written, Base

\* derive keeps the language, whether or not the country states something differently.
LEMMA DerivedSpeaks ==
  ASSUME NEW lang, NEW base, Speaks(base, lang)
  PROVE /\ \A country \in Countries : Speaks(derive(base, States(country)), lang)
        /\ Speaks(derive(base, Nothing), lang)
BY DEF Speaks, Base, derive, States, Nothing

\* Every catalogue is in its language.
LEMMA CataloguesSpeak ==
  /\ Speaks(enUS, "en") /\ Speaks(arSA, "ar") /\ Speaks(bnBD, "bn")
  /\ Speaks(csCZ, "cs") /\ Speaks(daDK, "da") /\ Speaks(deDE, "de")
  /\ Speaks(esES, "es") /\ Speaks(fiFI, "fi") /\ Speaks(frFR, "fr")
  /\ Speaks(hiIN, "hi") /\ Speaks(hrHR, "hr") /\ Speaks(huHU, "hu")
  /\ Speaks(itIT, "it") /\ Speaks(jaJP, "ja") /\ Speaks(koKR, "ko")
  /\ Speaks(nlNL, "nl") /\ Speaks(plPL, "pl") /\ Speaks(ptBR, "pt")
  /\ Speaks(roRO, "ro") /\ Speaks(ruRU, "ru") /\ Speaks(saIN, "sa")
  /\ Speaks(skSK, "sk") /\ Speaks(slSI, "sl") /\ Speaks(svSE, "sv")
  /\ Speaks(thTH, "th") /\ Speaks(trTR, "tr") /\ Speaks(ukUA, "uk")
  /\ Speaks(viVN, "vi") /\ Speaks(zhCN, "zh") /\ Speaks(zhTW, "zh")
  /\ Speaks(enGB, "en") /\ Speaks(enAU, "en") /\ Speaks(enCA, "en")
  /\ Speaks(enIN, "en") /\ Speaks(enNZ, "en") /\ Speaks(enZA, "en")
  /\ Speaks(arAE, "ar") /\ Speaks(arEG, "ar") /\ Speaks(bnIN, "bn")
  /\ Speaks(deAT, "de") /\ Speaks(deCH, "de") /\ Speaks(esLatam, "es")
  /\ Speaks(esAR, "es") /\ Speaks(esMX, "es") /\ Speaks(frBE, "fr")
  /\ Speaks(frCA, "fr") /\ Speaks(frCH, "fr") /\ Speaks(nlBE, "nl")
  /\ Speaks(ptPT, "pt")
<1>1. Base \subseteq Base /\ Base \subseteq Full /\ Base \subseteq Old
  BY DEF Full, Old
<1>2. /\ Speaks(enUS, "en")
      /\ Speaks(arSA, "ar")
      /\ Speaks(bnBD, "bn")
      /\ Speaks(csCZ, "cs")
      /\ Speaks(daDK, "da")
      /\ Speaks(deDE, "de")
      /\ Speaks(esES, "es")
      /\ Speaks(fiFI, "fi")
      /\ Speaks(frFR, "fr")
      /\ Speaks(hiIN, "hi")
      /\ Speaks(hrHR, "hr")
      /\ Speaks(huHU, "hu")
      /\ Speaks(itIT, "it")
      /\ Speaks(jaJP, "ja")
      /\ Speaks(koKR, "ko")
      /\ Speaks(nlNL, "nl")
      /\ Speaks(plPL, "pl")
      /\ Speaks(ptBR, "pt")
      /\ Speaks(roRO, "ro")
      /\ Speaks(ruRU, "ru")
      /\ Speaks(saIN, "sa")
      /\ Speaks(skSK, "sk")
      /\ Speaks(slSI, "sl")
      /\ Speaks(svSE, "sv")
      /\ Speaks(thTH, "th")
      /\ Speaks(trTR, "tr")
      /\ Speaks(ukUA, "uk")
      /\ Speaks(viVN, "vi")
      /\ Speaks(zhCN, "zh")
      /\ Speaks(zhTW, "zh")
  BY <1>1, WrittenSpeaks
    DEF enUS, arSA, bnBD, csCZ, daDK, deDE, esES, fiFI, frFR, hiIN, hrHR, huHU, itIT, jaJP,
        koKR, nlNL, plPL, ptBR, roRO, ruRU, saIN, skSK, slSI, svSE, thTH, trTR, ukUA, viVN,
        zhCN, zhTW
<1>3. {"en-GB", "ar-EG", "de-CH", "es-latam", "fr-CA", "nl-BE", "pt-PT"} \subseteq Countries
  BY DEF Countries
<1>4. /\ Speaks(enGB, "en")
      /\ Speaks(enCA, "en")
      /\ Speaks(arAE, "ar")
      /\ Speaks(arEG, "ar")
      /\ Speaks(bnIN, "bn")
      /\ Speaks(deAT, "de")
      /\ Speaks(deCH, "de")
      /\ Speaks(esLatam, "es")
      /\ Speaks(frBE, "fr")
      /\ Speaks(frCA, "fr")
      /\ Speaks(frCH, "fr")
      /\ Speaks(nlBE, "nl")
      /\ Speaks(ptPT, "pt")
  BY <1>2, <1>3, DerivedSpeaks
    DEF enGB, enCA, arAE, arEG, bnIN, deAT, deCH, esLatam, frBE, frCA, frCH, nlBE, ptPT
<1>5. /\ Speaks(enAU, "en")
      /\ Speaks(enIN, "en")
      /\ Speaks(enNZ, "en")
      /\ Speaks(enZA, "en")
      /\ Speaks(esAR, "es")
      /\ Speaks(esMX, "es")
  BY <1>4, DerivedSpeaks DEF enAU, enIN, enNZ, enZA, esAR, esMX
<1>. QED BY <1>2, <1>4, <1>5

\* A row whose catalogue is in the language of its code.
Reads(i) == catalogList[i][1][1] \in Languages /\ Speaks(catalogList[i][2], catalogList[i][1][1])

\* Every row registers a catalogue under its own language.
LEMMA RowsSpeak == ASSUME NEW i \in 1..48 PROVE Reads(i)
<1>1. ASSUME i \in 1..8 PROVE Reads(i)
  BY <1>1, CataloguesSpeak DEF Reads, catalogList, Languages
<1>2. ASSUME i \in 9..16 PROVE Reads(i)
  BY <1>2, CataloguesSpeak DEF Reads, catalogList, Languages
<1>3. ASSUME i \in 17..24 PROVE Reads(i)
  BY <1>3, CataloguesSpeak DEF Reads, catalogList, Languages
<1>4. ASSUME i \in 25..32 PROVE Reads(i)
  BY <1>4, CataloguesSpeak DEF Reads, catalogList, Languages
<1>5. ASSUME i \in 33..40 PROVE Reads(i)
  BY <1>5, CataloguesSpeak DEF Reads, catalogList, Languages
<1>6. ASSUME i \in 41..48 PROVE Reads(i)
  BY <1>6, CataloguesSpeak DEF Reads, catalogList, Languages
<1>. QED BY <1>1, <1>2, <1>3, <1>4, <1>5, <1>6

\* So does catalogs, which finds the row of a code.
LEMMA CatalogSpeaks == ASSUME NEW c \in Codes PROVE c[1] \in Languages /\ Speaks(catalogs[c], c[1])
<1>. DEFINE I == {i \in 1..Len(Declared) : Declared[i] = c}
<1>1. catalogs[c] = catalogList[Place(I)][2]
  BY DEF catalogs, SelectInSeq, Place
<1>2. I # {} /\ I \in SUBSET (1..48)
  BY CodesAreRows
<1>3. Place(I) \in I
  <2>. HIDE DEF I
  <2>. QED BY <1>2, FirstPlace
<1>4. Place(I) \in 1..48 /\ catalogList[Place(I)][1] = c
  BY <1>3, CodesAreRows
<1>. QED BY <1>1, <1>4, RowsSpeak DEF Reads

\* translate answers in the language of the code, of its country, or in English.
LEMMA Translated ==
  ASSUME NEW code, NEW k \in Keys
  PROVE \/ code \in Codes /\ translate(code, k) = code[1]
        \/ translate(code, k) \in {"en"} \cup Countries
<1>. DEFINE catalog == IF code \in Codes THEN catalogs[code] ELSE catalogs[defaultLocale]
            lang == IF code \in Codes THEN code[1] ELSE "en"
<1>1. defaultLocale \in Codes /\ defaultLocale[1] = "en"
  BY PreferredAreCodes DEF Preferred, defaultLocale
<1>2. Speaks(catalog, lang)
  BY <1>1, CatalogSpeaks
<1>3. Speaks(enUS, "en") /\ k \in DOMAIN enUS
  BY CataloguesSpeak DEF Keys, enUS, Written, Full, Base
<1>4. translate(code, k) = IF k \in DOMAIN catalog THEN catalog[k] ELSE enUS[k]
  BY <1>3 DEF translate
<1>. HIDE DEF catalog
<1>5. catalog[k] \in {lang} \cup Countries \/ (k = "refusal" /\ k \notin DOMAIN catalog)
  BY <1>2 DEF Speaks, Keys, Base
<1>6. k = "refusal" => enUS[k] = "en"
  BY <1>3 DEF Speaks
<1>7. k # "refusal" => k \in DOMAIN catalog
  BY <1>2 DEF Speaks, Keys, Base
<1>. QED BY <1>4, <1>5, <1>6, <1>7

\* Whatever a page is in, its messages are text of that language or English.
LEMMA NeverARawKeyHolds == NeverARawKey
<1>. SUFFICES ASSUME NEW b \in Browsers, NEW k \in Keys
     PROVE translate(locale[b], k) \notin {"raw key"} \cup
             {catalogs[c]["plain"] : c \in {d \in Codes : d[1] \notin {locale[b][1], "en"}}}
  BY DEF NeverARawKey
<1>. DEFINE t == translate(locale[b], k)
<1>1. (locale[b] \in Codes /\ t = locale[b][1]) \/ t \in {"en"} \cup Countries
  BY Translated
<1>2. "en" \in Languages
  BY DEF Languages
<1>. HIDE DEF t
<1>3. t # "raw key"
  BY <1>1, <1>2, CatalogSpeaks, NamesApart
<1>4. ASSUME NEW c \in Codes, c[1] \notin {locale[b][1], "en"} PROVE t # catalogs[c]["plain"]
  <2>1. catalogs[c]["plain"] = c[1] /\ c[1] \in Languages
    BY CatalogSpeaks DEF Speaks
  <2>. QED BY <1>1, <1>4, <2>1, NamesApart
<1>. QED BY <1>3, <1>4 DEF t

-----------------------------------------------------------------------------
(* The invariant.  `detectBrowserLocale` is left unexpanded: the argument  *)
(* is the same whatever the tables match.                                  *)

\* Every browser has its own state, and a form or a call is a record.
Shapes ==
  /\ DOMAIN stored = Browsers /\ DOMAIN locale = Browsers /\ DOMAIN pinned = Browsers
  /\ DOMAIN pinged = Browsers /\ DOMAIN pinging = Browsers /\ DOMAIN form = Browsers
  /\ DOMAIN asks = Browsers /\ DOMAIN saving = Browsers /\ DOMAIN chosen = Browsers
  /\ \A b \in Browsers : DOMAIN form[b] = {"current", "selected"}
  /\ \A b \in Browsers : \A a \in asks[b] : DOMAIN a = {"for", "current"}

\* What localStorage keeps is the last pick, in a browser whose localStorage works.
Remembered(b) == stored[b] = IF b \in storing THEN chosen[b] ELSE None

\* No page, call, form or save is about the empty tag, so no pick is the empty one.
Named(b) ==
  /\ locale[b] # None
  /\ \A a \in asks[b] : a.for # None
  /\ form[b] # NoForm => form[b].selected # None
  /\ \A code \in saving[b] : code # None

\* A pick of a shipped language is pinned and shown.
Picked(b) == chosen[b] # None /\ chosen[b] \in Codes => pinned[b] = TRUE /\ locale[b] = chosen[b]

\* Without a pick the browser's language is pinned and shown; the server may only override the
\* default, and then the page shows what the last ping brought.
Unpicked(b) ==
  chosen[b] = None =>
    IF detectBrowserLocale(prefs[b]) # None
    THEN pinned[b] = TRUE /\ locale[b] = detectBrowserLocale(prefs[b])
    ELSE pinned[b] = FALSE /\ locale[b] = IF pinged[b] = None THEN defaultLocale ELSE pinged[b]

LocaleInv ==
  /\ Shapes
  /\ \A b \in Browsers : Remembered(b) /\ Named(b) /\ Picked(b) /\ Unpicked(b)

-----------------------------------------------------------------------------
\* The default has a name.
LEMMA DefaultNamed == defaultLocale # None
BY DEF defaultLocale, None

-----------------------------------------------------------------------------
(* Where a page starts.                                                    *)

\* What a load decides is the precedence itself: the stored language if it has a catalogue, else
\* the browser's, else the default, which alone is left to the server.
LEMMA Resolved ==
  ASSUME NEW b \in Browsers, Remembered(b)
  PROVE LET c == IF b \in storing THEN chosen[b] ELSE None
            r == resolveInitialLocale(b)
        IN /\ r.locale # None
           /\ c # None /\ c \in Codes => r.pinned = TRUE /\ r.locale = c
           /\ c = None => IF detectBrowserLocale(prefs[b]) # None
                          THEN r.pinned = TRUE /\ r.locale = detectBrowserLocale(prefs[b])
                          ELSE r.pinned = FALSE /\ r.locale = defaultLocale
BY DefaultNamed DEF Remembered, resolveInitialLocale, readStoredLocale

\* A first load starts from an empty localStorage: the detected language or the default.
LEMMA InitInv == Init => LocaleInv
<1>. SUFFICES ASSUME Init PROVE LocaleInv
  OBVIOUS
<1>1. Shapes
  BY DEF Init, Shapes, NoForm
<1>2. ASSUME NEW b \in Browsers PROVE Remembered(b) /\ Named(b) /\ Picked(b) /\ Unpicked(b)
  <2>1. Remembered(b) /\ chosen[b] = None /\ pinged[b] = None
    BY DEF Init, Remembered
  <2>2. locale[b] = resolveInitialLocale(b).locale /\ pinned[b] = resolveInitialLocale(b).pinned
    BY DEF Init
  <2>3. Named(b)
    BY <2>1, <2>2, Resolved DEF Init, Named
  <2>4. Picked(b) /\ Unpicked(b)
    BY <2>1, <2>2, Resolved DEF Picked, Unpicked
  <2>. QED BY <2>1, <2>3, <2>4
<1>. QED BY <1>1, <1>2 DEF LocaleInv

-----------------------------------------------------------------------------
(* One step.                                                               *)

\* A step that leaves what a browser is shown and keeps alone keeps the precedence.
LEMMA Untouched ==
  ASSUME NEW b \in Browsers, Remembered(b), Picked(b), Unpicked(b),
         UNCHANGED <<prefs, storing>>,
         stored'[b] = stored[b], locale'[b] = locale[b], pinned'[b] = pinned[b],
         pinged'[b] = pinged[b], chosen'[b] = chosen[b]
  PROVE Remembered(b)' /\ Picked(b)' /\ Unpicked(b)'
BY DEF Remembered, Picked, Unpicked

\* A reload starts over from what localStorage kept.
LEMMA LoadInv == ASSUME LocaleInv, NEW b \in Browsers, Load(b) PROVE LocaleInv'
<1>1. Shapes'
  BY DEF LocaleInv, Shapes, Load, NoForm
<1>2. ASSUME NEW a \in Browsers PROVE (Remembered(a) /\ Named(a) /\ Picked(a) /\ Unpicked(a))'
  <2>1. CASE a # b
    <3>1. Named(a)'
      BY <2>1 DEF LocaleInv, Shapes, Load, Named
    <3>. QED BY <2>1, <3>1, Untouched DEF LocaleInv, Shapes, Load
  <2>2. CASE a = b
    <3>1. /\ locale'[b] = resolveInitialLocale(b).locale /\ pinned'[b] = resolveInitialLocale(b).pinned
          /\ pinged'[b] = None /\ form'[b] = NoForm /\ asks'[b] = {} /\ saving'[b] = {}
          /\ chosen'[b] = IF b \in storing THEN chosen[b] ELSE None
          /\ UNCHANGED <<prefs, storing, stored>>
      BY DEF LocaleInv, Shapes, Load
    <3>2. Remembered(b)'
      BY <3>1 DEF LocaleInv, Remembered
    <3>3. Remembered(b)
      BY DEF LocaleInv
    <3>4. Named(b)'
      BY <3>1, <3>3, Resolved DEF Named
    <3>5. Picked(b)' /\ Unpicked(b)'
      BY <3>1, <3>3, Resolved DEF Picked, Unpicked
    <3>. QED BY <2>2, <3>2, <3>4, <3>5
  <2>. QED BY <2>1, <2>2
<1>. QED BY <1>1, <1>2 DEF LocaleInv

\* The steps between the server, the network and the form move neither what a page shows nor what
\* its browser keeps; it is left to show that the tags they carry are named.
LEMMA ElsewhereInv ==
  ASSUME LocaleInv, Shapes', UNCHANGED <<prefs, storing, stored, page, pinged, chosen>>,
         \A a \in Browsers : Named(a)'
  PROVE LocaleInv'
<1>1. ASSUME NEW a \in Browsers PROVE Remembered(a)' /\ Picked(a)' /\ Unpicked(a)'
  BY Untouched DEF LocaleInv, page
<1>. QED BY <1>1 DEF LocaleInv

\* An administrator writes the setting: no page reads it before a ping or a list brings it.
LEMMA SettingInv == ASSUME LocaleInv, NEW code, setSetting(code) PROVE LocaleInv'
<1>1. Shapes' /\ \A a \in Browsers : Named(a)'
  BY DEF LocaleInv, Shapes, Named, setSetting, page, polls
<1>. QED BY <1>1, ElsewhereInv DEF setSetting, polls

\* The server answers a ping; nothing is shown until the answer is delivered.
LEMMA PingInv == ASSUME LocaleInv, NEW b \in Browsers, Ping(b) PROVE LocaleInv'
<1>1. Shapes' /\ \A a \in Browsers : Named(a)'
  BY DEF LocaleInv, Shapes, Named, Ping, page
<1>. QED BY <1>1, ElsewhereInv DEF Ping

\* A call that asks for the list on behalf of a named locale.
LEMMA Asked ==
  ASSUME LocaleInv, NEW b \in Browsers, NEW l, l # None, asks' = AskLocales(asks, b, l)
  PROVE /\ DOMAIN asks' = Browsers
        /\ \A a \in Browsers : \A k \in asks'[a] : DOMAIN k = {"for", "current"} /\ k.for # None
<1>1. DOMAIN asks' = Browsers
  BY DEF LocaleInv, Shapes, AskLocales
<1>2. ASSUME NEW a \in Browsers, NEW k \in asks'[a]
      PROVE k \in asks[a] \/ k = [for |-> l, current |-> None]
  BY DEF LocaleInv, Shapes, AskLocales
<1>. QED BY <1>1, <1>2 DEF LocaleInv, Shapes, Named

\* The form asks for the list for the locale of the page, which is named.
LEMMA OpenInv == ASSUME LocaleInv, NEW b \in Browsers, OpenSettings(b) PROVE LocaleInv'
<1>1. locale[b] # None /\ asks' = AskLocales(asks, b, locale[b])
  BY DEF LocaleInv, Named, OpenSettings
<1>2. Shapes' /\ \A a \in Browsers : Named(a)'
  BY <1>1, Asked DEF LocaleInv, Shapes, Named, OpenSettings, page, polls
<1>. QED BY <1>2, ElsewhereInv DEF OpenSettings, polls

\* The server fills in its setting; the locale a call closes over stays.
LEMMA AnswerInv == ASSUME LocaleInv, NEW b \in Browsers, AnswerLocales(b) PROVE LocaleInv'
<1>1. PICK c \in asks[b] :
        asks' = [asks EXCEPT ![b] = (@ \ {c}) \cup {[c EXCEPT !.current = setting]}]
  BY DEF AnswerLocales
<1>2. ASSUME NEW a \in Browsers, NEW k \in asks'[a]
      PROVE k \in asks[a] \/ k = [c EXCEPT !.current = setting]
  BY <1>1 DEF LocaleInv, Shapes
<1>3. DOMAIN c = {"for", "current"} /\ c.for # None
  BY DEF LocaleInv, Shapes, Named
<1>4. ASSUME NEW a \in Browsers, NEW k \in asks'[a] PROVE DOMAIN k = {"for", "current"} /\ k.for # None
  BY <1>2, <1>3 DEF LocaleInv, Shapes, Named
<1>5. DOMAIN asks' = Browsers
  BY <1>1 DEF LocaleInv, Shapes
<1>6. Shapes' /\ \A a \in Browsers : Named(a)'
  BY <1>4, <1>5 DEF LocaleInv, Shapes, Named, AnswerLocales, page, polls
<1>. QED BY <1>6, ElsewhereInv DEF AnswerLocales, polls

\* The form preselects the locale of the page or the setting of the server, both named.
LEMMA ListInv == ASSUME LocaleInv, NEW b \in Browsers, getLocales(b) PROVE LocaleInv'
<1>1. PICK c \in asks[b] :
        /\ asks' = [asks EXCEPT ![b] = @ \ {c}]
        /\ \/ form' = form
           \/ /\ c.current # None
              /\ form' = [form EXCEPT ![b] = [current |-> c.current,
                            selected |-> IF c.for \in Codes \cup Unpopulated THEN c.for ELSE c.current]]
  BY DEF getLocales
<1>2. DOMAIN asks' = Browsers /\ \A a \in Browsers : asks'[a] \subseteq asks[a]
  BY <1>1 DEF LocaleInv, Shapes
<1>3. c.for # None
  BY DEF LocaleInv, Named
<1>4. /\ DOMAIN form' = Browsers
      /\ \A a \in Browsers : /\ DOMAIN form'[a] = {"current", "selected"}
                             /\ form'[a] # NoForm => form'[a].selected # None
  BY <1>1, <1>3 DEF LocaleInv, Shapes, Named
<1>5. Shapes' /\ \A a \in Browsers : Named(a)'
  BY <1>2, <1>4 DEF LocaleInv, Shapes, Named, getLocales, page, polls
<1>. QED BY <1>5, ElsewhereInv DEF getLocales, polls

\* The select offers codes of catalogues only.
LEMMA SelectInv ==
  ASSUME LocaleInv, NEW b \in Browsers, NEW code, setSelectedLocale(b, code) PROVE LocaleInv'
<1>1. code # None
  BY CodesAreRows DEF setSelectedLocale
<1>2. /\ DOMAIN form' = Browsers
      /\ \A a \in Browsers : /\ DOMAIN form'[a] = {"current", "selected"}
                             /\ form'[a] # NoForm => form'[a].selected # None
  BY <1>1 DEF LocaleInv, Shapes, Named, setSelectedLocale
<1>3. Shapes' /\ \A a \in Browsers : Named(a)'
  BY <1>2 DEF LocaleInv, Shapes, Named, setSelectedLocale, page, polls
<1>. QED BY <1>3, ElsewhereInv DEF setSelectedLocale, polls

\* The settings page is left.
LEMMA CloseInv == ASSUME LocaleInv, NEW b \in Browsers, CloseSettings(b) PROVE LocaleInv'
<1>1. Shapes' /\ \A a \in Browsers : Named(a)'
  BY DEF LocaleInv, Shapes, Named, CloseSettings, page, polls, NoForm
<1>. QED BY <1>1, ElsewhereInv DEF CloseSettings, polls

\* The answer to a ping moves a page only when nothing is pinned there.
LEMMA DeliveredInv == ASSUME LocaleInv, NEW b \in Browsers, PingDelivered(b) PROVE LocaleInv'
<1>. DEFINE code == pinging[b]
<1>1. code # None /\ UNCHANGED <<prefs, storing, stored, pinned, form, saving, chosen>>
  BY DEF PingDelivered
<1>2. \/ locale' = locale /\ (pinged[b] = code \/ pinned[b] # FALSE)
      \/ locale' = [locale EXCEPT ![b] = code] /\ pinned[b] # TRUE
  BY DEF PingDelivered, syncServerLocale
<1>3. DOMAIN locale' = Browsers /\ DOMAIN pinged' = Browsers /\ DOMAIN pinging' = Browsers
  BY <1>2 DEF LocaleInv, Shapes, PingDelivered
<1>4. locale'[b] # None
  BY <1>1, <1>2 DEF LocaleInv, Shapes, Named
<1>5. /\ DOMAIN asks' = Browsers
      /\ \A a \in Browsers : \A k \in asks'[a] : DOMAIN k = {"for", "current"} /\ k.for # None
  <2>1. CASE asks' = asks
    BY <2>1 DEF LocaleInv, Shapes, Named
  <2>2. CASE asks' = AskLocales(asks, b, locale'[b])
    BY <1>4, <2>2, Asked
  <2>. QED BY <2>1, <2>2 DEF PingDelivered
<1>6. Shapes'
  BY <1>1, <1>3, <1>5 DEF LocaleInv, Shapes
<1>7. ASSUME NEW a \in Browsers PROVE (Remembered(a) /\ Named(a) /\ Picked(a) /\ Unpicked(a))'
  <2>1. Named(a)'
    BY <1>1, <1>2, <1>4, <1>5 DEF LocaleInv, Shapes, Named
  <2>2. CASE a # b
    BY <1>1, <1>2, <2>1, <2>2, Untouched DEF LocaleInv, Shapes, PingDelivered
  <2>3. CASE a = b
    <3>1. pinged'[b] = code
      BY DEF PingDelivered, LocaleInv, Shapes
    <3>2. Remembered(b)'
      BY <1>1 DEF LocaleInv, Remembered
    <3>3. Picked(b)'
      BY <1>1, <1>2 DEF LocaleInv, Shapes, Picked
    <3>4. Unpicked(b)'
      BY <1>1, <1>2, <3>1 DEF LocaleInv, Shapes, Unpicked
    <3>. QED BY <2>1, <2>3, <3>2, <3>3, <3>4
  <2>. QED BY <2>2, <2>3
<1>. QED BY <1>6, <1>7 DEF LocaleInv

\* A page that switches to a named language remembers and pins what it shows.
LEMMA SwitchInv ==
  ASSUME LocaleInv, NEW b \in Browsers, NEW code, code # None, Switch(b, code),
         UNCHANGED <<prefs, storing, polls, form>>,
         DOMAIN saving' = Browsers, \A a \in Browsers : saving'[a] \subseteq saving[a]
  PROVE LocaleInv'
<1>1. /\ pinned' = [pinned EXCEPT ![b] = TRUE] /\ locale' = [locale EXCEPT ![b] = code]
      /\ stored' = IF b \in storing THEN [stored EXCEPT ![b] = code] ELSE stored
      /\ chosen' = [chosen EXCEPT ![b] = code]
  BY DEF Switch, setLocale
<1>2. /\ DOMAIN asks' = Browsers
      /\ \A a \in Browsers : \A k \in asks'[a] : DOMAIN k = {"for", "current"} /\ k.for # None
  <2>1. CASE asks' = asks
    BY <2>1 DEF LocaleInv, Shapes, Named
  <2>2. CASE asks' = AskLocales(asks, b, code)
    BY <2>2, Asked
  <2>. QED BY <2>1, <2>2 DEF Switch
<1>3. Shapes'
  BY <1>1, <1>2 DEF LocaleInv, Shapes, polls
<1>4. ASSUME NEW a \in Browsers PROVE (Remembered(a) /\ Named(a) /\ Picked(a) /\ Unpicked(a))'
  <2>1. Named(a)'
    BY <1>1, <1>2 DEF LocaleInv, Shapes, Named
  <2>2. CASE a # b
    BY <1>1, <2>1, <2>2, Untouched DEF LocaleInv, Shapes, polls
  <2>3. CASE a = b
    <3>1. Remembered(b)'
      BY <1>1 DEF LocaleInv, Shapes, Remembered
    <3>2. Picked(b)' /\ Unpicked(b)'
      BY <1>1 DEF LocaleInv, Shapes, Picked, Unpicked
    <3>. QED BY <2>1, <2>3, <3>1, <3>2
  <2>. QED BY <2>2, <2>3
<1>. QED BY <1>3, <1>4 DEF LocaleInv

\* A save starts, or switches the page at once when the setting stays as it is.
LEMMA SaveInv == ASSUME LocaleInv, NEW b \in Browsers, handleSaveLanguage(b) PROVE LocaleInv'
<1>. DEFINE code == form[b].selected
<1>1. code # None
  BY DEF LocaleInv, Named, handleSaveLanguage
<1>2. CASE /\ saving' = [saving EXCEPT ![b] = @ \cup {code}]
           /\ UNCHANGED <<prefs, storing, stored, page, polls, form, asks, chosen>>
  <2>1. Shapes' /\ \A a \in Browsers : Named(a)'
    BY <1>1, <1>2 DEF LocaleInv, Shapes, Named, page, polls
  <2>. QED BY <1>2, <2>1, ElsewhereInv DEF polls
<1>3. CASE Switch(b, code) /\ UNCHANGED <<setting, prefs, storing, polls, form, saving>>
  BY <1>1, <1>3, SwitchInv DEF LocaleInv, Shapes
<1>. QED BY <1>2, <1>3 DEF handleSaveLanguage

\* The answer to a save switches the page, or is an error.
LEMMA SavedInv == ASSUME LocaleInv, NEW b \in Browsers, LanguageSaved(b) PROVE LocaleInv'
<1>1. PICK code \in saving[b] :
        /\ saving' = [saving EXCEPT ![b] = @ \ {code}]
        /\ Switch(b, code) \/ UNCHANGED <<stored, page, asks, chosen>>
        /\ UNCHANGED <<setting, prefs, storing, polls, form>>
  BY DEF LanguageSaved
<1>2. code # None
  BY DEF LocaleInv, Named
<1>3. DOMAIN saving' = Browsers /\ \A a \in Browsers : saving'[a] \subseteq saving[a]
  BY <1>1 DEF LocaleInv, Shapes
<1>4. CASE Switch(b, code)
  BY <1>1, <1>2, <1>3, <1>4, SwitchInv
<1>5. CASE UNCHANGED <<stored, page, asks, chosen>>
  <2>1. Shapes' /\ \A a \in Browsers : Named(a)'
    BY <1>1, <1>3, <1>5 DEF LocaleInv, Shapes, Named, page, polls
  <2>. QED BY <1>1, <1>5, <2>1, ElsewhereInv DEF polls
<1>. QED BY <1>1, <1>4, <1>5

-----------------------------------------------------------------------------
\* Every reachable state satisfies the invariant.
THEOREM InvariantHolds == Spec => []LocaleInv
<1>1. LocaleInv /\ [Next]_vars => LocaleInv'
  <2>. SUFFICES ASSUME LocaleInv, [Next]_vars PROVE LocaleInv'
    OBVIOUS
  <2>1. CASE \E code \in Settings : setSetting(code)
    BY <2>1, SettingInv
  <2>2. ASSUME NEW b \in Browsers,
               \/ Load(b) \/ Ping(b) \/ PingDelivered(b) \/ OpenSettings(b)
               \/ AnswerLocales(b) \/ getLocales(b) \/ handleSaveLanguage(b)
               \/ LanguageSaved(b) \/ CloseSettings(b)
               \/ \E code \in Settings : setSelectedLocale(b, code)
        PROVE LocaleInv'
    BY <2>2, LoadInv, PingInv, DeliveredInv, OpenInv, AnswerInv, ListInv, SaveInv, SavedInv, CloseInv,
       SelectInv
  <2>3. CASE UNCHANGED vars
    <3>1. Shapes' /\ \A a \in Browsers : Named(a)'
      BY <2>3 DEF LocaleInv, Shapes, Named, vars
    <3>. QED BY <2>3, <3>1, ElsewhereInv DEF vars, page
  <2>. QED BY <2>1, <2>2, <2>3 DEF Next
<1>. QED BY InitInv, <1>1, PTL DEF Spec

\* syncServerLocale, setLocale and resolveInitialLocale keep the precedence: a pick of a shipped
\* language outlives pings, saves of other browsers and reloads; without one the browser's own
\* language holds; only a browser whose languages have no catalogue follows the server.
THEOREM PrecedenceHolds == Spec => []Precedence
<1>1. LocaleInv => Precedence
  BY DEF LocaleInv, Picked, Unpicked, Precedence
<1>. QED BY InvariantHolds, <1>1, PTL

\* prefs is what the browser came with, and never changes.
LEMMA PrefsTyped == Spec => [](\A b \in Browsers : prefs[b] \in Seq(Tags))
<1>. DEFINE Typed == \A b \in Browsers : prefs[b] \in Seq(Tags)
<1>1. Init => Typed
  BY LocaleAssumption DEF Init
<1>2. Typed /\ [Next]_vars => Typed'
  <2>1. [Next]_vars => prefs' = prefs
    BY DEF Next, vars, Load, setSetting, Ping, PingDelivered, OpenSettings, AnswerLocales, getLocales,
           setSelectedLocale, handleSaveLanguage, LanguageSaved, CloseSettings
  <2>. QED BY <2>1
<1>. QED BY <1>1, <1>2, PTL DEF Spec

\* matchLocale answers from the tables alone: the same with the declarations reversed, the first
\* preference with a catalogue, else one in the language of the first preference that is served.
THEOREM MatchIsDecided == Spec => []MatchDecided
<1>1. (\A b \in Browsers : prefs[b] \in Seq(Tags)) => MatchDecided
  BY MatchLemma
<1>. QED BY <1>1, PrefsTyped, PTL

\* translate never shows a key, nor a third language, whatever the locale of the page: a setting
\* without a catalogue included.
THEOREM KeysAreNeverShown == Spec => []NeverARawKey
BY NeverARawKeyHolds, PTL
=============================================================================
