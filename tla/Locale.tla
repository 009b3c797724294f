------------------------------- MODULE Locale -------------------------------
(***************************************************************************)
(* The language of the web interface (ui/src/i18n): the message            *)
(* catalogues, how a browser's preferences are matched against them, and   *)
(* the provider that decides between the choice stored in a browser, the   *)
(* browser's own languages and the server's global `locale` setting, which *)
(* the status ping and the language form of the settings page move about.  *)
(*                                                                         *)
(* A locale tag is the sequence of its lower-cased subtags.  A catalogue   *)
(* is a function from message keys to the language the message is written  *)
(* in.  The 894 keys are abstracted to four classes, told apart by which   *)
(* catalogues have them:                                                   *)
(*   "plain"    every catalogue has it, no country states it differently;  *)
(*   "regional" as plain, but some country states it differently;          *)
(*   "refusal"  the dns.bl.refusal_ messages, which most catalogues lack;  *)
(*   "retired"  messages the interface no longer asks for.                 *)
(***************************************************************************)
EXTENDS Naturals, Sequences, SequencesExt, FiniteSets

CONSTANTS
  Browsers,       \* browsers that show the interface
  PrefsOf,        \* the navigator.languages each browser may have
  Settings,       \* values the global locale setting may be given, catalogue or not
  MaxAsks,        \* bound: getLocales and setSetting calls in flight per browser
  Unpopulated     \* codes the server lists although no catalogue exists for them

None == <<>>
Tags == Seq(STRING) \ {None}                   \* what a browser may name: one subtag or more

ASSUME LocaleAssumption == PrefsOf \in [Browsers -> SUBSET Seq(Tags)]

Keys == {"plain", "regional", "refusal"}      \* the keys the interface asks for

-----------------------------------------------------------------------------
(* The catalogues.  A language catalogue is written out in full, a country *)
(* one is derived from the catalogue of its language.                      *)

Written(lang, keys) == [k \in keys |-> lang]
Base == {"plain", "regional"}
Full == Base \cup {"refusal"}
Old  == Base \cup {"retired"}
States(country) == [k \in {"regional"} |-> country]
Nothing == [k \in {} |-> "none"]

derive(base, overrides) ==
  [k \in DOMAIN base \cup DOMAIN overrides |-> IF k \in DOMAIN overrides THEN overrides[k] ELSE base[k]]

enUS == Written("en", Full)
arSA == Written("ar", Base)
bnBD == Written("bn", Base)
csCZ == Written("cs", Full)
daDK == Written("da", Base)
deDE == Written("de", Base)
esES == Written("es", Base)
fiFI == Written("fi", Base)
frFR == Written("fr", Old)
hiIN == Written("hi", Base)
hrHR == Written("hr", Full)
huHU == Written("hu", Full)
itIT == Written("it", Old)
jaJP == Written("ja", Base)
koKR == Written("ko", Base)
nlNL == Written("nl", Base)
plPL == Written("pl", Base)
ptBR == Written("pt", Base)
roRO == Written("ro", Full)
ruRU == Written("ru", Base)
saIN == Written("sa", Base)
skSK == Written("sk", Full)
slSI == Written("sl", Full)
svSE == Written("sv", Base)
thTH == Written("th", Base)
trTR == Written("tr", Base)
ukUA == Written("uk", Old)
viVN == Written("vi", Base)
zhCN == Written("zh", Base)
zhTW == Written("zh", Base)

enGB == derive(enUS, States("en-GB"))
enAU == derive(enGB, Nothing)
enCA == derive(enUS, Nothing)
enIN == derive(enGB, Nothing)
enNZ == derive(enGB, Nothing)
enZA == derive(enGB, Nothing)
arAE == derive(arSA, Nothing)
arEG == derive(arSA, States("ar-EG"))
bnIN == derive(bnBD, Nothing)
deAT == derive(deDE, Nothing)
deCH == derive(deDE, States("de-CH"))
esLatam == derive(esES, States("es-latam"))
esAR == derive(esLatam, Nothing)
esMX == derive(esLatam, Nothing)
frBE == derive(frFR, Nothing)
frCA == derive(frFR, States("fr-CA"))
frCH == derive(frFR, Nothing)
nlBE == derive(nlNL, States("nl-BE"))
ptPT == derive(ptBR, States("pt-PT"))

\* The registered catalogues in the order of their declaration.
catalogList == <<
  << <<"en","us">>, enUS >>, << <<"ar","ae">>, arAE >>, << <<"ar","eg">>, arEG >>,
  << <<"ar","sa">>, arSA >>, << <<"bn","bd">>, bnBD >>, << <<"bn","in">>, bnIN >>,
  << <<"cs","cz">>, csCZ >>, << <<"da","dk">>, daDK >>, << <<"de","at">>, deAT >>,
  << <<"de","ch">>, deCH >>, << <<"de","de">>, deDE >>, << <<"en","au">>, enAU >>,
  << <<"en","ca">>, enCA >>, << <<"en","gb">>, enGB >>, << <<"en","in">>, enIN >>,
  << <<"en","nz">>, enNZ >>, << <<"en","za">>, enZA >>, << <<"es","ar">>, esAR >>,
  << <<"es","es">>, esES >>, << <<"es","mx">>, esMX >>, << <<"fi","fi">>, fiFI >>,
  << <<"fr","be">>, frBE >>, << <<"fr","ca">>, frCA >>, << <<"fr","ch">>, frCH >>,
  << <<"fr","fr">>, frFR >>, << <<"hi","in">>, hiIN >>, << <<"hr","hr">>, hrHR >>,
  << <<"hu","hu">>, huHU >>, << <<"it","it">>, itIT >>, << <<"ja","jp">>, jaJP >>,
  << <<"ko","kr">>, koKR >>, << <<"nl","be">>, nlBE >>, << <<"nl","nl">>, nlNL >>,
  << <<"pl","pl">>, plPL >>, << <<"pt","br">>, ptBR >>, << <<"pt","pt">>, ptPT >>,
  << <<"ro","ro">>, roRO >>, << <<"ru","ru">>, ruRU >>, << <<"sa","in">>, saIN >>,
  << <<"sk","sk">>, skSK >>, << <<"sl","si">>, slSI >>, << <<"sv","se">>, svSE >>,
  << <<"th","th">>, thTH >>, << <<"tr","tr">>, trTR >>, << <<"uk","ua">>, ukUA >>,
  << <<"vi","vn">>, viVN >>, << <<"zh","cn">>, zhCN >>, << <<"zh","tw">>, zhTW >> >>

Declared == [i \in DOMAIN catalogList |-> catalogList[i][1]]
Codes == {Declared[i] : i \in DOMAIN Declared}
catalogs == [c \in Codes |-> catalogList[SelectInSeq(Declared, LAMBDA d : d = c)][2]]

defaultLocale == <<"en","us">>

-----------------------------------------------------------------------------
(* Matching a browser's ordered preferences against the catalogues.        *)

languageDefaults_NoDutch ==
  [ar |-> <<"ar","sa">>, bn |-> <<"bn","bd">>, de |-> <<"de","de">>, en |-> <<"en","us">>,
   es |-> <<"es","es">>, fr |-> <<"fr","fr">>, pt |-> <<"pt","br">>]

languageDefaults ==
  [ar |-> <<"ar","sa">>, bn |-> <<"bn","bd">>, de |-> <<"de","de">>, en |-> <<"en","us">>,
   es |-> <<"es","es">>, fr |-> <<"fr","fr">>, nl |-> <<"nl","nl">>, pt |-> <<"pt","br">>]

regionDefaults ==
  [es |-> << {"ar","bo","cl","co","cr","cu","do","ec","gt","hn","mx","ni","pa","pe","pr",
              "py","sv","uy","ve"}, <<"es","mx">> >>,
   pt |-> << {"ao","cv","gw","mz","st","tl"}, <<"pt","pt">> >>,
   en |-> << {"ie","gh","ke","lk","my","ng","pk","sg","tz","ug","zm","zw"}, <<"en","gb">> >>]

preferredFallback(pref) ==
  LET base == pref[1]
      regional == /\ base \in DOMAIN regionDefaults
                  /\ Len(pref) > 1
                  /\ pref[2] \in regionDefaults[base][1]
  IN IF regional THEN regionDefaults[base][2]
     ELSE IF base \in DOMAIN languageDefaults THEN languageDefaults[base] ELSE None

\* The first code of a sequence that satisfies a test, as Array.find.
Find(codes, Test(_)) ==
  LET i == SelectInSeq(codes, Test) IN IF i = 0 THEN None ELSE codes[i]

Traditional(pref) == \E i \in 1..Len(pref) : pref[i] \in {"hant", "tw", "hk", "mo"}

\* What one preference falls back to when no preference matches exactly.
fallbackFor(pref, codes) ==
  LET same == Find(codes, LAMBDA c : c[1] = pref[1])
      want == IF pref[1] = "zh" THEN IF Traditional(pref) THEN <<"zh","tw">> ELSE <<"zh","cn">>
              ELSE preferredFallback(pref)
      named == Find(codes, LAMBDA c : c = want)
  IN IF named # None THEN named ELSE same

matchLocale(prefs, codes) ==
  LET exact == SelectInSeq(prefs, LAMBDA p : Contains(codes, p))
      close == SelectInSeq(prefs, LAMBDA p : fallbackFor(p, codes) # None)
  IN IF exact # 0 THEN prefs[exact]
     ELSE IF close # 0 THEN fallbackFor(prefs[close], codes) ELSE None

detectBrowserLocale(prefs) == matchLocale(prefs, Declared)

translate_NoFallback(code, key) ==
  LET catalog == IF code \in Codes THEN catalogs[code] ELSE catalogs[defaultLocale]
  IN IF key \in DOMAIN catalog THEN catalog[key] ELSE "raw key"

\* The language a message is read in: the locale's own catalogue, else the
\* English one, else the raw key.
translate(code, key) ==
  LET catalog == IF code \in Codes THEN catalogs[code] ELSE catalogs[defaultLocale]
  IN IF key \in DOMAIN catalog THEN catalog[key]
     ELSE IF key \in DOMAIN enUS THEN enUS[key] ELSE "raw key"

-----------------------------------------------------------------------------
VARIABLES
  setting,      \* the server's global locale setting
  prefs,        \* browser -> navigator.languages
  storing,      \* the browsers whose localStorage works
  stored,       \* browser -> localStorage['townos.locale']
  locale,       \* browser -> the provider's locale state
  pinned,       \* browser -> pinnedRef
  pinged,       \* browser -> the locale of the last ping shown to the effect
  pinging,      \* browser -> the locale an answered ping carries, undelivered
  form,         \* browser -> the language form: server list and selection
  asks,         \* browser -> getLocales calls in flight
  saving,       \* browser -> the codes of handleSaveLanguage calls at their await
  chosen        \* history: the last language picked in a browser that can keep it

page   == <<locale, pinned>>
polls  == <<pinged, pinging>>
vars   == <<setting, prefs, storing, stored, locale, pinned, pinged, pinging, form, asks, saving, chosen>>

NoForm == [current |-> None, selected |-> None]

-----------------------------------------------------------------------------
readStoredLocale(b) == IF stored[b] \in Codes THEN stored[b] ELSE None

\* The locale to start with and whether the server may still override it.
resolveInitialLocale(b) ==
  LET detected == detectBrowserLocale(prefs[b])
  IN IF readStoredLocale(b) # None THEN [locale |-> readStoredLocale(b), pinned |-> TRUE]
     ELSE IF detected # None THEN [locale |-> detected, pinned |-> TRUE]
     ELSE [locale |-> defaultLocale, pinned |-> FALSE]

Init ==
  /\ setting = defaultLocale
  /\ prefs \in {p \in [Browsers -> UNION {PrefsOf[b] : b \in Browsers}] :
                  \A b \in Browsers : p[b] \in PrefsOf[b]}
  /\ storing \in SUBSET Browsers
  /\ stored = [b \in Browsers |-> None]
  /\ locale = [b \in Browsers |-> resolveInitialLocale(b).locale]
  /\ pinned = [b \in Browsers |-> resolveInitialLocale(b).pinned]
  /\ pinged = [b \in Browsers |-> None]
  /\ pinging = [b \in Browsers |-> None]
  /\ form = [b \in Browsers |-> NoForm]
  /\ asks = [b \in Browsers |-> {}]
  /\ saving = [b \in Browsers |-> {}]
  /\ chosen = [b \in Browsers |-> None]

\* The page is loaded again: everything but localStorage starts over.
Load(b) ==
  /\ locale' = [locale EXCEPT ![b] = resolveInitialLocale(b).locale]
  /\ pinned' = [pinned EXCEPT ![b] = resolveInitialLocale(b).pinned]
  /\ pinged' = [pinged EXCEPT ![b] = None]
  /\ pinging' = [pinging EXCEPT ![b] = None]
  /\ form' = [form EXCEPT ![b] = NoForm]
  /\ asks' = [asks EXCEPT ![b] = {}]
  /\ saving' = [saving EXCEPT ![b] = {}]
  /\ chosen' = IF b \in storing THEN chosen ELSE [chosen EXCEPT ![b] = None]
  /\ UNCHANGED <<setting, prefs, storing, stored>>

\* An administrator writes the setting by other means: it is a free-text row.
setSetting(code) ==
  /\ setting' = code
  /\ UNCHANGED <<prefs, storing, stored, page, polls, form, asks, saving, chosen>>

\* The server answers the status ping of the dashboard; a newer poll
\* supersedes an undelivered one (usePolling's generation).
Ping(b) ==
  /\ pinging' = [pinging EXCEPT ![b] = setting]
  /\ UNCHANGED <<setting, prefs, storing, stored, page, pinged, form, asks, saving, chosen>>

\* The effect of the language form: ask for the list whenever the locale or the
\* refresh key changes.  The answer closes over the locale of that render.
AskLocales(as, b, l) == [as EXCEPT ![b] = @ \cup {[for |-> l, current |-> None]}]
Mounted(b) == asks[b] # {} \/ form[b] # NoForm

syncServerLocale_IgnoresPin(b, code) == locale' = [locale EXCEPT ![b] = code]

syncServerLocale(b, code) ==
  IF pinned[b] THEN locale' = locale ELSE locale' = [locale EXCEPT ![b] = code]

\* Dashboard: the answer reaches the page; the effect runs when its locale differs
\* from the one of the answer before.
PingDelivered(b) ==
  /\ pinging[b] # None /\ Cardinality(asks[b]) < MaxAsks
  /\ pinging' = [pinging EXCEPT ![b] = None]
  /\ pinged' = [pinged EXCEPT ![b] = pinging[b]]
  /\ IF pinged[b] = pinging[b] THEN locale' = locale ELSE syncServerLocale(b, pinging[b])
  /\ asks' = IF Mounted(b) /\ locale'[b] # locale[b] THEN AskLocales(asks, b, locale'[b]) ELSE asks
  /\ UNCHANGED <<setting, prefs, storing, stored, pinned, form, saving, chosen>>

OpenSettings(b) ==
  /\ ~Mounted(b)
  /\ asks' = AskLocales(asks, b, locale[b])
  /\ UNCHANGED <<setting, prefs, storing, stored, page, polls, form, saving, chosen>>

\* The server answers one getLocales call.
AnswerLocales(b) == \E a \in asks[b] :
  /\ a.current = None
  /\ asks' = [asks EXCEPT ![b] = (@ \ {a}) \cup {[a EXCEPT !.current = setting]}]
  /\ UNCHANGED <<setting, prefs, storing, stored, page, polls, form, saving, chosen>>

\* The form takes the answer: it preselects the language of the page, or the
\* server's when the server does not offer the page's.  A call may also fail.
getLocales(b) == \E a \in asks[b] :
  /\ asks' = [asks EXCEPT ![b] = @ \ {a}]
  /\ \/ form' = form
     \/ /\ a.current # None
        /\ form' = [form EXCEPT ![b] = [current |-> a.current,
                      selected |-> IF a.for \in Codes \cup Unpopulated THEN a.for ELSE a.current]]
  /\ UNCHANGED <<setting, prefs, storing, stored, page, polls, saving, chosen>>

\* The select offers the populated locales; the others are disabled.
setSelectedLocale(b, code) ==
  /\ form[b] # NoForm /\ code \in Codes
  /\ form' = [form EXCEPT ![b].selected = code]
  /\ UNCHANGED <<setting, prefs, storing, stored, page, polls, asks, saving, chosen>>

\* The provider's setLocale: pin, remember for this browser, show.
setLocale(b, code) ==
  /\ pinned' = [pinned EXCEPT ![b] = TRUE]
  /\ stored' = IF b \in storing THEN [stored EXCEPT ![b] = code] ELSE stored
  /\ locale' = [locale EXCEPT ![b] = code]

\* The page switches and, while it is mounted, the form asks again.
Switch(b, code) ==
  /\ Cardinality(asks[b]) < MaxAsks
  /\ setLocale(b, code)
  /\ asks' = IF Mounted(b) THEN AskLocales(asks, b, code) ELSE asks
  /\ chosen' = [chosen EXCEPT ![b] = code]

\* handleSaveLanguage up to its await, or to its end when nothing is to be written.
\* Nothing keeps a second save from starting before the first has ended.
handleSaveLanguage(b) ==
  LET code == form[b].selected
      localeChanged == code # locale[b]
      settingChanged == code # form[b].current
  IN
  /\ form[b] # NoForm /\ Cardinality(saving[b]) < MaxAsks
  /\ \/ /\ settingChanged                          \* setSetting reaches the server
        /\ setting' = code
        /\ saving' = [saving EXCEPT ![b] = @ \cup {code}]
        /\ UNCHANGED <<prefs, storing, stored, page, polls, form, asks, chosen>>
     \/ /\ ~settingChanged /\ localeChanged        \* only the page changes
        /\ Switch(b, code)
        /\ UNCHANGED <<setting, prefs, storing, polls, form, saving>>

\* The answer to setSetting arrives; it may be an error, which is only shown.
LanguageSaved(b) == \E code \in saving[b] :
  /\ saving' = [saving EXCEPT ![b] = @ \ {code}]
  /\ \/ Switch(b, code)
     \/ UNCHANGED <<stored, page, asks, chosen>>
  /\ UNCHANGED <<setting, prefs, storing, polls, form>>

\* The settings page is left: its state and the answers it waited for are gone.
CloseSettings(b) ==
  /\ Mounted(b)
  /\ form' = [form EXCEPT ![b] = NoForm]
  /\ asks' = [asks EXCEPT ![b] = {}]
  /\ UNCHANGED <<setting, prefs, storing, stored, page, polls, saving, chosen>>

Next ==
  \/ \E code \in Settings : setSetting(code)
  \/ \E b \in Browsers :
       \/ Load(b) \/ Ping(b) \/ PingDelivered(b) \/ OpenSettings(b)
       \/ AnswerLocales(b) \/ getLocales(b) \/ handleSaveLanguage(b)
       \/ LanguageSaved(b) \/ CloseSettings(b)
       \/ \E code \in Settings : setSelectedLocale(b, code)

Spec == Init /\ [][Next]_vars

-----------------------------------------------------------------------------
(* A deliberate pick of a shipped language outlives everything: pings, other browsers' saves of  *)
(* the global setting and, where localStorage works, reloads; without one  *)
(* the browser's own language holds, and only a browser whose languages    *)
(* have no catalogue shows the setting some ping brought it.               *)
Precedence == \A b \in Browsers :
  LET detected == detectBrowserLocale(prefs[b])
  IN IF chosen[b] # None THEN chosen[b] \in Codes => locale[b] = chosen[b]
     ELSE IF detected # None THEN locale[b] = detected
     ELSE locale[b] = IF pinged[b] = None THEN defaultLocale ELSE pinged[b]

(* The catalogue a browser gets is decided by the tables, not by the order *)
(* in which the catalogues happen to be declared: the answer is the same   *)
(* with the declarations reversed, is an exact match if any preference has *)
(* one, and otherwise is in the language of the first preference that any  *)
(* catalogue serves, never null when there is one.                         *)
MatchDecided == \A b \in Browsers :
  LET p == prefs[b]
      m == detectBrowserLocale(p)
      served == {i \in DOMAIN p : \E c \in Codes : c[1] = p[i][1]}
      exact == {i \in DOMAIN p : p[i] \in Codes}
      First(S) == p[CHOOSE i \in S : \A j \in S : i <= j]
  IN /\ m = matchLocale(p, Reverse(Declared))
     /\ exact # {} => m = First(exact)
     /\ exact = {} /\ served # {} => m[1] = First(served)[1]
     /\ served = {} => m = None

(* Whatever locale a page is in, a code without a catalogue included, a    *)
(* message the interface asks for is shown as text of that language, of    *)
(* its country, or in English, and never as its key.                       *)
NeverARawKey == \A b \in Browsers, k \in Keys :
  translate(locale[b], k) \notin {"raw key"} \cup
    {catalogs[c]["plain"] : c \in {d \in Codes : d[1] \notin {locale[b][1], "en"}}}

(* README.md:86 "30 languages ship fully translated on both the backend and *)
(* the frontend": no message is shown in English on a page in another      *)
(* language.                                                               *)
FullyTranslated == \A b \in Browsers, k \in Keys :
  locale[b] \in Codes /\ locale[b][1] # "en" => translate(locale[b], k) # "en"
=============================================================================
