------------------------------ MODULE MCLocale ------------------------------
(* A browser with one of the preference lists below; other                 *)
(* browsers and administrators act on it through the global setting.       *)
EXTENDS Locale

MCPrefsOf == [b \in {"b1"} |->
  { << <<"nl">> >>, << <<"es","co">> >>, << <<"en","ie">> >>, << <<"zh","hk">> >>,
    << <<"cs">> >>, << <<"qq","qq">> >>, << <<"de">>, <<"de","ch">> >>,
    << <<"qq","qq">>, <<"es","co">> >>, << <<"qq","qq">>, <<"zh">>, <<"cs">> >> }]
MCSettings == { <<"de","de">>, <<"af","za">> }
MCUnpopulated == { <<"af","za">> }
=============================================================================
