------------------------- MODULE MCLanguageServer -------------------------
(* Instances of LanguageServer for TLC. *)
EXTENDS LanguageServer, TLC

CONSTANTS OwnLocale   \* a locale file that the user has

\* A language alone, a language with no locale file, "auto" with a file.
MCSettings ==
    [language : {"en", "zh"}, localeFile : {None}]
    \cup {[language |-> "en", localeFile |-> NoLocale],
          [language |-> None, localeFile |-> OwnLocale]}

Symmetry == Permutations(File) \cup Permutations(Text)
=============================================================================
