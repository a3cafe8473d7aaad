----------------------------- MODULE MCConsole -----------------------------
(* Two ports and a few formats, one of which does not parse; the parser on  *)
(* every conversion out of % # 0 1 . h l d with parts of up to three.       *)
EXTENDS Console

MCIntMin == -128
MCValues == {0, 13, -7}
MCFormats == {<<97, 37, 100>>, <<37, 35, 120, 97>>, <<97, 37, 37>>, <<37, 49>>}
MCAlphabet == {37, 35, 48, 49, 46, 104, 108, 100}
=============================================================================
