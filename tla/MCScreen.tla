-------------------------------- MODULE MCScreen --------------------------------
(* A small instance of Screen: three channels, of which the last has a URL *)
(* the HTTP client refuses.                                                *)
EXTENDS Screen

MCNames == <<<<"r">>, <<"e", "r">>, <<"e">>>>
MCKeys == {"CtrlC", "Esc", "Enter", "Tab", "Backspace", "Down", "PageUp",
           "q", "?", "/", "f", "F", "r", "e"}
MCPresets == <<"404", "SCTE">>
=============================================================================
