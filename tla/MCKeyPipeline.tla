--------------------------- MODULE MCKeyPipeline ---------------------------
(***************************************************************************)
(* KeyPipeline with the shipped bindings, cut down to one key of each kind *)
(* (preferences.c).  "v" is the key whose alt glyph "?" is bound in        *)
(* metamode, as is the key itself; "n" switches tabs; "k" is sticky.       *)
(***************************************************************************)
EXTENDS KeyPipeline

MCKey == {"sym", "alt", "rshift", "caps", "a", "k", "n", "v", "space", "enter"}
MCCtrlKey == {"caps"}
MCLetters == {"a", "k", "n", "v"}
MCAccented == {"a", "n"}
MCMod == {{}, {"alt"}}
Entry(to, sticky) == [to |-> to, sticky |-> sticky]
MCMetaTable ==
  [x \in {"k", "n", "v", "?"} |->
     CASE x = "k" -> Entry("bytes", TRUE) [] x = "n" -> Entry("tab_next", FALSE)
       [] x = "v" -> Entry("other", FALSE) [] x = "?" -> Entry("help_overlay", FALSE)]
MCAltTable == [x \in {"a", "v"} |-> IF x = "v" THEN "?" ELSE "*"]
MCMenuTable == [m \in {"main", "a", "k", "n", "v"} |-> {"a", "k"}]
MCChords == << [key |-> "alt",   mods |-> {"shift"}, to |-> "ctrl_down"],
               [key |-> "sym",   mods |-> {"shift"}, to |-> "metamode_toggle"],
               [key |-> "enter", mods |-> {"alt"},   to |-> "bytes"] >>
MCExempt == {"enter"}
MCScripted == {"bytes", "tab_next", "url_pick"}
=============================================================================
