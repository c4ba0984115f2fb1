----------------------------- MODULE MCUrlPick -----------------------------
(***************************************************************************)
(* UrlPick on screens of five rows and four columns: the first two rows    *)
(* are any of the texts below, the last three show a URL each or nothing;  *)
(* one URL that wraps twice; and rows with others that cannot be read      *)
(* between them.                                                           *)
(***************************************************************************)
EXTENDS UrlPick

MCAlphabet == <<"o", "c", "q">>

Blank == <<"blank", "blank", "blank", "blank">>
Plain4 == <<"www", "dot", "word", "blank">>
MCRow == { Plain4,
           <<"open",  "https", "sep",   "word">>,   \* may go on in the next row
           <<"word",  "close", "dot",   "blank">>,
           <<"blank", "blank", "quote", "https">>,  \* the prefix itself wraps
           <<"sep",   "word",  "open",  "close">>,
           <<"word",  "www",   "dot",   "word">>,   \* starts in mid-token
           <<"https", "sep",   "dot",   "blank">> } \* no host
MCWraps == {<<"open", "https", "sep", "word">>, <<"blank", "blank", "quote", "https">>}
MCScreen ==
  {<<a, b, c, c, c>> : a \in MCRow, b \in MCRow, c \in {Blank, Plain4}}
    \cup {<< <<"blank", "blank", "quote", "https">>, <<"sep", "word", "open", "close">>,
             <<"word", "close", "dot", "blank">>, Blank, Plain4 >>}
    \cup {<<a, Unread, b, Unread, Plain4>> : a \in MCWraps, b \in MCRow}
=============================================================================
