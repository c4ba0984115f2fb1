------------------------------- MODULE UrlPick -------------------------------
(***************************************************************************)
(* The URL picker of url_pick.c: what it finds in the rows on the screen,  *)
(* the labels it gives, and what keys, taps and callers of its action do   *)
(* to it from then on.                                                     *)
(*                                                                         *)
(* A cell of the screen holds one token of text: what tells two texts      *)
(* apart here is which prefix they form, which tokens may be in a URL, and *)
(* which are trimmed from its end.  "https" and "sep" make "https://" (and *)
(* "http://"), "www" and "dot" make "www.".                                *)
(***************************************************************************)
EXTENDS Integers, Sequences, FiniteSets

CONSTANTS
  Rows, Cols,       \* of the layout, within URL_PICK_MAX_ROWS, _COLS
  Screen,           \* what render state of the active tab may show: row -> col -> token
  Alphabet,         \* the letters, in order: labels are made of them
  OpenKey, CopyKey, QrKey, \* 'o', 'c', 'q'
  Escape,           \* KEYCODE_ESCAPE
  OtherKey,         \* a key that is no letter
  NoneDown,         \* no key is down
  MaxMatches,       \* URL_PICK_MAX_MATCHES
  MaxUrlLen,        \* the longest URL a url_match_t holds
  MaxQrLen,         \* the longest URL that fits QR_MAX_VERSION
  MaxPresses        \* bound on the history of presses

Token     == {"https", "sep", "www", "dot", "word", "open", "close", "quote", "blank"}
Unread    == <<>>      \* a row that ghostty_bridge_visit_row failed on
LetterSet == {Alphabet[i] : i \in 1..Len(Alphabet)}

ASSUME PickerAssumption ==
  /\ Rows \in Nat \ {0} /\ Cols \in Nat \ {0}
  /\ Screen \subseteq [1..Rows -> [1..Cols -> Token] \cup {Unread}]
  /\ Alphabet \in Seq(LetterSet) /\ Alphabet # <<>>
  /\ \A i, j \in DOMAIN Alphabet : Alphabet[i] = Alphabet[j] => i = j
  /\ {OpenKey, CopyKey, QrKey} \subseteq LetterSet
  /\ Cardinality({OpenKey, CopyKey, QrKey}) = 3
  /\ {Escape, OtherKey, NoneDown} \cap LetterSet = {}
  /\ Escape # OtherKey /\ NoneDown \notin {Escape, OtherKey}
  /\ MaxMatches \in (Len(Alphabet) + 1)..(Len(Alphabet) * Len(Alphabet))
  /\ MaxUrlLen \in Nat /\ MaxQrLen \in Nat /\ MaxPresses \in 3..100

VARIABLES
  mode,             \* g_mode
  matches,          \* g_matches[0..g_n_matches)
  selected,         \* g_selected + 1
  typed,            \* g_typed_prefix[0..g_typed_len)
  qr,               \* the URL in g_qr_qrcode when g_qr_encoded
  bitmap,           \* the URL g_qr_bitmap was drawn from
  down,             \* the key that is down and repeats
  scanned,          \* history: the screen of the last entry
  presses,          \* history: keys pressed since the last entry
  acted             \* history: what was opened or copied since the last entry

pickVars    == <<mode, matches, selected, typed, qr, bitmap>>
urlPickVars == <<pickVars, down, scanned, presses, acted>>

NoUrl   == <<>>
PickKey == LetterSet \cup {Escape, OtherKey}

-----------------------------------------------------------------------------
(***************************************************************************)
(* Scanning                                                                *)
(***************************************************************************)

\* is_url_char; a cell has content unless it is blank (row_visitor).
UrlToken  == Token \ {"quote", "blank"}
HostToken == {"https", "www", "word"}

\* url_pick_enter's flat buffer: the rows one after the other, a separator
\* after each whose last column is empty. A row that cannot be read is skipped,
\* and leaves no separator either.
Cell(screen, y, x) == [tok |-> screen[y][x], row |-> y, col |-> x]
RowCells(screen, y) ==
  LET cells == [x \in 1..Cols |-> Cell(screen, y, x)]
  IN  IF screen[y] = Unread THEN <<>>
      ELSE IF screen[y][Cols] = "blank"
        THEN Append(cells, [tok |-> "blank", row |-> y, col |-> Cols + 1])
        ELSE cells
Flat(screen) ==
  LET from[y \in 1..(Rows + 1)] ==
        IF y > Rows THEN <<>> ELSE RowCells(screen, y) \o from[y + 1]
  IN  from[1]

Tok(buf, i) == buf[i].tok

\* has_prefix_at: both prefixes are two tokens long.
PrefixLen == 2
HasPrefixInToken(buf, i) ==    \* Faulty variant: also in the middle of a token
  /\ i + PrefixLen - 1 <= Len(buf)
  /\ <<Tok(buf, i), Tok(buf, i + 1)>> \in {<<"https", "sep">>, <<"www", "dot">>}
HasPrefixAt(buf, i) ==
  /\ i + PrefixLen - 1 <= Len(buf)
  /\ <<Tok(buf, i), Tok(buf, i + 1)>> \in {<<"https", "sep">>, <<"www", "dot">>}
  /\ i > 1 => Tok(buf, i - 1) \notin UrlToken

\* One past the run of URL characters that starts at i.
RunEnd(buf, i) ==
  CHOOSE e \in i..(Len(buf) + 1) :
    /\ \A j \in i..(e - 1) : Tok(buf, j) \in UrlToken
    /\ e <= Len(buf) => Tok(buf, e) \notin UrlToken

\* trim_trailing of buf[s..e-1]: one past what is left.
TrimEnd(buf, s, e) ==
  LET drop[k \in s..e] ==
        IF k = s THEN s
        ELSE CASE Tok(buf, k - 1) = "dot"   -> drop[k - 1]
               [] Tok(buf, k - 1) = "close" ->
                    IF \E j \in s..(k - 2) : Tok(buf, j) = "open" THEN k ELSE drop[k - 1]
               [] OTHER -> k
  IN  drop[e]

Text(buf, s, e) == [j \in 1..(e - s) |-> Tok(buf, s + j - 1)]
Scheme          == <<"https", "sep">>

\* What is stored of buf[s..e-1]: "www." gets a scheme.
UrlText(buf, s, e) ==
  IF Tok(buf, s) = "www" THEN Scheme \o Text(buf, s, e) ELSE Text(buf, s, e)

\* scan_buffer's loop body at i: where it goes on, and the match it adds.
Step(buf, i) ==
  LET after == i + PrefixLen
      hosted == after <= Len(buf) /\ Tok(buf, after) \in HostToken
      stop  == RunEnd(buf, after)
      end   == TrimEnd(buf, i, stop)
      url   == UrlText(buf, i, end)
      fits  == end - i > PrefixLen /\ Len(url) <= MaxUrlLen
  IN  IF ~HasPrefixAt(buf, i) THEN [next |-> i + 1, found |-> <<>>]
      ELSE IF ~hosted         THEN [next |-> after, found |-> <<>>]
      ELSE [next  |-> stop,
            found |-> IF fits THEN <<[url |-> url, row |-> buf[i].row, col |-> buf[i].col]>>
                              ELSE <<>>]

ScanUncapped(buf) ==           \* Faulty variant: no URL_PICK_MAX_MATCHES
  LET from[i \in 1..(Len(buf) + PrefixLen)] ==
        IF i > Len(buf) THEN <<>> ELSE Step(buf, i).found \o from[Step(buf, i).next]
  IN  from[1]
ScanBuffer(buf) ==
  LET from[i \in 1..(Len(buf) + PrefixLen)] ==
        IF i > Len(buf) THEN <<>> ELSE Step(buf, i).found \o from[Step(buf, i).next]
      all == from[1]
  IN  SubSeq(all, 1, IF Len(all) < MaxMatches THEN Len(all) ELSE MaxMatches)

\* label_from_index, of the i-th of total
LabelFromIndex(i, total) ==
  IF total <= Len(Alphabet) THEN <<Alphabet[i]>>
  ELSE <<Alphabet[((i - 1) \div Len(Alphabet)) + 1], Alphabet[((i - 1) % Len(Alphabet)) + 1]>>

Labelled(found) ==
  [i \in 1..Len(found) |->
     [url |-> found[i].url, row |-> found[i].row, col |-> found[i].col,
      label |-> LabelFromIndex(i, Len(found))]]

Needed == IF Len(matches) > Len(Alphabet) THEN 2 ELSE 1

-----------------------------------------------------------------------------
(***************************************************************************)
(* The picker's own operations                                             *)
(***************************************************************************)

\* url_pick_exit
Exit ==
  /\ mode' = "inactive" /\ matches' = <<>> /\ selected' = 0 /\ typed' = <<>>
  /\ qr' = NoUrl /\ bitmap' = NoUrl

\* Faulty variant: the picker that is up is not dismissed first
EnterOver(s) ==
  LET found == ScanBuffer(Flat(s))
  IN  IF found = <<>> THEN Exit
      ELSE mode' = "hint" /\ matches' = Labelled(found) /\ UNCHANGED <<selected, typed, qr, bitmap>>

\* url_pick_enter, called with the screen s: whatever was up goes first.
Enter(s) ==
  LET found == ScanBuffer(Flat(s))
  IN  IF found = <<>> THEN Exit
      ELSE /\ mode' = "hint" /\ matches' = Labelled(found)
           /\ selected' = 0 /\ typed' = <<>> /\ qr' = NoUrl /\ bitmap' = NoUrl

\* handle_hint_key: a full prefix picks the first match with that label, or
\* starts over.
HintKey(k) ==
  LET full == Append(IF Len(typed) >= Needed THEN <<>> ELSE typed, k)
      hits == {i \in 1..Len(matches) : matches[i].label = full}
  IN  /\ IF Len(full) < Needed
           THEN typed' = full /\ UNCHANGED <<mode, selected>>
           ELSE /\ typed' = <<>>
                /\ IF hits = {} THEN UNCHANGED <<mode, selected>>
                   ELSE /\ selected' = CHOOSE i \in hits : \A j \in hits : i <= j
                        /\ mode' = "action"
      /\ UNCHANGED <<matches, qr, bitmap>>

SelectedUrl == matches[selected].url

\* build_qr and what handle_action_key makes of its result: a URL that does
\* not fit a code dismisses the picker.
ShowQr ==
  IF Len(SelectedUrl) > MaxQrLen THEN Exit
  ELSE /\ qr' = SelectedUrl /\ bitmap' = NoUrl /\ mode' = "qr"
       /\ UNCHANGED <<matches, selected, typed>>

\* handle_action_key; opening and copying dismiss the picker whether or not
\* they succeed.
ActionKey(k) ==
  IF k = QrKey THEN ShowQr
  ELSE IF k \in {OpenKey, CopyKey} THEN Exit
  ELSE UNCHANGED pickVars

\* Faulty variant: a repeat is a press like any other
HandleHeldKey(k, repeat) ==
  CASE mode = "inactive" -> UNCHANGED pickVars
    [] mode # "inactive" /\ (k = Escape \/ mode = "qr") -> Exit
    [] mode = "hint" /\ k \in LetterSet -> HintKey(k)
    [] mode = "action" /\ k \in LetterSet -> ActionKey(k)
    [] OTHER -> UNCHANGED pickVars

\* url_pick_handle_key, of a key event that is a repeat or not
PickHandleKey(k, repeat) ==
  CASE mode = "inactive" \/ repeat -> UNCHANGED pickVars
    [] mode # "inactive" /\ ~repeat /\ (k = Escape \/ mode = "qr") -> Exit
    [] mode = "hint" /\ ~repeat /\ k \in LetterSet -> HintKey(k)
    [] mode = "action" /\ ~repeat /\ k \in LetterSet -> ActionKey(k)
    [] OTHER -> UNCHANGED pickVars

-----------------------------------------------------------------------------
(***************************************************************************)
(* Events.  Presses and repeats of keys reach the picker only while it is  *)
(* up (app_handle_event); other keys it has no part in.                    *)
(***************************************************************************)

\* What the history records of a key event that PickHandleKey has handled.
Recorded(k, repeat) ==
  /\ presses' = IF repeat \/ mode = "inactive" \/ presses = MaxPresses
                  THEN presses ELSE presses + 1
  /\ acted' = IF mode = "action" /\ mode' = "inactive" /\ k \in {OpenKey, CopyKey}
                THEN [key |-> k, url |-> SelectedUrl, presses |-> presses']
                ELSE acted
  /\ UNCHANGED scanned

PickPress(k) ==
  /\ down = NoneDown
  /\ down' = k
  /\ PickHandleKey(k, FALSE) /\ Recorded(k, FALSE)

PickRepeat ==
  /\ down # NoneDown
  /\ PickHandleKey(down, TRUE) /\ Recorded(down, TRUE)
  /\ UNCHANGED down

\* A release is dropped by app_handle_key.
PickRelease ==
  /\ down # NoneDown
  /\ down' = NoneDown
  /\ UNCHANGED <<pickVars, scanned, presses, acted>>

\* TERM_BUILTIN_URL_PICK, from a key, a gesture, Lua or the control socket:
\* the latter two do not look whether the picker is up already.
Invoke(s) ==
  /\ Enter(s)
  /\ scanned' = s /\ presses' = 0 /\ acted' = NoUrl
  /\ UNCHANGED down

\* A TOUCH_DOWN, while the picker is up, dismisses it; so does app_shutdown.
Tap ==
  /\ mode # "inactive"
  /\ Exit
  /\ UNCHANGED <<down, scanned, presses, acted>>

\* url_pick_render in QR mode: the bitmap is drawn once. No memory, and the
\* next frame tries again.
RenderQr ==
  /\ mode = "qr" /\ bitmap = NoUrl
  /\ bitmap' \in {qr, NoUrl}
  /\ UNCHANGED <<mode, matches, selected, typed, qr, down, scanned, presses, acted>>

PickInit ==
  /\ mode = "inactive" /\ matches = <<>> /\ selected = 0 /\ typed = <<>>
  /\ qr = NoUrl /\ bitmap = NoUrl /\ down = NoneDown
  /\ scanned \in Screen /\ presses = 0 /\ acted = NoUrl

PickNext ==
  \/ \E k \in PickKey : PickPress(k)
  \/ PickRepeat \/ PickRelease
  \/ \E s \in Screen : Invoke(s)
  \/ Tap
  \/ RenderQr

PickSpec == PickInit /\ [][PickNext]_urlPickVars

-----------------------------------------------------------------------------
(***************************************************************************)
(* The URLs a screen shows, without a scan                                 *)
(***************************************************************************)

\* What trails a URL and is no part of it: a stop, and a closer whose opener
\* is not inside.
Trailing(buf, s, j) ==
  \/ Tok(buf, j) = "dot"
  \/ Tok(buf, j) = "close" /\ \A i \in s..(j - 1) : Tok(buf, i) # "open"

\* buf[s..e] is a whole URL: a prefix that no token runs into, a host, and
\* as much of the run as does not trail.
IsUrl(buf, s, e) ==
  /\ <<Tok(buf, s), Tok(buf, s + 1)>> \in {<<"https", "sep">>, <<"www", "dot">>}
  /\ s = 1 \/ Tok(buf, s - 1) \in {"quote", "blank"}
  /\ Tok(buf, s + 2) \in HostToken
  /\ \A j \in s..e : Tok(buf, j) \notin {"quote", "blank"}
  /\ ~Trailing(buf, s, e)
  /\ \E stop \in e..Len(buf) :
       /\ \A j \in (e + 1)..stop : Trailing(buf, s, j)
       /\ stop = Len(buf) \/ Tok(buf, stop + 1) \in {"quote", "blank"}

UrlSpans(buf) ==
  {x \in (1..Len(buf)) \X (1..Len(buf)) :
     /\ x[1] + PrefixLen <= x[2]
     /\ IsUrl(buf, x[1], x[2])
     /\ Len(UrlText(buf, x[1], x[2] + 1)) <= MaxUrlLen}

UrlsOn(screen) == LET buf == Flat(screen) IN {UrlText(buf, x[1], x[2] + 1) : x \in UrlSpans(buf)}

(***************************************************************************)
(* Properties                                                              *)
(***************************************************************************)

\* Every variable has its type.
PickTypeOK ==
  /\ mode \in {"inactive", "hint", "action", "qr"}
  /\ DOMAIN matches \subseteq 1..MaxMatches
  /\ selected \in 0..Len(matches)
  /\ Len(typed) <= 2 /\ \A i \in 1..Len(typed) : typed[i] \in LetterSet
  /\ down \in PickKey \cup {NoneDown}
  /\ scanned \in Screen
  /\ presses \in 0..MaxPresses

\* While the picker waits for a label, each URL that can be seen on the scanned
\* screen, up to the cap, has one, at the cell where it starts, and no two have
\* the same or one that begins another: every URL can be picked, and nothing
\* else.
EveryUrlSelectable ==
  mode # "inactive" =>
    LET buf   == Flat(scanned)
        spans == UrlSpans(buf)
        First(n) == {x \in spans : Cardinality({y \in spans : y[1] < x[1]}) < n}
        Shown(x) == [url |-> UrlText(buf, x[1], x[2] + 1),
                     row |-> buf[x[1]].row, col |-> buf[x[1]].col]
        Plain(m) == [url |-> m.url, row |-> m.row, col |-> m.col]
    IN  /\ {Plain(matches[i]) : i \in DOMAIN matches} = {Shown(x) : x \in First(MaxMatches)}
        /\ \A i \in DOMAIN matches :
             /\ Len(matches[i].label) = Needed
             /\ \A j \in DOMAIN matches \ {i} : matches[i].label # matches[j].label

\* What is opened or copied is a whole URL of the screen the picker was
\* entered on, however long the entry was ago, and never by keys held down:
\* as many presses as the label has letters came before the one that acts.
ActsOnShownUrl ==
  acted # NoUrl =>
    /\ acted.url \in UrlsOn(scanned)
    /\ acted.presses > (IF Cardinality(UrlSpans(Flat(scanned))) > Len(Alphabet) THEN 2 ELSE 1)

\* Nothing of an earlier pick is left over: a code is up only for the URL
\* selected now, no label begun outlives its mode, and a dismissed picker
\* holds nothing.
PickerForgets ==
  /\ bitmap # NoUrl => bitmap = qr
  /\ qr # NoUrl => mode = "qr"
  /\ mode = "qr" => qr = SelectedUrl
  /\ mode \in {"inactive", "hint"} <=> selected = 0
  /\ mode # "hint" => typed = <<>>
  /\ mode = "inactive" <=> matches = <<>>
  /\ Len(typed) < Needed
=============================================================================
