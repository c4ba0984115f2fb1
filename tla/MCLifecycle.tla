---------------------------- MODULE MCLifecycle ----------------------------
(***************************************************************************)
(* An instance of Lifecycle for TLC: two default keys and a third trigger, *)
(* one default chord, and files that override, add, unbind, bind twice,    *)
(* are malformed or fail.                                                  *)
(***************************************************************************)
EXTENDS Lifecycle

MCBind(k, a) == [from |-> k, to |-> a]
MCDefaultKeys == <<MCBind("a", "tab_new"), MCBind("b", "paste")>>
MCDefaultChords == <<MCBind("b", "tab_next")>>
MCDefaultMenu == <<"symbols">>
MCDefaultExempt == <<1, 2>>
MCDefaultColor == <<1, 2, 3>>
MCDefaultBox == <<1, 2, 3, 4>>
MCBad == MCBind("bad", "bad")

MCSet(k) == MCBind(k, "quit")
MCDrop(k) == MCBind(k, Unbind)
MCKeys == {Absent, <<MCSet("c"), MCBad>>, <<MCSet("a")>>,
           <<MCSet("a"), MCDrop("a")>>, <<MCDrop("a"), MCSet("a")>>, <<MCDrop("a"), MCDrop("b")>>,
           <<MCSet("c"), MCDrop("b")>>, <<MCSet("c"), MCDrop("c")>>}
MCChords == <<MCDrop("b"), MCSet("c"), MCSet("b")>>

MCFails == {[fault |-> "syntax", sets |-> Unset],
            [fault |-> "runtime", sets |-> [Unset EXCEPT !.keys = <<MCSet("a")>>,
                                                         !.chords = MCChords]]}
MCWhole ==
  {[Unset EXCEPT !.keys = k] : k \in MCKeys}
    \cup {[Unset EXCEPT !.menu = m] : m \in {<<"row">>, EmptyMenu}}
    \cup {[Unset EXCEPT !.chords = MCChords, !.exempt = <<NaN>>, !.color = <<7, NaN, 7, 7>>,
                        !.box = <<7, 7, 7, 7, NaN>>],
          [Unset EXCEPT !.chords = <<>>, !.exempt = <<7>>, !.color = <<>>,
                        !.box = <<7, NaN, 7, 7>>]}

MCFile == MCFails \cup [fault : {"none"}, sets : MCWhole]
=============================================================================
