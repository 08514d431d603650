------------------------------- MODULE Catalogue -------------------------------
(***************************************************************************)
(* The reference programs that uhat_identify.py compares a language with:  *)
(* small B-RASP programs, each named for the words it should accept.  An   *)
(* entry is a name with the letters it is about.                           *)
(***************************************************************************)
EXTENDS Brasp

About(name, letters) == [name |-> name, letters |-> letters]

Entries(alphabet) ==
    LET letters == {alphabet[k] : k \in DOMAIN alphabet}
    IN  {About(name, <<>>) : name \in {"empty", "universal"}}
        \cup {About(name, <<x>>) : x \in letters,
                name \in {"last", "not_last", "contains", "no", "first_is", "prev_is"}}
        \cup {About(name, <<x, y>>) : x \in letters, y \in letters, name \in {"ends", "before"}}

Is(letter, at) == Ref("is_" \o letter, at)

Attending(stem, letter, direction, score, value) == Attention(stem \o "_" \o letter, direction, score, value)
Used(attention) == Ref(attention.name, "i")

\* The subprograms of an entry above the indicators, and its output.
Body(entry) ==
    LET x == entry.letters[1]
        y == entry.letters[2]
        true == Const(TRUE)
        seen == Attending("seen", x, "rightmost", Is(x, "j"), true)
        first == Attending("first", x, "leftmost", Not(Ref("is_bos", "j")), Is(x, "j"))
        prev == Attending("prev", x, "rightmost", true, Is(x, "j"))
        before == Attending("p", x, "rightmost", true, Is(x, "j"))
        earlier == Attending("sx", x, "rightmost", Is(x, "j"), true)
        atY == BoolNode("aty_" \o x \o y, Conjunction(<<Is(y, "i"), Used(earlier)>>))
        anyY == Attention("anyy_" \o x \o y, "rightmost", Ref(atY.name, "j"), true)
    IN  CASE entry.name = "empty" -> [above |-> <<>>, accept |-> Const(FALSE)]
          [] entry.name = "universal" -> [above |-> <<>>, accept |-> Const(TRUE)]
          [] entry.name = "last" -> [above |-> <<>>, accept |-> Is(x, "i")]
          [] entry.name = "not_last" -> [above |-> <<>>, accept |-> Not(Is(x, "i"))]
          [] entry.name = "contains" ->
                [above |-> <<seen>>, accept |-> Disjunction(<<Is(x, "i"), Used(seen)>>)]
          [] entry.name = "no" ->
                [above |-> <<seen>>, accept |-> Conjunction(<<Not(Is(x, "i")), Not(Used(seen))>>)]
          [] entry.name = "first_is" ->
                [above |-> <<first>>,
                 accept |-> Disjunction(<<Used(first), Conjunction(<<Ref("is_bos", "i"), Is(x, "i")>>)>>)]
          [] entry.name = "prev_is" -> [above |-> <<prev>>, accept |-> Used(prev)]
          [] entry.name = "ends" ->
                [above |-> <<before>>, accept |-> Conjunction(<<Is(y, "i"), Used(before)>>)]
          [] entry.name = "before" ->
                [above |-> <<earlier, atY, anyY>>, accept |-> Disjunction(<<Used(atY), Used(anyY)>>)]

CatalogueProgram(entry, alphabet) ==
    Program(<<Bos("is_bos")>> \o [k \in DOMAIN alphabet |-> Symbol("is_" \o alphabet[k], alphabet[k])]
                \o Body(entry).above \o <<BoolNode("accept", Body(entry).accept)>>,
            "accept", alphabet)

=============================================================================
