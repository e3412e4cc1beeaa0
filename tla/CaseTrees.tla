----------------------------- MODULE CaseTrees -----------------------------
(***************************************************************************)
(* What a test case means.  A type is a tree, a value of it is one of      *)
(* three variants; from the tree follow the texts a user writes for the    *)
(* tars protocol, the JSON written for the json protocol, the items both   *)
(* must come to on the wire (the Tars encoding of such a value), and what  *)
(* is to be shown of it in an answer.                                      *)
(***************************************************************************)
EXTENDS Integers, Sequences
LOCAL INSTANCE SequencesExt

Leaf(name) == [k |-> name]
Unsigned(t) == [k |-> "unsigned", of |-> t]
Vector(t) == [k |-> "vector", of |-> t]
Map(key, val) == [k |-> "map", key |-> key, val |-> val]
Member(tag, t) == [tag |-> tag, t |-> t]    \* tag 0: none is said
Struct(ms) == [k |-> "struct", ms |-> ms]

Variants == 1 .. 3
Plus(n, i) == ((n + i - 1) % 3) + 1     \* another variant

IsText(t) == t.k = "string"
ItemKind(t) == CASE t.k \in {"float", "double"} -> t.k
                 [] t.k = "string" -> "string"
                 [] OTHER -> "integer"

(* The tag of member i of a struct: what it says, or one more than the     *)
(* member's before it.                                                     *)
TagOf(ms) ==
    LET tag[i \in 0 .. Len(ms)] == CASE i = 0 -> -1
                                     [] i > 0 /\ ms[i].tag > 0 -> ms[i].tag
                                     [] OTHER -> tag[i - 1] + 1
    IN  tag

(* Texts with marks between the parts. *)
Listed(parts, mark) ==
    LET step(text, i) == text \o (IF i = 1 THEN << >> ELSE << mark >>) \o parts[i]
    IN  FoldLeftDomain(step, << >>, parts)
Between(open, parts, close) == << open >> \o Listed(parts, ",") \o << close >>

(* A number; a text, which may hold any mark. *)
Word(t, n) ==
    IF IsText(t) THEN << << "a" >>, << "b", ",", "b" >>, << "c", ">", "<" >> >>[n]
                 ELSE << << "1" >>, << "2" >>, << "3" >> >>[n]

(* The bytes of a list, and how they are written in hexadecimal digits. *)
Octets == << [is |-> 1, hex |-> << "0", "1" >>], [is |-> 32, hex |-> << "2", "0" >>],
             [is |-> 195, hex |-> << "C", "3" >>] >>

(* The first n keys of a map; a key is one word. *)
MapKey(t, i) == SubSeq(Word(t, i), 1, 1)
-----------------------------------------------------------------------------
(* The items on the wire. *)
It(kind, tag, v) == << [kind |-> kind, tag |-> tag, v |-> v] >>

RECURSIVE Wire(_, _, _)
Wire(t, n, tag) ==
    CASE t.k = "unsigned" -> Wire(t.of, n, tag)
      [] t.k = "vector" /\ t.of.k = "byte" ->
           It("simplelist", tag, 0) \o It("char", 0, 0) \o It("integer", 0, n)
             \o It("bytes", 0, [i \in 1 .. n |-> Octets[i].is])
      [] t.k = "vector" /\ t.of.k # "byte" ->
           It("list", tag, 0) \o It("integer", 0, n)
             \o FlattenSeq([i \in 1 .. n |-> Wire(t.of, Plus(n, i), 0)])
      [] t.k = "map" ->
           It("map", tag, 0) \o It("integer", 0, n)
             \o FlattenSeq([i \in 1 .. n |-> It(ItemKind(t.key), 0, MapKey(t.key, i))
                                               \o Wire(t.val, Plus(n, i), 1)])
      [] t.k = "struct" ->
           It("struct", tag, 0)
             \o FlattenSeq([i \in DOMAIN t.ms |->
                               Wire(t.ms[i].t, Plus(n, i), TagOf(t.ms)[i])])
             \o It("end", 0, 0)
      [] OTHER -> It(ItemKind(t), tag, Word(t, n))
-----------------------------------------------------------------------------
(* A case of the tars protocol. *)

RECURSIVE TypeText(_)
TypeText(t) ==
    CASE t.k = "unsigned" -> << "unsigned" >> \o TypeText(t.of)
      [] t.k = "vector" -> << "vector" >> \o Between("<", << TypeText(t.of) >>, ">")
      [] t.k = "map" ->
           << "map" >> \o Between("<", << TypeText(t.key), TypeText(t.val) >>, ">")
      [] t.k = "struct" ->
           << "struct" >>
             \o Between("<", [i \in DOMAIN t.ms |->
                                 (IF t.ms[i].tag = 0 THEN << >>
                                  ELSE Word(Leaf("int"), t.ms[i].tag) \o << "require" >>)
                                 \o TypeText(t.ms[i].t)], ">")
      [] OTHER -> << t.k >>

(* Marks in a text are written with a backslash. *)
Escaped(text) == [i \in DOMAIN text |-> CASE text[i] = "," -> "\\,"
                                          [] text[i] = "<" -> "\\<"
                                          [] text[i] = ">" -> "\\>"
                                          [] OTHER -> text[i]]

(* As it is written in a case, and as it is shown in an answer.            *)
RECURSIVE Spelled(_, _, _)
Spelled(t, n, answer) ==
    CASE t.k = "unsigned" -> Spelled(t.of, n, answer)
      [] t.k = "vector" ->
           Between("<", [i \in 1 .. n |-> Spelled(t.of, Plus(n, i), answer)], ">")
      [] t.k = "map" ->
           Between("[", [i \in 1 .. n |-> MapKey(t.key, i) \o << "=" >>
                                            \o Spelled(t.val, Plus(n, i), answer)], "]")
      [] t.k = "struct" ->
           Between("<", [i \in DOMAIN t.ms |-> Spelled(t.ms[i].t, Plus(n, i), answer)],
                   ">")
      [] OTHER -> IF answer THEN Word(t, n) ELSE Escaped(Word(t, n))

-----------------------------------------------------------------------------
(* A case of the json protocol. *)
Node(kind, content) == [j |-> kind, v |-> content]
Attr(tag, name, t) == [tag |-> tag, name |-> name, type |-> t.k]

(* Names whose order is not that of the tags. *)
Names == << "z", "y", "x", "w" >>

(* A description of members; a leaf has its first variant as the default,  *)
(* which is always written as a text.                                      *)
RECURSIVE Described(_)
Described(t) ==
    LET of(ms) == [a \in {Attr(ms[i].tag, Names[i], ms[i].t) : i \in DOMAIN ms} |->
                      LET m == CHOOSE i \in DOMAIN ms : Names[i] = a.name
                      IN  Described(ms[m].t)]
    IN  CASE t.k = "vector" -> Node("obj", of(<< Member(0, t.of) >>))
          [] t.k = "map" -> Node("obj", of(<< Member(0, t.key), Member(1, t.val) >>))
          [] t.k = "struct" ->
               Node("obj", of([i \in DOMAIN t.ms |->
                                  Member(TagOf(t.ms)[i], t.ms[i].t)]))
          [] OTHER -> Node("str", Word(t, 1))

IsLeaf(t) == t.k \notin {"vector", "map", "struct"}

(* A value; a member that is given its default may be left out, and a      *)
(* number may be written as a text.  Bytes are a text of hexadecimal digits*)
(* or a list, in which a blank may be left out: null.  In an answer nothing*)
(* is left out.                                                            *)
RECURSIVE Valued(_, _, _)
Valued(t, n, answer) ==
    LET key(i) == MapKey(t.key, i)[1]
        left == {i \in DOMAIN t.ms : IsLeaf(t.ms[i].t) /\ Plus(n, i) = 1 /\ ~ answer}
        kept == {Names[i] : i \in DOMAIN t.ms \ left}
    IN  CASE t.k = "vector" /\ t.of.k = "byte" ->
               IF n = 2 /\ ~ answer
               THEN Node("arr", << Node("num", Word(t.of, 1)), Node("null", 0) >>)
               ELSE Node("str", FlattenSeq([i \in 1 .. n |-> Octets[i].hex]))
          [] t.k = "vector" /\ t.of.k # "byte" ->
               Node("arr", [i \in 1 .. n |-> Valued(t.of, Plus(n, i), answer)])
          [] t.k = "map" ->
               Node("obj", [w \in {key(i) : i \in 1 .. n} |->
                               LET i == CHOOSE i \in 1 .. n : key(i) = w
                               IN  Valued(t.val, Plus(n, i), answer)])
          [] t.k = "struct" ->
               Node("obj", [w \in kept |->
                               LET i == CHOOSE i \in DOMAIN t.ms : Names[i] = w
                               IN  Valued(t.ms[i].t, Plus(n, i), answer)])
          [] IsText(t) \/ (n = 2 /\ ~ answer) -> Node("str", Word(t, n))
          [] OTHER -> Node(IF t.k = "bool" THEN "bool" ELSE "num", Word(t, n))
=============================================================================
