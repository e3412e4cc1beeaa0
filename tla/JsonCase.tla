------------------------------ MODULE JsonCase ------------------------------
(***************************************************************************)
(* How the json protocol turns a test case, a description of the           *)
(* parameters and their values as JSON, into a request, and an answer into *)
(* JSON (src/src/comm/proto/json_protocol.cpp).                            *)
(*                                                                         *)
(* JSON is a tree: [j |-> kind, v |-> content].  The content of an object  *)
(* is a function of names, in a description of triples of tag, name and    *)
(* type.  What the program keeps of a number is the word it was written as.*)
(***************************************************************************)
EXTENDS TarsStream, FiniteSets
LOCAL INSTANCE SequencesExt

CONSTANT NameOrder      \* NameOrder[w]: the place of a name among the keys

(* Values in brackets are drawn as with the tars protocol. *)
LOCAL Values == INSTANCE TarsCase WITH Order <- NameOrder
Drawn(text) == Values!Drawn(text, TRUE)
strto(text) == Values!strto(text)
Sent(kind, tag, v) == Values!Sent(kind, tag, v)
Number(word) == Values!Number(word)

Json(kind, content) == [j |-> kind, v |-> content]
Null == Json("null", 0)
Child(v, name) ==
    IF v.j = "obj" /\ name \in DOMAIN v.v THEN v.v[name] ELSE Null

Integral == {"byte", "short", "int", "long", "bool"}
Numeric == Integral \cup {"float", "double"}
KindOf(type) == IF type \in Integral THEN "integer" ELSE type
-----------------------------------------------------------------------------
(* parseField: the fields of a description in the order of their tags.  A  *)
(* vector has one, a map has two.  The default of a number or a text is    *)
(* given as a text; anything else is an exception (readJson).              *)
BadField == [type |-> "throw"]
IsBad(fields) == \E i \in DOMAIN fields : fields[i].type = "throw"

(* Mutant of byTag: the fields stay as the JSON has them, sorted by name.  *)
byTagName(fields) == SetToSortSeq(fields, LAMBDA l, r : NameOrder[l.name] < NameOrder[r.name])

(* compField *)
byTag(fields) == SetToSortSeq(fields, LAMBDA l, r : l.tag < r.tag)

RECURSIVE parseField(_, _)
parseField(desc, elem_num) ==
    LET inner(attr) ==
            CASE attr.type = "struct" -> parseField(desc.v[attr], -1)
              [] attr.type = "vector" -> parseField(desc.v[attr], 1)
              [] attr.type = "map" -> parseField(desc.v[attr], 2)
              [] OTHER -> << >>
        nested(attr) == attr.type \in {"struct", "vector", "map"}
        bad(attr) == IF nested(attr) THEN IsBad(inner(attr)) ELSE desc.v[attr].j # "str"
        field(attr) ==
            [tag |-> attr.tag, name |-> attr.name,
             type |-> IF bad(attr) THEN "throw" ELSE attr.type,
             child |-> inner(attr),
             defval |-> IF nested(attr) \/ bad(attr) THEN << >> ELSE desc.v[attr].v]
        fields == {field(attr) : attr \in DOMAIN desc.v}
    IN  CASE desc.j # "obj" /\ elem_num = -1 -> << >>
          [] desc.j = "obj" /\ (elem_num = -1 \/ elem_num = Cardinality(fields)) ->
               byTag(fields)
          [] OTHER -> << BadField >>
-----------------------------------------------------------------------------
(* A number may be given as a number or as a text, from which it can be    *)
(* drawn; without one the default of the description is sent, which is     *)
(* read as it stands (WRITENUM).                                           *)
Word(v, defval, kinds) == CASE v.j \notin kinds -> strto(defval)
                            [] v.j \in kinds /\ v.j = "str" -> strto(Drawn(v.v))
                            [] OTHER -> v.v
Fits(v, kinds) == v.j \in kinds \cup {"null"}

RECURSIVE encode(_, _)

(* A byte is a number below 256; in a text it is two hexadecimal digits.   *)
HexDigits == << "0", "1", "2", "3", "4", "5", "6", "7", "8", "9",
                "A", "B", "C", "D", "E", "F" >>
Nibble(digit) == (CHOOSE i \in DOMAIN HexDigits : HexDigits[i] = digit) - 1
str2bin(text) == [i \in 1 .. Len(text) \div 2 |->
                     16 * Nibble(text[2 * i - 1]) + Nibble(text[2 * i])]
bin2str(bytes) == FlattenSeq([i \in DOMAIN bytes |->
                                 << HexDigits[1 + (bytes[i] \div 16)],
                                    HexDigits[1 + (bytes[i] % 16)] >>])

(* Bytes are given as a text or as a list of numbers, where a blank stands *)
(* for one that is null.                                                   *)
Bytes(v) ==
    CASE v.j = "str" -> str2bin(v.v)
      [] v.j = "arr" -> [i \in DOMAIN v.v |-> IF v.v[i].j = "num"
                                              THEN Number(v.v[i].v[1]) ELSE 32]
      [] OTHER -> << >>
BytesFit(v) == v.j = "arr" => \A i \in DOMAIN v.v : Fits(v.v[i], {"num"})

encodeBytes(f, v) ==
    IF BytesFit(v)
    THEN Item("simplelist", f.tag, 0) \o Item("char", f.tag, 0)
            \o Item("integer", 0, Len(Bytes(v))) \o Item("bytes", 0, Bytes(v))
    ELSE Broken

encodeVector(f, v) ==
    LET step(os, i) == Joined(os, encode(f.child[1], v.v[i]))
        elements == IF v.j = "arr" THEN v.v ELSE << >>
    IN  IF f.child[1].type = "byte"
        THEN encodeBytes(f, v)
        ELSE FoldLeftDomain(step, Item("list", f.tag, 0)
                                    \o Item("integer", 0, Len(elements)), elements)

(* Members of a struct that is not there get their defaults.               *)
encodeStruct(f, v) ==
    LET step(os, i) ==
            Joined(os, encode(f.child[i], IF v.j = "obj" THEN Child(v, f.child[i].name)
                                                         ELSE v))
    IN  Joined(FoldLeftDomain(step, Item("struct", f.tag, 0), f.child),
               Item("end", 0, 0))

encodeMap(f, v) ==
    LET pairs == IF v.j = "obj" THEN v.v ELSE << >>
        keys == SetToSortSeq(DOMAIN pairs, LAMBDA l, r : NameOrder[l] < NameOrder[r])
        step(os, i) == Joined(os, Joined(encode(f.child[1], Json("str", << keys[i] >>)),
                                         encode(f.child[2], pairs[keys[i]])))
    IN  FoldLeftDomain(step, Item("map", f.tag, 0)
                                \o Item("integer", 0, Len(keys)), keys)

encode(f, v) ==
    CASE f.type \in Numeric ->
           LET kinds == {"str", IF f.type = "bool" THEN "bool" ELSE "num"}
           IN  IF Fits(v, kinds)
               THEN Sent(KindOf(f.type), f.tag, Word(v, f.defval, kinds))
               ELSE Broken
      [] f.type = "string" ->
           IF Fits(v, {"str"})
           THEN Sent("string", f.tag, Drawn(IF v.j = "str" THEN v.v ELSE f.defval))
           ELSE Broken
      [] f.type = "vector" -> encodeVector(f, v)
      [] f.type = "struct" -> encodeStruct(f, v)
      [] f.type = "map" -> encodeMap(f, v)
      [] OTHER -> << >>

(* parseCase: the request.  The values of the parameters are an object.    *)
parseCase(desc, val) ==
    LET _para_field == parseField(desc, -1)
        step(os, i) == Joined(os, encode(_para_field[i],
                                         Child(val, _para_field[i].name)))
    IN  IF IsBad(_para_field) \/ (_para_field # << >> /\ val.j # "obj")
        THEN Broken
        ELSE FoldLeftDomain(step, << >>, _para_field)
-----------------------------------------------------------------------------
Got(v, is) == [v |-> v, is |-> is]

RECURSIVE decode(_, _)

decodeVector(is, f) ==
    LET at == SkippedToTag(is, f.tag)
        step(got, i) == LET one == decode(got.is, f.child[1])
                        IN  Got(Append(got.v, one.v), one.is)
        list == FoldLeftDomain(step, Got(<< >>, Tail(Tail(at))),
                               [i \in 1 .. at[2].v |-> i])
    IN  CASE ~ AtTag(at, f.tag) -> Got(Json("arr", << >>), at)
          [] AtTag(at, f.tag) /\ at[1].kind = "list" -> Got(Json("arr", list.v), list.is)
          [] AtTag(at, f.tag) /\ at[1].kind = "simplelist" ->
               IF at[2].kind = "char"
               THEN Got(Json("str", bin2str(at[4].v)), SubSeq(at, 5, Len(at)))
               ELSE Got(Json("arr", << >>), Broken)
          [] OTHER -> Got(Json("arr", << >>), Tail(at))

(* A key may be a text or a number. *)
decodeMap(is, f) ==
    LET at == SkippedToTag(is, f.tag)
        step(got, i) ==
            LET key == decode(got.is, f.child[1])
                val == decode(key.is, f.child[2])
                word == key.v.v[1]
            IN  IF key.v.j \in {"num", "str"}
                THEN Got([x \in DOMAIN got.v \cup {word} |->
                            IF x = word THEN val.v ELSE got.v[x]], val.is)
                ELSE Got(got.v, Broken)
        all == FoldLeftDomain(step, Got(<< >>, Tail(Tail(at))),
                              [i \in 1 .. at[2].v |-> i])
    IN  CASE ~ AtTag(at, f.tag) -> Got(Json("obj", << >>), at)
          [] AtTag(at, f.tag) /\ at[1].kind = "map" -> Got(Json("obj", all.v), all.is)
          [] OTHER -> Got(Json("obj", << >>), Tail(at))

decodeStruct(is, f) ==
    LET at == SkippedToTag(is, f.tag)
        step(got, i) ==
            LET one == decode(got.is, f.child[i])
            IN  Got([x \in DOMAIN got.v \cup {f.child[i].name} |->
                        IF x = f.child[i].name THEN one.v ELSE got.v[x]], one.is)
        all == FoldLeftDomain(step, Got(<< >>, Tail(at)), f.child)
    IN  CASE ~ AtTag(at, f.tag) -> Got(Json("obj", << >>), at)
          [] AtTag(at, f.tag) /\ at[1].kind = "struct" ->
               Got(Json("obj", all.v),
                   IF IsBroken(all.is) THEN Broken ELSE SkippedToEnd(all.is))
          [] OTHER -> Got(Json("obj", << >>), Tail(at))

(* A field that is not there is read as nothing of its type (READNUM).     *)
decode(is, f) ==
    LET read(kind, json, default) == LET r == Read(is, kind, f.tag, FALSE, default)
                                     IN  Got(Json(json, r.v), r.is)
    IN  CASE f.type = "bool" -> read("integer", "bool", << "0" >>)
          [] f.type \in Numeric \ {"bool"} -> read(KindOf(f.type), "num", << "0" >>)
          [] f.type = "string" -> read("string", "str", << >>)
          [] f.type = "vector" -> decodeVector(is, f)
          [] f.type = "map" -> decodeMap(is, f)
          [] f.type = "struct" -> decodeStruct(is, f)
          [] OTHER -> Got(Null, Broken)

(* The result comes with tag 0; a service that returns none does not send *)
(* it.                                                                     *)
Result(is) == CASE is = << >> -> [v |-> << "0" >>, is |-> Broken]
                [] AtTag(is, 0) -> Read(is, "integer", 0, TRUE, << "0" >>)
                [] OTHER -> [v |-> << "0" >>, is |-> is]

(* AdminImp::test: the answer as an object, with the result the service    *)
(* returned.  Nothing is shown to one who asks for no values, nor if there *)
(* is an exception.                                                        *)
shown(is, paralist) ==
    LET fields == parseField(paralist[1], -1)
        ret == Result(is)
        step(got, i) ==
            LET one == decode(got.is, fields[i])
            IN  Got([x \in DOMAIN got.v \cup {fields[i].name} |->
                        IF x = fields[i].name THEN one.v ELSE got.v[x]], one.is)
        all == FoldLeftDomain(step, Got(<< >>, ret.is), fields)
        out == [x \in DOMAIN all.v \cup {"tarsret"} |->
                   IF x = "tarsret" THEN Json("num", ret.v) ELSE all.v[x]]
    IN  CASE paralist = << >> -> Null
          [] paralist # << >> /\ (IsBroken(ret.is) \/ IsBad(fields)) -> Null
          [] OTHER -> IF IsBroken(all.is) THEN Null ELSE Json("obj", out)
=============================================================================
