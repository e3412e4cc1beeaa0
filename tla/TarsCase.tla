------------------------------ MODULE TarsCase ------------------------------
(***************************************************************************)
(* How the tars protocol turns a test case, a text, into a request and an  *)
(* answer into a text (src/src/comm/proto/tars_protocol.cpp).              *)
(*                                                                         *)
(* A text is a sequence of words and punctuation marks; blanks around them *)
(* are what trim removes and are left out.  A number is one word.          *)
(***************************************************************************)
EXTENDS TarsStream, FiniteSets
LOCAL INSTANCE SequencesExt

CONSTANT Order      \* Order[w]: the place of the word w among the keys of a map

(* The parts of a text between marks; empty parts are left out (sepstr).   *)
Split(text, mark) ==
    LET step(parts, i) ==
            IF text[i] = mark
            THEN Append(parts, << >>)
            ELSE [parts EXCEPT ![Len(parts)] = Append(@, text[i])]
        parts == FoldLeftDomain(step, << << >> >>, text)
    IN  SelectSeq(parts, LAMBDA part : part # << >>)

Places(text, mark) == {i \in 1 .. Len(text) : text[i] = mark}
Least(S) == CHOOSE i \in S : \A j \in S : i <= j
Greatest(S) == CHOOSE i \in S : \A j \in S : i >= j

(* Marks that are part of a string are replaced while a case is taken      *)
(* apart.                                                                  *)
escapeStr(src) ==
    [i \in 1 .. Len(src) |->
        CASE src[i] = "\\," -> "2C" [] src[i] = "\\<" -> "3C"
          [] src[i] = "\\>" -> "3E" [] OTHER -> src[i]]
unescapeStr(src) ==
    [i \in 1 .. Len(src) |->
        CASE src[i] = "2C" -> "," [] src[i] = "3C" -> "<"
          [] src[i] = "3E" -> ">" [] OTHER -> src[i]]
-----------------------------------------------------------------------------
(* Types *)

Thrown == << "throw" >>     \* a type that no exception handler gets to see

(* What stands between the first < and the last >. *)
getType(type) ==
    IF Places(type, "<") = {} \/ Places(type, ">") = {}
    THEN Thrown
    ELSE SubSeq(type, Least(Places(type, "<")) + 1, Greatest(Places(type, ">")) - 1)

(* How many < are open before place i. *)
Depth(text, i) ==
    Cardinality({k \in Places(text, "<") : k < i})
        - Cardinality({k \in Places(text, ">") : k < i})

(* The last comma outside of all brackets parts the key from the value.    *)
Commas(s) == {i \in Places(s, ",") : i > 1 /\ Depth(s, i) = 0}
Parted(s) == Commas(s) # {} /\ Depth(s, Len(s) + 1) = 0

getMapKey(type) ==
    LET s == getType(type)
    IN  IF Parted(s) THEN SubSeq(s, 1, Greatest(Commas(s)) - 1) ELSE Thrown
getMapValue(type) ==
    LET s == getType(type)
    IN  IF Parted(s) THEN SubSeq(s, Greatest(Commas(s)) + 1, Len(s)) ELSE Thrown

(* strto of a word that is one digit; of any other it is 0.                *)
Digits == <<"1", "2", "3", "4", "5", "6", "7", "8", "9">>
Number(word) == IF \E n \in DOMAIN Digits : Digits[n] = word
                THEN CHOOSE n \in DOMAIN Digits : Digits[n] = word
                ELSE 0

(* A member of a struct may say its tag and whether it must be there.  The *)
(* words are counted before the first <, and of a type that has one only   *)
(* the name is kept.                                                       *)
getField(type, tag, require) ==
    LET opens == {i \in Places(type, "<") : i > 1}
        short_type == IF opens = {} THEN type ELSE SubSeq(type, 1, Least(opens) - 1)
        attr_tag == Number(short_type[1])
    IN  IF Len(short_type) = 3
        THEN [tag |-> IF attr_tag = 0 THEN tag ELSE attr_tag,
              type |-> << short_type[3] >> \o short_type,
              require |-> short_type[2] = "require"]
        ELSE [tag |-> tag, type |-> type, require |-> require]
-----------------------------------------------------------------------------
(* Values *)

(* The elements of an array, the members of a struct or of its type.       *)
getArray(v) ==
    LET step(st, i) ==
            LET item == SubSeq(v, st.pos + 1, i - 1)
            IN  CASE v[i] = "<" ->
                       [st EXCEPT !.pos = IF st.j = 0 THEN i ELSE @, !.j = @ + 1]
                  [] v[i] = ">" ->
                       [st EXCEPT !.ok = @ /\ st.j >= 1, !.j = @ - 1,
                                  !.vs = IF st.j = 1 THEN Append(@, item) ELSE @]
                  [] v[i] = "," /\ st.k = 0 /\ st.j = 1 ->
                       [st EXCEPT !.vs = Append(@, item), !.pos = i]
                  [] v[i] = "[" -> [st EXCEPT !.ok = @ /\ st.j >= 1, !.k = @ + 1]
                  [] v[i] = "]" ->
                       [st EXCEPT !.ok = @ /\ st.k >= 1 /\ st.j >= 1, !.k = @ - 1]
                  [] OTHER -> st
        end == FoldLeftDomain(step, [pos |-> 0, j |-> 0, k |-> 0, ok |-> TRUE,
                                     vs |-> << >>], v)
    IN  [ok |-> end.ok /\ end.j = 0 /\ end.k = 0, vs |-> end.vs]

With(mp, key, val) ==
    [x \in DOMAIN mp \cup {key} |-> IF x = key THEN val ELSE mp[x]]

(* The pairs of a map; of two with one key the last is kept.  Between < and*)
(* > only [ is still counted.                                              *)
getMap(val) ==
    LET step(st, i) ==
            LET item == SubSeq(val, st.pos + 1, i - 1)
            IN  CASE st.done -> st
                  [] ~ st.done /\ val[i] = "[" ->
                       [st EXCEPT !.pos = IF st.j = 0 THEN i ELSE @, !.j = @ + 1]
                  [] ~ st.done /\ val[i] = "]" /\ st.k = 0 ->
                       [st EXCEPT !.ok = @ /\ st.j >= 1, !.j = @ - 1,
                                  !.done = st.j = 1,
                                  !.mp = IF st.j = 1 THEN With(@, st.key, item)
                                                     ELSE @]
                  [] ~ st.done /\ val[i] = "=" /\ st.k = 0 /\ st.j = 1 ->
                       [st EXCEPT !.key = item, !.pos = i]
                  [] ~ st.done /\ val[i] = "," /\ st.k = 0 /\ st.j = 1 ->
                       [st EXCEPT !.mp = With(@, st.key, item), !.pos = i]
                  [] ~ st.done /\ val[i] = "<" ->
                       [st EXCEPT !.ok = @ /\ st.j >= 1, !.k = @ + 1]
                  [] ~ st.done /\ val[i] = ">" ->
                       [st EXCEPT !.ok = @ /\ st.j >= 1 /\ st.k >= 1, !.k = @ - 1]
                  [] OTHER -> st
        end == FoldLeftDomain(step, [pos |-> 0, j |-> 0, k |-> 0, ok |-> TRUE,
                                     key |-> << >>, done |-> FALSE,
                                     mp |-> << >>], val)
    IN  [ok |-> end.ok, mp |-> end.mp]

Place(key) == IF key = << >> THEN 0 ELSE Order[key[1]]
InOrder(keys) == SetToSortSeq(keys, LAMBDA x, y : Place(x) < Place(y))
-----------------------------------------------------------------------------
(* A value in brackets stands for one that is drawn from a range or a list *)
(* each time a request is made (genRandomValue of protocol.h).  The closing*)
(* bracket stays with the last alternative.                                *)
Bracketed(v) == v # << >> /\ v[1] = "[" /\ v[Len(v)] = "]"
Range_(lo, hi) == {<< Digits[n] >> : n \in Number(lo) .. Number(hi)}

genRandomValue(v, is_int) ==
    LET nv == SubSeq(v, 2, Len(v))
        span == Split(nv, "-")
        list == Split(nv, ",")
    IN  CASE ~ Bracketed(v) \/ (Places(v, "-") = {} /\ Places(v, ",") = {}) -> {v}
          [] Bracketed(v) /\ Places(v, "-") # {} /\ is_int ->
               IF Len(span) = 2 THEN Range_(span[1][1], span[2][1]) ELSE {Thrown}
          [] Bracketed(v) /\ (Places(v, "-") = {} \/ ~ is_int)
             /\ Places(v, ",") # {} /\ Len(list) > 1 -> {list[i] : i \in DOMAIN list}
          [] OTHER -> {nv}

(* One that is drawn; a value that is no such list stands for itself.      *)
Drawn(v, is_int) == CHOOSE d \in genRandomValue(v, is_int) : TRUE

(* strto<T>: the first word, a default for none; the rest is not read.     *)
strto(v) == IF v = << >> THEN << "0" >> ELSE << v[1] >>

(* The number types, and the kind of item each is written as.  The number  *)
(* itself decides how wide an integer is written.                          *)
Kind == [bool |-> "integer", byte |-> "integer", short |-> "integer",
         int |-> "integer", long |-> "integer",
         float |-> "float", double |-> "double"]
-----------------------------------------------------------------------------
(* No value can be drawn from a range that is not one. *)
Sent(kind, tag, v) == IF v = Thrown THEN Broken ELSE Item(kind, tag, v)

RECURSIVE encodeAll(_, _, _)
RECURSIVE encode(_, _, _)

(* Elements of a list with type and tag 0 each. *)
encodeAll(type, vs, n) ==
    IF n = 0 THEN << >> ELSE Joined(encodeAll(type, vs, n - 1), encode(type, vs[n], 0))

encodeVector(type, val, tag) ==
    LET vs == getArray(val)
        sub_type == getType(type)
        head == IF sub_type = << "byte" >>
                THEN Item("simplelist", tag, 0) \o Item("char", tag, 0)
                ELSE Item("list", tag, 0)
    IN  IF ~ vs.ok \/ sub_type = Thrown
        THEN Broken
        ELSE Joined(head \o Item("integer", 0, Len(vs.vs)),
                    encodeAll(sub_type, vs.vs, Len(vs.vs)))

(* Mutant of nextTag: members are numbered by their places. *)
nextTagPlace(fields, i) == i - 1

(* The tag of a member that says none: one more than its neighbour's.      *)
nextTag(fields, i) == IF i = 1 THEN 0 ELSE fields[i - 1].tag + 1

Members(vt, require) ==
    LET step(fields, i) ==
            Append(fields, getField(vt[i], nextTag(fields, i), require))
    IN  FoldLeftDomain(step, << >>, vt)

encodeStruct(type, val, tag) ==
    LET vt == getArray(type)
        vv == getArray(val)
        fields == Members(vt.vs, TRUE)
        step(os, i) == Joined(os, encode(fields[i].type, vv.vs[i], fields[i].tag))
    IN  IF ~ vt.ok \/ ~ vv.ok \/ Len(vt.vs) # Len(vv.vs)
        THEN Broken
        ELSE Joined(FoldLeftDomain(step, Item("struct", tag, 0), fields),
                    Item("end", 0, 0))

encodeMap(type, val, tag) ==
    LET map == getMap(val)
        keys == InOrder(DOMAIN map.mp)
        step(os, i) ==
            Joined(os, Joined(encode(getMapKey(type), keys[i], 0),
                              encode(getMapValue(type), map.mp[keys[i]], 1)))
    IN  IF ~ map.ok \/ getMapKey(type) = Thrown
        THEN Broken
        ELSE FoldLeftDomain(step, Item("map", tag, 0)
                                    \o Item("integer", 0, Len(keys)), keys)

encode(type, val, tag) ==
    LET name == type[1]
    IN  CASE type = Thrown -> Broken
          [] name = "void" -> << >>
          [] name \in DOMAIN Kind ->
               Sent(Kind[name], tag,
                    strto(Drawn(val, name \notin {"bool", "float", "double"})))
          [] name = "unsigned" -> encode(Tail(type), val, tag)
          [] name = "string" -> Sent("string", tag, Drawn(unescapeStr(val), FALSE))
          [] name = "vector" -> encodeVector(type, val, tag)
          [] name = "struct" -> encodeStruct(type, val, tag)
          [] name = "map" -> encodeMap(type, val, tag)
          [] OTHER -> Broken
-----------------------------------------------------------------------------
(* What is read back, as a text, and the stream behind it. *)
Got(v, is) == [v |-> v, is |-> is]

(* One value more, with a mark behind it; the last one has the closing mark*)
(* of the whole.                                                           *)
Behind(got, one, mark) == Got(got.v \o one.v \o << mark >>, one.is)
Mark(i, n, close) == IF i = n THEN close ELSE ","
Count(n) == [i \in 1 .. n |-> i]

RECURSIVE decode(_, _, _, _)

(* Values begin where the field with the tag is expected. *)
decodeList(elements, type, require) ==
    LET step(got, i) == Behind(got, decode(got.is, type, 0, require),
                               Mark(i, elements[1].v, ">"))
    IN  FoldLeftDomain(step, Got(<< "<" >>, Tail(elements)), Count(elements[1].v))

decodeVector(at, type, tag, require) ==
    CASE ~ AtTag(at, tag) -> Got(<< >>, at)
      [] AtTag(at, tag) /\ at[1].kind = "list" ->
           decodeList(Tail(at), getType(type), require)
      [] AtTag(at, tag) /\ at[1].kind = "simplelist" ->
           decodeList(Tail(Tail(at)), << "char" >>, require)
      [] OTHER -> Got(<< >>, Tail(at))

decodeMap(at, type, tag, require) ==
    LET value(key, i) == Behind(key, decode(key.is, getMapValue(type), 1, require),
                                Mark(i, at[2].v, "]"))
        step(got, i) ==
            value(Behind(got, decode(got.is, getMapKey(type), 0, require), "="), i)
    IN  CASE ~ AtTag(at, tag) -> Got(<< >>, at)
          [] AtTag(at, tag) /\ at[1].kind = "map" ->
               FoldLeftDomain(step, Got(<< "[" >>, Tail(Tail(at))), Count(at[2].v))
          [] OTHER -> Got(<< >>, Tail(at))

(* What is left of a struct is passed over. *)
Ended(got) == Got(got.v, IF IsBroken(got.is) THEN Broken ELSE SkippedToEnd(got.is))

decodeStruct(at, fields, tag) ==
    LET step(got, i) ==
            Behind(got, decode(got.is, fields[i].type, fields[i].tag,
                               fields[i].require),
                   Mark(i, Len(fields), ">"))
    IN  CASE ~ AtTag(at, tag) -> Got(<< "<" >>, at)
          [] AtTag(at, tag) /\ at[1].kind = "struct" ->
               Ended(FoldLeftDomain(step, Got(<< "<" >>, Tail(at)), fields))
          [] OTHER -> Got(<< "<" >>, Tail(at))

decode(is, type, tag, require) ==
    LET name == type[1]
    IN  CASE type = Thrown -> Got(<< >>, Broken)
          [] name \in DOMAIN Kind \ {"bool"} ->
               Read(is, Kind[name], tag, require, << "0" >>)
          [] name = "string" -> Read(is, "string", tag, require, << >>)
          [] name = "unsigned" -> decode(is, Tail(type), tag, require)
          [] name = "vector" -> decodeVector(SkippedToTag(is, tag), type, tag, require)
          [] name = "map" -> decodeMap(SkippedToTag(is, tag), type, tag, require)
          [] name = "struct" ->
               decodeStruct(SkippedToTag(is, tag),
                            Members(getArray(type).vs, require), tag)
          [] OTHER -> Got(<< >>, is)
-----------------------------------------------------------------------------
(* initialize: the case is the first line of the file, its values are the  *)
(* lines that follow.  Lines that begin with # are comments as long as no  *)
(* value was read.                                                         *)
caseOfFile(lines) ==
    LET step(st, i) ==
            LET ss == lines[i]
            IN  CASE ss = << >> -> st
                  [] ss # << >> /\ ss[1] = "#" /\ st.vals = << >> -> st
                  [] ss # << >> /\ (ss[1] # "#" \/ st.vals # << >>)
                     /\ st.param = << >> -> [st EXCEPT !.param = ss]
                  [] OTHER -> [st EXCEPT !.vals = @ \o ss \o << "\n" >>]
    IN  FoldLeftDomain(step, [param |-> << >>, vals |-> << >>], lines)

(* parseCase: the request, a value for each parameter, with tags from 1.   *)
parseCase(in_param, in_value) ==
    LET _para_list == Split(in_param, "|")
        _para_vals == Split(escapeStr(in_value), "\n")
        step(os, i) == Joined(os, encode(_para_list[i], _para_vals[i], i))
    IN  IF Len(_para_list) # Len(_para_vals)
        THEN Broken
        ELSE FoldLeftDomain(step, << >>, _para_list)

(* The result comes with tag 0; a service that returns none does not send *)
(* it.                                                                     *)
Result(is) == CASE is = << >> -> [v |-> << "0" >>, is |-> Broken]
                [] AtTag(is, 0) -> Read(is, "integer", 0, TRUE, << "0" >>)
                [] OTHER -> [v |-> << "0" >>, is |-> is]

Shown(got, one) == Got(Append(got.v, one.v), one.is)

(* Mutant of shown: the tags of the answer begin with 1. *)
shownFromOne(is, para_input, paralist) ==
    LET ret == Result(is)
        vo == Split(paralist[1], "|")
        step(got, i) == Shown(got, decode(got.is, vo[i], i, FALSE))
    IN  IF paralist = << >>
        THEN Got(<< >>, ret.is)
        ELSE FoldLeftDomain(step, Got(<< ret.v >>, ret.is), vo)

(* AdminImp::test: the result the service returned with tag 0, then the    *)
(* values the answer brings, whose tags are behind those it was asked with.*)
(* Nothing is shown to one who asks for no values.                         *)
shown(is, para_input, paralist) ==
    LET ret == Result(is)
        vi == Split(para_input, "|")
        vo == Split(paralist[1], "|")
        step(got, i) == Shown(got, decode(got.is, vo[i], i + Len(vi), FALSE))
    IN  IF paralist = << >>
        THEN Got(<< >>, ret.is)
        ELSE FoldLeftDomain(step, Got(<< ret.v >>, ret.is), vo)
=============================================================================
