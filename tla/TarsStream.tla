----------------------------- MODULE TarsStream -----------------------------
(***************************************************************************)
(* The streams of the Tars library (tup/Tars.h), as far as the protocols   *)
(* under src/src/comm/proto use them.  A stream is a sequence of items, an *)
(* item has a kind, a tag and, unless it is a mere head, a value.  What an *)
(* item looks like in bytes is left out.                                   *)
(*                                                                         *)
(* A library or program exception leaves a stream Broken; whatever is read *)
(* from it or written to it is lost.                                       *)
(***************************************************************************)
EXTENDS Integers, Sequences

Item(kind, tag, v) == << [kind |-> kind, tag |-> tag, v |-> v] >>
Broken == Item("broken", 0, 0)
IsBroken(is) == is # << >> /\ is[1].kind = "broken"

(* A write behind what was written before; an exception spoils the whole.  *)
Joined(os, items) == IF IsBroken(os) \/ IsBroken(items) THEN Broken
                                                        ELSE os \o items

RECURSIVE Skipped(_), SkippedMany(_, _), SkippedToEnd(_)

(* The stream behind the field it begins with. *)
Skipped(is) ==
    LET rest == Tail(is)
    IN  CASE is[1].kind = "list" -> SkippedMany(Tail(rest), rest[1].v)
          [] is[1].kind = "map" -> SkippedMany(Tail(rest), 2 * rest[1].v)
          [] is[1].kind = "simplelist" -> Tail(Tail(Tail(rest)))
          [] is[1].kind = "struct" -> SkippedToEnd(rest)
          [] OTHER -> rest

SkippedMany(is, n) == IF n = 0 THEN is ELSE SkippedMany(Skipped(is), n - 1)

SkippedToEnd(is) ==
    CASE is = << >> -> Broken
      [] is # << >> /\ is[1].kind = "end" -> Tail(is)
      [] OTHER -> SkippedToEnd(Skipped(is))

(* skipToTag: fields with lower tags are passed over. *)
RECURSIVE SkippedToTag(_, _)
SkippedToTag(is, tag) ==
    IF is = << >> \/ IsBroken(is) \/ is[1].kind = "end" \/ is[1].tag >= tag
    THEN is
    ELSE SkippedToTag(Skipped(is), tag)

AtTag(is, tag) ==
    is # << >> /\ ~ IsBroken(is) /\ is[1].kind # "end" /\ is[1].tag = tag

(* read: the value with the tag, and the default if there is none and none *)
(* is required.  A value of another kind is an exception.                  *)
ReadAt(at, kind, tag, require, default) ==
    CASE IsBroken(at) -> [v |-> default, is |-> Broken]
      [] ~ IsBroken(at) /\ AtTag(at, tag) /\ at[1].kind = kind ->
           [v |-> at[1].v, is |-> Tail(at)]
      [] ~ IsBroken(at) /\ ~ AtTag(at, tag) /\ ~ require ->
           [v |-> default, is |-> at]
      [] OTHER -> [v |-> default, is |-> Broken]

Read(is, kind, tag, require, default) ==
    ReadAt(SkippedToTag(is, tag), kind, tag, require, default)
=============================================================================
