---------------------------- MODULE MCProtocols ----------------------------
(***************************************************************************)
(* What a user gives and gets, checked on small instances of three kinds:  *)
(* the bytes of a connection in any pieces (Framing), a test case and the  *)
(* answer to it (TarsCase and JsonCase, against CaseTrees), and the figures*)
(* of a number of calls (Figures).  In a behaviour of one kind the state of*)
(* the others stays as it is.                                              *)
(***************************************************************************)
EXTENDS Framing, CaseTrees, Figures

VARIABLE
    form        \* the types of a case's parameters and of what is answered, and
                \* the variant of their values
mcVars == <<framingVars, form, queries>>

Words == << "1", "2", "3", "a", "b", "c", "w", "x", "y", "z" >>
Alphabet == [w \in {Words[i] : i \in DOMAIN Words} |->
                CHOOSE i \in DOMAIN Words : Words[i] = w]

Tars == INSTANCE TarsCase WITH Order <- Alphabet
JSON == INSTANCE JsonCase WITH NameOrder <- Alphabet
-----------------------------------------------------------------------------
(* What servers answer on a connection. *)
Answers ==
    [p \in {"tars", "json", "http"} |->
        IF p = "http"
        THEN {<< Sized(200, 1), Sized(404, 2) >>, << Sized(301, 0) >>,
              << Chunked(1), Chunked(2) >>}
        ELSE {<< Packet(1, 0), Packet(2, 2), Packet(3, 0) >>,
              << Packet(1, 2), Packet(1, 1) >>}]

(* The types of cases: numbers and texts, lists, maps and structs of them, *)
(* and what can be in one another.  A member of a struct may say its tag.  *)
Number == Leaf("int")
Text == Leaf("string")
Pairs == {Struct(<< Member(0, t), Member(0, Number) >>) : t \in {Number, Text}}
Flat == {Number, Text, Leaf("double")}
          \cup {Vector(t) : t \in {Number, Text}}
          \cup {Map(k, t) : k \in {Number, Text}, t \in {Number, Text}}
          \cup Pairs
Nested == {Vector(t) : t \in Pairs \cup {Map(Text, Number), Vector(Text)}}
            \cup {Map(Number, t) : t \in Pairs \cup {Vector(Number)}}
            \cup {Struct(<< Member(0, Vector(Text)), Member(3, Number),
                            Member(0, Map(Text, Text)), Member(0, t) >>)
                     : t \in Pairs \cup {Text}}
OnlyTars == {Unsigned(Number),
             Struct(<< Member(1, Number), Member(0, Unsigned(Number)) >>)}
OnlyJson == {Leaf("bool"), Vector(Leaf("byte")),
             Struct(<< Member(0, Leaf("bool")), Member(0, Vector(Leaf("byte"))) >>)}
Types(p) == Flat \cup Nested \cup IF p = "tars" THEN OnlyTars ELSE OnlyJson

Form(p, in, out, n) == [p |-> p, in |-> in, out |-> out, n |-> n]
Forms ==
    UNION {{Form(p, << s, t >>, << t, Number >>, n) : s \in {Text, Vector(Number)},
                                                     t \in Types(p), n \in Variants}
             : p \in {"tars", "json"}}

(* Calls that succeed, fail and are late, with times at the limits, and an *)
(* error of a socket; two batches taken by one query or by one each, and   *)
(* single batches of two calls.  Two different failures are too long for a *)
(* slot.                                                                   *)
SomeCalls == [ret : {0, -12, 404}, cost : {9, 10, 5000}]
Batch(n, errors) == [sent : {n, n + 1}, calls : [1 .. n -> SomeCalls],
                     errors : errors]
Small(errors) == Batch(0, errors) \cup Batch(1, errors)
None == {<< >>}
Some == None \cup {<< -12 >>}
Queries == {<< << b >> >> : b \in Batch(2, Some)}
             \cup {<< << b, c >> >> : b \in Small(None), c \in Small(Some)}
             \cup {<< << b >>, << c, d >> >> : b \in Small(None), c \in Small(None),
                                               d \in Batch(0, Some)}
-----------------------------------------------------------------------------
NoForm == << >>
NoQueries == << >>

Idle ==
    /\ proto = "none" /\ answers = << >> /\ received = 0
    /\ _recvBuffer = << >> /\ handed = << >> /\ processing = FALSE /\ overrun = FALSE
    /\ asked = 0 /\ encoded = << >> /\ _sendBuffer = << >> /\ wire = << >>
    /\ closed = 0

MCInit ==
    \/ Init /\ form = NoForm /\ queries = NoQueries
    \/ Idle /\ form \in Forms /\ queries = NoQueries
    \/ Idle /\ form = NoForm /\ queries \in Queries

MCNext == proto # "none" /\ Next /\ UNCHANGED <<form, queries>>

MCSpec == MCInit /\ [][MCNext]_mcVars
-----------------------------------------------------------------------------
(* The parameters as members of a struct with tags behind those before.    *)
Params(ts, before) == Struct([i \in DOMAIN ts |-> Member(before + i, ts[i])])
Body(items) == SubSeq(items, 2, Len(items) - 1)

Asked == Params(form.in, 0)
Request == Body(Wire(Asked, form.n, 0))

(* The service returns 3, repeats the first parameter and answers the rest.*)
Told == Params(form.out, Len(form.in))
Answer == It("integer", 0, << "3" >>) \o Wire(form.in[1], form.n, 1)
            \o Body(Wire(Told, form.n, 0))

Bars(ts) == Listed([i \in DOMAIN ts |-> TypeText(ts[i])], "|")

(* A number may be drawn from a range or a list. *)
Value(i) ==
    LET n == Plus(form.n, i)
        value == Spelled(form.in[i], n, FALSE)
        range == << "[" >> \o value \o << "-" >> \o value \o << "]" >>
        list == << "[" >> \o value \o << "," >> \o value \o << "]" >>
    IN  IF form.in[i] = Number THEN << value, range, list >>[n] ELSE value
File == << << "#", "a" >>, << >>, Bars(form.in), << "#" >>,
           Value(1), << >>, Value(2) >>

(* A case that describes parameters of Types("tars") in the language of the*)
(* tars protocol becomes the items that the Tars encoding has for their    *)
(* values: each under its tag, lists and maps with their lengths, marks in *)
(* texts as themselves (initialize, parseCase and encode of                *)
(* tars_protocol.cpp).                                                     *)
TarsRequest ==
    form # NoForm /\ form.p = "tars" =>
        LET case == Tars!caseOfFile(File)
        IN  Tars!parseCase(case.param, case.vals) = Request

(* What a service answers is shown as it is written in a case, behind what *)
(* it returned, though it may send parameters nobody asked for             *)
(* (AdminImp::test and decode of tars_protocol.cpp).                       *)
TarsAnswer ==
    form # NoForm /\ form.p = "tars" =>
        LET got == Tars!shown(Answer, Bars(form.in), << Bars(form.out) >>)
        IN  /\ got.v = << << "3" >> >>
                         \o [i \in DOMAIN form.out |->
                                Spelled(form.out[i], Plus(form.n, i), TRUE)]
            /\ got.is = << >>

(* The Tars encoding has tag 0 at the head that says that a list is one of *)
(* bytes.  The program writes the field's (json_protocol.cpp:197); those   *)
(* who read it look at the type alone (line 296).                          *)
TypesOnly(items) == [i \in DOMAIN items |-> IF items[i].kind = "char"
                                            THEN [items[i] EXCEPT !.tag = 0]
                                            ELSE items[i]]

(* A case in JSON becomes such items, too: in the order of the tags, not of*)
(* the names, with the defaults where a value is not given, and with bytes *)
(* from hexadecimal digits or numbers (parseCase, parseField and encode of *)
(* json_protocol.cpp).                                                     *)
JsonRequest ==
    form # NoForm /\ form.p = "json" =>
        TypesOnly(JSON!parseCase(Described(Asked), Valued(Asked, form.n, FALSE))) = Request

(* An answer is shown as the JSON that would be written for it, with what  *)
(* the service returned (AdminImp::test and decode of json_protocol.cpp).  *)
JsonAnswer ==
    form # NoForm /\ form.p = "json" =>
        LET told == Valued(Told, form.n, TRUE).v
        IN  JSON!shown(Answer, << Described(Told) >>) =
                Node("obj", [name \in DOMAIN told \cup {"tarsret"} |->
                                IF name = "tarsret" THEN Node("num", << "3" >>)
                                ELSE told[name]])
=============================================================================
