------------------------------ MODULE JniNames ------------------------------
(***************************************************************************)
(* The names of the JNI bridge: export symbols (decode_jni_export,         *)
(* core/src/jni/mangle.cpp), method signatures (shorty_from_signature,     *)
(* shorty.cpp) and the descriptors of reflected methods (descriptor.cpp).  *)
(*                                                                         *)
(* Text is a sequence of UTF-16 code units, so that append_utf8 appends    *)
(* the unit itself.  A symbol is what follows "Java_".                     *)
(***************************************************************************)
EXTENDS Integers, Sequences, SequencesExt

CONSTANTS Pieces, MaxPieces,   \* texts a symbol is put together from, and how many
          Parts, MaxParts,     \* texts a signature is put together from after "("
          Idents,              \* Java identifiers
          Arguments,           \* mangled argument lists of overloaded natives
          Types,               \* types of reflected methods: prim or text is empty
          MaxDims              \* dimensions of an array type, 255 in the code

VARIABLES input,      \* what is asked
          answer      \* what is answered

namesVars == <<input, answer>>

Open == 40
Close == 41
Dot == 46
Slash == 47
Zero == 48
Semicolon == 59
LetterL == 76
LetterV == 86
Bracket == 91
Underscore == 95
Primitives == {66, 67, 68, 70, 73, 74, 83, 90}     \* B C D F I J S Z

Alnum == 48..57 \cup 65..90 \cup 97..122
Nothing == [ok |-> FALSE]

-----------------------------------------------------------------------------
(* Export symbols.                                                          *)

\* The unit at p, 0 past the end.
At(text, p) == IF p \in DOMAIN text THEN text[p] ELSE 0

\* Lowercase digits only.
hex_value(c) == IF c \in 48..57 THEN c - 48 ELSE IF c \in 97..102 THEN c - 87 ELSE -1

has_canonical_form(unit) == unit \in Alnum \cup {Dot, Slash, Underscore, Semicolon, Bracket}

\* The unit of the four hex digits at p; 0 for none that a mangler writes so.
EscapedUnit(text, p) ==
    LET digit(i) == hex_value(At(text, p + i))
        unit == digit(0) * 4096 + digit(1) * 256 + digit(2) * 16 + digit(3)
    IN  IF \E i \in 0..3 : digit(i) < 0 THEN 0
        ELSE IF has_canonical_form(unit) THEN 0 ELSE unit

\* Mistake: "__" always ends the name.
SeparatorAlways(text, p) == At(text, p + 1) = Underscore

\* "__" at p, unless its second '_' starts an escape.
Separator(text, p) ==
    At(text, p + 1) = Underscore /\ At(text, p + 2) \notin Zero..Zero + 3

\* From p to the end of the text or past a separator.
decode_part(text, from) ==
    LET escapes == [c \in {49, 50, 51} |-> <<Underscore, Semicolon, Bracket>>[c - Zero]]
        put(unit, rest) == IF rest.ok THEN [rest EXCEPT !.out = <<unit>> \o @] ELSE Nothing
        part[p \in from..Len(text) + 1] ==
            IF p > Len(text) THEN [ok |-> TRUE, out |-> <<>>, separator |-> FALSE, next |-> p]
            ELSE IF text[p] # Underscore
            THEN IF text[p] \in Alnum THEN put(text[p], part[p + 1]) ELSE Nothing
            ELSE IF p = Len(text) THEN Nothing
            ELSE IF Separator(text, p)
            THEN [ok |-> TRUE, out |-> <<>>, separator |-> TRUE, next |-> p + 2]
            ELSE IF text[p + 1] \in DOMAIN escapes
            THEN put(escapes[text[p + 1]], part[p + 2])
            ELSE IF text[p + 1] = Zero
            THEN LET unit == EscapedUnit(text, p + 2)
                 IN  IF unit = 0 THEN Nothing ELSE put(unit, part[p + 6])
            ELSE put(Slash, part[p + 1])
    IN  part[from]

\* The last slash of the path ends the class name.
decode_jni_export(symbol) ==
    LET name == decode_part(symbol, 1)
        path == name.out
        slashes == {i \in DOMAIN path : path[i] = Slash}
        slash == Max(slashes)
        arguments == IF name.separator THEN decode_part(symbol, name.next)
                                       ELSE [ok |-> TRUE, out |-> <<>>, separator |-> FALSE]
    IN  IF \/ ~name.ok
           \/ slashes = {} \/ {1, Len(path)} \cap slashes # {}
           \/ \E i \in slashes : i + 1 \in slashes
           \/ \E i \in DOMAIN path : path[i] \in {Semicolon, Bracket}
           \/ ~arguments.ok \/ arguments.separator
        THEN Nothing
        ELSE [ok |-> TRUE, class_name |-> SubSeq(path, 1, slash - 1),
              method |-> SubSeq(path, slash + 1, Len(path)),
              overloaded |-> name.separator, arguments |-> arguments.out]

\* The symbol the JNI specification gives a native method (the mangler of the
\* guest's compiler and of ART).
Mangle(text) ==
    LET digit(n) == IF n < 10 THEN 48 + n ELSE 87 + n
        unit(c) ==
            CASE c \in Alnum -> <<c>>
              [] c = Slash -> <<Underscore>>
              [] c = Underscore -> <<Underscore, 49>>
              [] c = Semicolon -> <<Underscore, 50>>
              [] c = Bracket -> <<Underscore, 51>>
              [] OTHER -> <<Underscore, Zero, digit(c \div 4096), digit((c \div 256) % 16),
                            digit((c \div 16) % 16), digit(c % 16)>>
    IN  FlattenSeq([i \in DOMAIN text |-> unit(text[i])])
MangledSymbol(name) ==
    Mangle(name.class_name) \o <<Underscore>> \o Mangle(name.method)
      \o (IF name.overloaded THEN <<Underscore, Underscore>> \o Mangle(name.arguments) ELSE <<>>)

-----------------------------------------------------------------------------
(* Signatures.                                                              *)

\* The first position from p on whose unit is in S; one past the end if none.
First(text, p, S) == Min({i \in p..Len(text) : text[i] \in S} \cup {Len(text) + 1})

PastBrackets(text, p) == Min({i \in p..Len(text) : text[i] # Bracket} \cup {Len(text) + 1})

NoType == [letter |-> 0, next |-> 0]

Void(c, void_ok, dims) == c = LetterV /\ void_ok /\ dims = 0

\* The shorty letter of the type at p and where the next one starts.
parse_type(s, p, void_ok) ==
    LET q == PastBrackets(s, p)
        c == At(s, q)
        end == First(s, q + 1, {Semicolon, Open, Close, Bracket, Dot})
        name == SubSeq(s, q + 1, end - 1)
        named == /\ c = LetterL /\ At(s, end) = Semicolon /\ name # <<>>
                 /\ Slash \notin {name[1], name[Len(name)]}
                 /\ \A i \in 2..Len(name) : {name[i - 1], name[i]} # {Slash}
    IN  IF q - p > MaxDims THEN NoType
        ELSE IF named THEN [letter |-> LetterL, next |-> end + 1]
        ELSE IF c \in Primitives \/ Void(c, void_ok, q - p)
             THEN [letter |-> IF q > p THEN LetterL ELSE c, next |-> q + 1]
        ELSE NoType

shorty_from_signature(s) ==
    LET parameters[p \in 2..Len(s) + 1] ==
            IF p > Len(s) THEN Nothing
            ELSE IF s[p] = Close
            THEN LET result == parse_type(s, p + 1, TRUE)
                 IN  IF result # NoType /\ result.next = Len(s) + 1
                     THEN [ok |-> TRUE, shorty |-> <<result.letter>>] ELSE Nothing
            ELSE LET type == parse_type(s, p, FALSE)
                     rest == IF type = NoType THEN Nothing ELSE parameters[type.next]
                 IN  IF rest.ok THEN [rest EXCEPT !.shorty = <<@[1], type.letter>> \o Tail(@)]
                                ELSE Nothing
    IN  IF At(s, 1) = Open THEN parameters[2] ELSE Nothing

-----------------------------------------------------------------------------
(* Descriptors of reflected methods; <<>> for none.                         *)

valid_segments(name, separator, other) ==
    /\ name # <<>>
    /\ separator \notin {name[1], name[Len(name)]}
    /\ \A i \in DOMAIN name :
         /\ name[i] \notin {Bracket, Semicolon, other}
         /\ i > 1 => {name[i - 1], name[i]} # {separator}

replace_all(name, from, to) == [i \in DOMAIN name |-> IF name[i] = from THEN to ELSE name[i]]

jni_binary_class_name(internal_name) ==
    IF valid_segments(internal_name, Slash, Dot) THEN replace_all(internal_name, Slash, Dot) ELSE <<>>

PrimitiveLetters ==
    [boolean |-> 90, byte |-> 66, char |-> 67, short |-> 83, int |-> 73, long |-> 74, float |-> 70,
     double |-> 68, void |-> 86]

jni_type_descriptor(type) ==
    LET text == type.text
        dimensions == PastBrackets(text, 1) - 1
        element == SubSeq(text, dimensions + 1, Len(text))
        inner == SubSeq(element, 2, Len(element) - 1)
        class(name) == IF valid_segments(name, Dot, Slash)
                       THEN <<LetterL>> \o replace_all(name, Dot, Slash) \o <<Semicolon>> ELSE <<>>
    IN  IF type.prim # "" THEN <<PrimitiveLetters[type.prim]>>
        ELSE IF dimensions = 0 THEN class(text)
        ELSE IF Len(element) = 1 /\ element[1] \in Primitives THEN text
        ELSE IF Len(element) >= 3 /\ element[1] = LetterL /\ element[Len(element)] = Semicolon
                /\ class(inner) # <<>>
             THEN SubSeq(text, 1, dimensions) \o class(inner)
        ELSE <<>>

jni_method_descriptor(parameters, result) ==
    IF result = <<>> \/ \E i \in DOMAIN parameters : parameters[i] \in {<<>>, <<LetterV>>}
    THEN <<>>
    ELSE <<Open>> \o FlattenSeq(parameters) \o <<Close>> \o result

-----------------------------------------------------------------------------
Asked(topic, about) == input = [topic |-> topic, about |-> about]

Init ==
    /\ answer = [asked |-> FALSE]
    /\ \/ \E class, package, method \in Idents, o \in BOOLEAN, args \in Arguments :
            Asked("name", [class_name |-> package \o <<Slash>> \o class, method |-> method,
                           overloaded |-> o, arguments |-> IF o THEN args ELSE <<>>])
       \/ \E s \in SeqOf(Pieces, MaxPieces) : Asked("symbol", FlattenSeq(s))
       \/ \E s \in SeqOf(Parts, MaxParts) : Asked("signature", <<Open>> \o FlattenSeq(s))
       \/ \E ps \in SeqOf(Types, 2), r \in Types : Asked("reflected", [parameters |-> ps, result |-> r])

Answer ==
    CASE input.topic = "name" -> decode_jni_export(MangledSymbol(input.about))
      [] input.topic = "symbol" -> decode_jni_export(input.about)
      [] input.topic = "signature" -> shorty_from_signature(input.about)
      [] input.topic = "reflected" ->
           [ok |-> TRUE,
            descriptor |-> jni_method_descriptor(
                [i \in DOMAIN input.about.parameters |-> jni_type_descriptor(input.about.parameters[i])],
                jni_type_descriptor(input.about.result))]

Next ==
    /\ ~answer.asked
    /\ answer' = [asked |-> TRUE, is |-> Answer]
    /\ UNCHANGED input

\* Nothing is asked.
NoQuestion == input = [topic |-> "none"] /\ answer = [asked |-> FALSE]

-----------------------------------------------------------------------------
(***************************************************************************)
(* The symbol the JNI specification gives a native method decodes to that  *)
(* class, method and argument list: no native of a library is bound to     *)
(* another method because of an underscore, a dollar sign or an escape.    *)
(***************************************************************************)
NamesRoundTrip ==
    answer.asked /\ input.topic = "name" =>
        /\ answer.is.ok
        /\ \A field \in DOMAIN input.about : answer.is[field] = input.about[field]

(***************************************************************************)
(* decode_part refuses what the comment above it says no mangler writes:   *)
(* a symbol that decodes is the symbol of what it decodes to, so that no   *)
(* two exports of a library stand for one method.                          *)
(***************************************************************************)
OnlyCanonical ==
    answer.asked /\ input.topic = "symbol" /\ answer.is.ok =>
        MangledSymbol(answer.is) = input.about

(* The grammar of signatures, read from any of its derivations.             *)
IsFieldType(t) ==
    \E d \in 0..MaxDims :
       /\ d < Len(t) /\ \A i \in 1..d : t[i] = Bracket
       /\ \/ Len(t) = d + 1 /\ t[Len(t)] \in Primitives
          \/ /\ t[d + 1] = LetterL /\ t[Len(t)] = Semicolon
             /\ LET name == SubSeq(t, d + 2, Len(t) - 1)
                IN  /\ \A i \in DOMAIN name : name[i] \notin {Semicolon, Open, Close, Bracket, Dot}
                    /\ LET path == <<Slash>> \o name \o <<Slash>>
                       IN  \A i \in 2..Len(path) : {path[i - 1], path[i]} # {Slash}
LetterOf(t) == IF Len(t) = 1 THEN t[1] ELSE LetterL
Readings(s) ==
    LET lists(close) ==
            LET from[p \in 2..close] ==
                    IF p = close THEN {<<>>}
                    ELSE UNION {{<<LetterOf(SubSeq(s, p, n))>> \o rest : rest \in from[n + 1]} :
                                  n \in {n \in p..close - 1 : IsFieldType(SubSeq(s, p, n))}}
            IN  from[2]
        result(close) == SubSeq(s, close + 1, Len(s))
    IN  UNION {{<<LetterOf(result(close))>> \o list : list \in lists(close)} :
                 close \in {c \in 2..Len(s) : /\ s[c] = Close
                                               /\ (result(c) = <<LetterV>> \/ IsFieldType(result(c)))}}

(***************************************************************************)
(* shorty_from_signature accepts exactly the method signatures of the JVM, *)
(* each with the one list of letters its types have: the bridge marshals   *)
(* as many arguments of the kinds that Java passes.                        *)
(***************************************************************************)
ShortyExact ==
    answer.asked /\ input.topic = "signature" =>
        Readings(input.about) = IF answer.is.ok THEN {answer.is.shorty} ELSE {}

(***************************************************************************)
(* The descriptor put together from the reflected types of a method is a   *)
(* signature whose letters are those of the types, and a class name turned *)
(* to its descriptor turns back to the name.                               *)
(***************************************************************************)
ReflectedExact ==
    answer.asked /\ input.topic = "reflected" =>
        LET types == <<input.about.result>> \o input.about.parameters
            letters == [i \in DOMAIN types |->
                          IF types[i].prim # "" THEN PrimitiveLetters[types[i].prim] ELSE LetterL]
            internal(t) == LET d == jni_type_descriptor(t) IN SubSeq(d, 2, Len(d) - 1)
        IN  /\ Readings(answer.is.descriptor)
                  = IF LetterV \in {letters[i] : i \in 2..Len(letters)} THEN {} ELSE {letters}
            /\ \A t \in Range(types) : t.prim = "" /\ t.text[1] # Bracket =>
                  jni_binary_class_name(internal(t)) = t.text
=============================================================================
