-------------------------------- MODULE Scanner --------------------------------
(***************************************************************************)
(* The scanner of Scanner.h, read to the end of its source by              *)
(* TokenStream::printAllTokens, which prints each token.  Characters are   *)
(* strings of length one.                                                  *)
(***************************************************************************)
EXTENDS Integers, Sequences, SequencesExt, FiniteSetsExt

CONSTANTS
    Files,      \* the files: with which characters, and at most how many (the bound)
    MaxInt,     \* the largest int
    MaxFloat,   \* the largest whole part of a float
    MaxZeros    \* zeros after the point with which a float is too small

Digits == {"0", "1", "2"}
Letters == {"_", "a", "e", "f", "i", "l", "n", "o", "r", "s", "t"}
Spaces == {" ", "\n"}
NUL == "nul"

ASSUME FilesAssumption == \A f \in Files : f.chars # {} /\ f.most \in Nat
ASSUME LimitsAssumption == MaxInt \in Nat /\ MaxFloat \in Nat /\ MaxZeros \in Nat

VARIABLES
    source,     \* the characters
    current,    \* the index of the next character
    line, column, \* its place
    tokens,     \* the tokens printed
    phase       \* "scan", "end", "thrown" (std::out_of_range)

vars == <<source, current, line, column, tokens, phase>>

Token(kind, value, from, ln, col) ==
    [kind |-> kind, value |-> value, from |-> from, line |-> ln, column |-> col]

-----------------------------------------------------------------------------
(* Helpers of the class. *)

\* A mutant: the last character is the end.
isAtEndEarly(i) == i >= Len(source)

isAtEnd(i) == i > Len(source)
peek(i) == IF isAtEnd(i) THEN NUL ELSE source[i]
isAlnum(c) == c \in Letters \cup Digits

\* The first index from i on whose character is not in the set.
Past(set, i) == Min({k \in i .. Len(source) + 1 : peek(k) \notin set})

\* A mutant: the column goes on after a line break.
advanceNoReset(place, c) ==
    IF c = "\n" THEN [line |-> place.line + 1, column |-> place.column + 1]
    ELSE [place EXCEPT !.column = @ + 1]

\* Where the next character is, after c.
advance(place, c) ==
    IF c = "\n" THEN [line |-> place.line + 1, column |-> 1]
    ELSE [place EXCEPT !.column = @ + 1]

PlaceAt(i) ==
    FoldLeft(advance, [line |-> line, column |-> column], SubSeq(source, current, i - 1))

Chars(from, to) == FoldLeft(LAMBDA s, c : s \o c, "", SubSeq(source, from, to - 1))

Keywords == {"float", "bool", "true", "false", "int", "if", "else", "return", "while",
             "operator", "for"}
Doubled == [c \in {"!", "=", "<", ">", "&", "|"} |-> IF c \in {"&", "|"} THEN c ELSE "="]
Single == {"+", "-", "*", "/", "%", "!", "=", "<", ">", "{", "}", "[", "]", "(", ")", ",", ";"}

ValueOf(digits) == FoldLeft(LAMBDA n, d : 10 * n + (CHOOSE k \in 0 .. 2 : ToString(k) = d), 0, digits)

\* std::stoi and std::stof of the characters from one index to another.
stoi(from, to) ==
    IF source[from] = "-" THEN -ValueOf(SubSeq(source, from + 1, to - 1))
    ELSE ValueOf(SubSeq(source, from, to - 1))

\* A mutant: the sign is put on after the conversion.
stoiThrowsUnsigned(from, to) == stoi(from, to) \notin -MaxInt .. MaxInt

stoiThrows(from, to) == stoi(from, to) \notin -MaxInt - 1 .. MaxInt

stofThrows(from, point, to) ==
    LET whole == ValueOf(SelectSeq(SubSeq(source, from, point - 1), LAMBDA c : c # "-"))
        nonzero == {k \in point + 1 .. to - 1 : source[k] # "0"}
    IN  \/ whole > MaxFloat
        \/ whole = 0 /\ nonzero # {} /\ Min(nonzero) > point + MaxZeros

-----------------------------------------------------------------------------
(* One call of nextToken, and what the caller does with the token. *)

\* A file ends, for the scanner, at its first zero byte.
Init ==
    /\ \E f \in Files : \E n \in 0 .. f.most : \E file \in [1 .. n -> f.chars] :
          source = SubSeq(file, 1, Min({k \in 1 .. n : file[k] = NUL} \cup {n + 1}) - 1)
    /\ current = 1 /\ line = 1 /\ column = 1
    /\ tokens = <<>>
    /\ phase = "scan"

\* The first character of the token.
Start == Past(Spaces, current)

\* The token ends before the index to; its place was noted before it.
Read(kind, to) ==
    LET place == PlaceAt(Start)
        after == PlaceAt(to)
    IN  /\ tokens' = Append(tokens, Token(kind, Chars(Start, to), Start, place.line, place.column))
        /\ current' = to
        /\ line' = after.line /\ column' = after.column
        /\ UNCHANGED source

Throw == phase' = "thrown" /\ UNCHANGED <<source, current, line, column, tokens>>

Continue(kind, to) == Read(kind, to) /\ UNCHANGED phase

EndOfSource ==
    /\ phase = "scan"
    /\ isAtEnd(Start)
    /\ Read("eof", Start)
    /\ phase' = "end"

\* identifier
Identifier ==
    LET c == peek(Start)
        to == Past(Letters \cup Digits, Start)
    IN  /\ phase = "scan"
        /\ c \in Letters
        /\ Continue(IF Chars(Start, to) \in Keywords THEN Chars(Start, to) ELSE "id", to)

\* A mutant: a point ends a number only with the number's digits.
NumberPoint ==
    LET point == Past(Digits, Start + 1)
        to == IF peek(point) = "." THEN Past(Digits, point + 1) ELSE point
        isFloat == to > point
    IN  /\ phase = "scan"
        /\ peek(Start) \in Digits \/ (peek(Start) = "-" /\ peek(Start + 1) \in Digits)
        /\ IF (isFloat /\ stofThrows(Start, point, to)) \/ (~isFloat /\ stoiThrows(Start, to))
             THEN Throw
             ELSE Continue(IF isFloat THEN "FLOAT" ELSE "INTEGER", to)

\* number
Number ==
    LET point == Past(Digits, Start + 1)
        to == IF peek(point) = "." /\ peek(point + 1) \in Digits THEN Past(Digits, point + 1)
              ELSE point
        isFloat == to > point
    IN  /\ phase = "scan"
        /\ peek(Start) \in Digits \/ (peek(Start) = "-" /\ peek(Start + 1) \in Digits)
        /\ IF (isFloat /\ stofThrows(Start, point, to)) \/ (~isFloat /\ stoiThrows(Start, to))
             THEN Throw
             ELSE Continue(IF isFloat THEN "FLOAT" ELSE "INTEGER", to)

\* A mutant: the switch has no default.
SymbolKnown ==
    LET c == peek(Start)
    IN  /\ phase = "scan"
        /\ c \in Single
        /\ ~(c = "-" /\ peek(Start + 1) \in Digits)
        /\ IF c \in DOMAIN Doubled /\ peek(Start + 1) = Doubled[c]
             THEN Continue(c \o Doubled[c], Start + 2)
             ELSE Continue(c, Start + 1)

\* The cases of the switch.
Symbol ==
    LET c == peek(Start)
    IN  /\ phase = "scan"
        /\ ~isAtEnd(Start)
        /\ ~isAlnum(c)
        /\ ~(c = "-" /\ peek(Start + 1) \in Digits)
        /\ IF c \in DOMAIN Doubled /\ peek(Start + 1) = Doubled[c]
             THEN Continue(c \o Doubled[c], Start + 2)
             ELSE Continue(IF c \in Single THEN c ELSE "unknown", Start + 1)

\* printAllTokens: while there is a token before the end, the next
Next == EndOfSource \/ Identifier \/ Number \/ Symbol

Spec == Init /\ [][Next]_vars /\ WF_vars(Next)

-----------------------------------------------------------------------------
(* Lexemes, defined without the scanner. *)

IsNumber(s, pointed) ==
    LET body == IF s # <<>> /\ Head(s) = "-" THEN Tail(s) ELSE s
        points == {k \in DOMAIN body : body[k] = "."}
    IN  /\ body # <<>>
        /\ \A k \in DOMAIN body : body[k] \in Digits \/ (pointed /\ body[k] = ".")
        /\ pointed => Cardinality(points) = 1 /\ points \cap {1, Len(body)} = {}

KindsOf(s) ==
    LET word == FoldLeft(LAMBDA a, c : a \o c, "", s)
    IN  (IF s # <<>> /\ Head(s) \in Letters /\ ToSet(s) \subseteq Letters \cup Digits
           THEN {IF word \in Keywords THEN word ELSE "id"} ELSE {})
        \cup (IF IsNumber(s, FALSE) THEN {"INTEGER"} ELSE {})
        \cup (IF IsNumber(s, TRUE) THEN {"FLOAT"} ELSE {})
        \cup (IF word \in Single \cup {"!=", "==", "<=", ">=", "&&", "||"} THEN {word} ELSE {})

\* The lexemes at index i, by the index after them.
LexemesAt(i) == {to \in i + 1 .. Len(source) + 1 : KindsOf(SubSeq(source, i, to - 1)) # {}}

-----------------------------------------------------------------------------
(* Properties, of what has been printed when scanning stops: the tokens before *)
(* do not change.                                                              *)

\* Each token is the longest lexeme where it begins, and of its kind; what begins
\* no lexeme is an unknown character.  So a minus before a digit belongs to the
\* number, wherever it stands.
LongestLexemes ==
    phase # "scan" => \A i \in DOMAIN tokens : tokens[i].kind # "eof" =>
        LET t == tokens[i]
            to == t.from + Len(t.value)
            lexemes == LexemesAt(t.from)
        IN  IF lexemes = {} THEN t.kind = "unknown" /\ Len(t.value) = 1
            ELSE to = Max(lexemes) /\ t.kind \in KindsOf(SubSeq(source, t.from, to - 1))

\* Nothing but white space is left out between tokens, and nothing is read twice.
TokensCoverTheSource ==
    phase # "scan" =>
    LET end(i) == tokens[i].from + Len(tokens[i].value)
        gap(i) == SubSeq(source, IF i = 1 THEN 1 ELSE end(i - 1), tokens[i].from - 1)
    IN  /\ \A i \in DOMAIN tokens : ToSet(gap(i)) \subseteq Spaces
        /\ \A i \in DOMAIN tokens : i > 1 => tokens[i].from >= end(i - 1)
        /\ phase = "end" => tokens # <<>> /\ Last(tokens).from = Len(source) + 1

\* The line and column of a token are those of its first character.
PlacesAreTrue ==
    phase # "scan" => \A i \in DOMAIN tokens :
        LET before == SubSeq(source, 1, tokens[i].from - 1)
            breaks == {k \in DOMAIN before : before[k] = "\n"}
        IN  /\ tokens[i].line = Cardinality(breaks) + 1
            /\ tokens[i].column = tokens[i].from - Max(breaks \cup {0})

\* The scanner stops before the end only at a number that no int or float can
\* represent.
ThrowsOnlyOutOfRange ==
    LET tooLarge(kinds, s) ==
            LET point == Max({k \in DOMAIN s : s[k] = "."} \cup {0})
            IN  \/ kinds = {"INTEGER"} /\ ValueOf(SelectSeq(s, LAMBDA c : c # "-"))
                                            > MaxInt + (IF Head(s) = "-" THEN 1 ELSE 0)
                \/ kinds = {"FLOAT"} /\ ValueOf(SelectSeq(SubSeq(s, 1, point - 1), LAMBDA c : c # "-"))
                                          > MaxFloat
                \/ /\ kinds = {"FLOAT"}
                   /\ Len(s) > point + MaxZeros
                   /\ \A k \in 1 .. point + MaxZeros : s[k] \in {"0", "-", "."}
                   /\ \E k \in DOMAIN s : s[k] \notin {"0", "-", "."}
        bad(from) == LexemesAt(from) # {} /\
            LET s == SubSeq(source, from, Max(LexemesAt(from)) - 1)
            IN  tooLarge(KindsOf(s), s)
    IN  /\ phase # "scan" => \A i \in DOMAIN tokens : ~bad(tokens[i].from)
        /\ phase = "thrown" => bad(Past(Spaces, current))

\* Scanning ends: every token consumes a character.
Ends == <>(phase # "scan")

=============================================================================
