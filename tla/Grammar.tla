-------------------------------- MODULE Grammar --------------------------------
(***************************************************************************)
(* The language as a grammar, defined without the parser: the rules as     *)
(* data, and a scan of a source by the rules from left to right, which     *)
(* knows for each prefix what may follow.                                  *)
(*                                                                         *)
(* The grammar is the parser's language with its oddities: one opening     *)
(* parenthesis of a group may stand for two, and in the header of a for    *)
(* only declarations and assignments to variables go without a semicolon.  *)
(***************************************************************************)
EXTENDS Integers, Sequences, SequencesExt, FiniteSetsExt

\* Numbers and Boolean literals are "num", the three type names "type".
Operators == {"*", "/", "%", "+", "-", "<", "<=", ">", ">=", "==", "!=", "&&", "||"}
Tokens ==
    Operators \cup {"!", "=", "num", "id", "type", "(", ")", "[", "]", "{", "}", ",", ";",
                    "if", "else", "while", "for", "return", "operator", "eof"}

-----------------------------------------------------------------------------
Rule(of, as) == [of |-> of, as |-> as]

\* opening: what follows the first parenthesis of a group.
ExpRules(opening) ==
    {Rule("exp", <<"primary", "infix">>), Rule("infix", <<>>),
     Rule("primary", <<"num">>), Rule("primary", <<"id", "name">>),
     Rule("primary", <<"type", "args">>), Rule("primary", <<"-", "primary">>),
     Rule("primary", <<"(", "open", "exp", "close">>),
     Rule("open", opening), Rule("close", <<")">>),
     Rule("name", <<>>), Rule("name", <<"args">>), Rule("name", <<"[", "exp", "]">>),
     Rule("args", <<"(", "arglist", ")">>), Rule("arglist", <<>>),
     Rule("arglist", <<"exp", "moreargs">>), Rule("moreargs", <<>>),
     Rule("moreargs", <<",", "exp", "moreargs">>)}
    \cup {Rule("infix", <<o, "primary", "infix">>) : o \in Operators}

StmtRules ==
    {Rule("stmt", <<"id", "setting">>), Rule("header", <<"id", "headersetting">>),
     Rule("setting", <<"=", "exp", ";">>), Rule("headersetting", <<"=", "exp">>),
     Rule("setting", <<"ended">>), Rule("headersetting", <<"ended">>),
     Rule("ended", <<"[", "exp", "]", "=", "exp", ";">>), Rule("ended", <<"args", ";">>),
     Rule("stmt", <<"var", "init", ";">>), Rule("header", <<"var", "init">>),
     Rule("init", <<>>), Rule("init", <<"=", "exp">>),
     Rule("stmt", <<"control">>), Rule("header", <<"control">>),
     Rule("control", <<"seq">>), Rule("control", <<"return", "exp", ";">>),
     Rule("control", <<"if", "(", "exp", ")", "stmt", "otherwise">>),
     Rule("otherwise", <<>>), Rule("otherwise", <<"else", "stmt">>),
     Rule("control", <<"while", "(", "exp", ")", "stmt">>),
     Rule("control", <<"for", "(", "header", ";", "exp", ";", "header", ")", "stmt">>),
     Rule("seq", <<"{", "stmts", "}">>), Rule("stmts", <<>>), Rule("stmts", <<"stmt", "stmts">>)}

FuncRules ==
    {Rule("program", <<"func", "funcs">>), Rule("funcs", <<"eof">>),
     Rule("funcs", <<"func", "funcs">>),
     Rule("func", <<"type", "funcid", "(", "params", ")", "body">>),
     Rule("funcid", <<"id">>), Rule("funcid", <<"operator", "op">>),
     Rule("params", <<>>), Rule("params", <<"var", "moreparams">>),
     Rule("moreparams", <<>>), Rule("moreparams", <<",", "var", "moreparams">>),
     Rule("var", <<"type", "id", "size">>), Rule("size", <<>>),
     Rule("size", <<"[", "exp", "]">>), Rule("body", <<"seq">>), Rule("body", <<";">>)}
    \cup {Rule("op", <<o>>) : o \in Operators \cup {"!", "type"}}

-----------------------------------------------------------------------------
(* A language: which symbols may be empty, and what must follow a token with *)
(* which a symbol begins, to complete that symbol.                           *)

Error == <<"error">>

Language(rules) ==
    LET symbols == Tokens \cup {r.of : r \in rules} \cup {"error"}
        rest[x \in symbols, t \in Tokens] ==
            IF x \in Tokens THEN IF x = t THEN {<<>>} ELSE {}
            ELSE UNION {{s \o Tail(r.as) : s \in rest[Head(r.as), t]} :
                        r \in {r \in rules : r.of = x /\ r.as # <<>>}}
    IN  [empty |-> {r.of : r \in {r \in rules : r.as = <<>>}},
         rest |-> [x \in symbols |-> [t \in Tokens |-> rest[x, t]]]]

Written == Language(ExpRules(<<"(">>) \cup StmtRules \cup FuncRules)
Balanced == Language(ExpRules(<<>>) \cup StmtRules \cup FuncRules)

\* At most one rule applies to a token: the scan need not guess.
ASSUME Deterministic ==
    \A l \in {Written, Balanced} : \A x \in DOMAIN l.rest : \A t \in Tokens :
        Cardinality(l.rest[x][t]) <= 1

\* The symbol to which a token belongs, where the symbols expect are due: the
\* first that begins with it, unless one before it must not be empty.
Shifted(l, expect, t) ==
    LET due == {i \in DOMAIN expect : expect[i] \notin l.empty \/ l.rest[expect[i]][t] # {}}
    IN  IF due = {} THEN 0 ELSE Min(due)

Shift(l, expect, t) ==
    LET i == Shifted(l, expect, t)
    IN  IF i = 0 \/ l.rest[expect[i]][t] = {} THEN Error
        ELSE (CHOOSE s \in l.rest[expect[i]][t] : TRUE) \o SubSeq(expect, i + 1, Len(expect))

CanEnd(l, expect) == \A i \in DOMAIN expect : expect[i] \in l.empty

\* What is due after each prefix of the tokens.
Scan(l, start, tokens) ==
    LET due[n \in 0 .. Len(tokens)] ==
            IF n = 0 THEN <<start>> ELSE Shift(l, due[n - 1], tokens[n])
    IN  due

=============================================================================
