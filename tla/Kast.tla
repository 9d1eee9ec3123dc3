-------------------------------- MODULE Kast --------------------------------
(***************************************************************************)
(* The KAST that clang-kast builds and prints (clang-tools/ClangKast).     *)
(* Kast::add appends a node to Kast::Nodes; Kast::print then prints the    *)
(* first node and, as its signature asks for children, the nodes after it, *)
(* each exactly once and from left to right.  Printing therefore depends   *)
(* on the nodes so far only through the calls of print that still wait for *)
(* a child: the model keeps that stack and not the nodes.                  *)
(*                                                                         *)
(* Wording is abstract: a node is its sort and the sorts of its children.  *)
(* Of the output the brackets are kept, as a depth, because the two halves *)
(* of a print function must agree on them.                                 *)
(***************************************************************************)
EXTENDS Integers, Sequences, SequencesExt, FiniteSetsExt

Sorts ==
  {"ACCESSSPECIFIER", "AEXPR", "ASTMT", "ATYPE", "ATYPERESULT", "AUTOSPECIFIER",
   "BASESPECIFIER", "BOOL", "BRACEINIT", "CABSLOC", "CAPTURE", "CAPTUREDEFAULT",
   "CAPTUREKIND", "CATCHDECL", "CHARKIND", "CID", "CLASSKEY", "CTORINIT", "DECL",
   "DECLARATOR", "DESTRUCTORID", "ENUMERATOR", "EXCEPTIONSPEC", "EXPR", "EXPRESSIONLIST",
   "EXPRLOC", "FLOAT", "FUNCTIONSPECIFIER", "INIT", "INT", "K", "KITEM", "LIST", "NAME",
   "NAMESPACE", "NNS", "NNSSPECIFIER", "NONAME", "OPID", "QUALIFIER", "REFQUALIFIER",
   "RESOLVEDEXPR", "SPECIFIER", "STMT", "STORAGECLASSSPECIFIER", "STRICTLIST",
   "STRICTLISTRESULT", "STRING", "TAG", "TEMPLATEARGUMENT", "TEMPLATEPARAMETER", "THIS",
   "TYPEID", "TYPESPECIFIER", "UNNAMEDCID"}

(* The subsorts that the K definition declares, as pairs of a sort and one *)
(* below it, from each place that declares some.  An expression is a       *)
(* statement or an initializer, a declarator is a declaration; none of     *)
(* these holds the other way around, and enumerators and parameters of     *)
(* templates are no declarations.                                          *)
Over(sort, below) == {sort} \X below
UnnamedSubsorts == Over("CID", {"NONAME", "UNNAMEDCID"})
CommonSubsorts ==
  Over("CID", {"OPID"}) \cup Over("INIT", {"STMT", "EXPR"}) \cup Over("EXPR", {"NAME"})
TypeIdSubsorts ==
  Over("TYPEID", {"DESTRUCTORID"}) \cup Over("CID", {"TYPEID"}) \cup Over("TAG", {"CLASSKEY"})
ExprSubsorts == Over("EXPR", {"RESOLVEDEXPR", "EXPRLOC"}) \cup Over("INIT", {"EXPRLOC"})
ThisSubsorts == Over("EXPR", {"THIS"})
NNSSubsorts == Over("NNS", {"NAMESPACE", "NNSSPECIFIER"})
DeclSubsorts ==
  Over("DECL", {"DECLARATOR"})
  \cup Over("SPECIFIER", {"STORAGECLASSSPECIFIER", "FUNCTIONSPECIFIER", "AUTOSPECIFIER"})
TypeSubsorts == Over("ATYPE", {"ATYPERESULT", "NAME"})
StmtSubsorts ==
  Over("ASTMT", {"STMT", "EXPR"}) \cup Over("CATCHDECL", {"DECL"}) \cup Over("AEXPR", {"EXPR"})
CaptureSubsorts == Over("CAPTUREKIND", {"DECL", "THIS"}) \cup Over("INIT", {"EXPRESSIONLIST"})
Subsorts ==
  UnnamedSubsorts \cup CommonSubsorts \cup TypeIdSubsorts \cup ExprSubsorts
  \cup ThisSubsorts \cup NNSSubsorts \cup DeclSubsorts \cup TypeSubsorts
  \cup StmtSubsorts \cup CaptureSubsorts

(* What may stand where the K definition asks for a sort.  No chain of     *)
(* subsorts is longer than two; anything may stand in a list.              *)
WithSubsorts(sorts) == sorts \cup {pair[2] : pair \in {pair \in Subsorts : pair[1] \in sorts}}
Accepts(sort) == WithSubsorts(WithSubsorts({sort}))
Fits(sort, wanted) == wanted \in {"K", "KITEM", sort} \/ sort \in Accepts(wanted)

(* Nodes: the class, the sort, which stands for the name it is printed as, *)
(* the sorts of the children in the signature that the handler gives, and  *)
(* those of the production it means.  The two differ where a production is *)
(* overloaded and where the handler departs from the grammar, which the    *)
(* kast format does not check (KApplyAs).  A script is a sequence of nodes *)
(* to add and of visits to make.                                           *)
KApplyAs(sort, sig, production) == << <<"KApply", sort, sig, production>> >>
KApply(sort, sig) == KApplyAs(sort, sig, sig)
KToken(sort) == << <<"KToken", sort, <<>>, <<>> >> >>
KSequence(size) ==
  LET items == [i \in 1..size |-> "KITEM"] IN << <<"KSequence", "K", items, items>> >>
Class(node) == node[1]
Sort(node) == node[2]
Sig(node) == node[3]
Production(node) == node[4]

(* What print writes around a node that stands in a slot of sort parent:   *)
(* the brackets it opens before the first child and those it closes after  *)
(* the last one, decided twice by the same conditions in KApply::print.    *)
Opened(kore, node, parent) ==
  CASE Class(node) = "KToken" -> 0
    [] Class(node) = "KSequence" -> IF kore THEN Len(Sig(node)) ELSE 0
    [] Class(node) = "KApply" ->
         1 + (IF ~kore \/ Sort(node) = parent THEN 0
              ELSE IF parent = "K" /\ Sort(node) # "KITEM" THEN 2 ELSE 1)
ClosedAlways(kore, node, parent) ==
  CASE Class(node) = "KToken" -> 0
    [] Class(node) = "KSequence" -> IF kore THEN Len(Sig(node)) ELSE 0
    [] Class(node) = "KApply" -> IF kore THEN 2 ELSE 1
Closed(kore, node, parent) ==
  CASE Class(node) = "KToken" -> 0
    [] Class(node) = "KSequence" -> IF kore THEN Len(Sig(node)) ELSE 0
    [] Class(node) = "KApply" ->
         IF kore /\ Sort(node) # parent
         THEN IF parent = "K" THEN (IF Sort(node) # "KITEM" THEN 2 ELSE 1) + 1 ELSE 2
         ELSE 1

(* A printer: the pending calls of print, top first, as slots to fill and  *)
(* brackets to close; the depth of open brackets; whether a node came that *)
(* no call asked for; the sorts met where the grammar wants others; and    *)
(* the text, where the output is more than nodes, with what it was made    *)
(* from.                                                                   *)
Slot(sort, wanted) == [slot |-> sort, wanted |-> wanted, close |-> 0]
Closer(n) == [slot |-> "", wanted |-> "", close |-> n]
Printer(kore) ==
  [kore |-> kore, stack |-> <<Slot("K", "K")>>, depth |-> 0, extra |-> FALSE, misfits |-> {},
   text |-> <<>>]

Close(p) ==
  LET slots == {i \in DOMAIN p.stack : p.stack[i].close = 0}
      n == IF slots = {} THEN Len(p.stack) ELSE Min(slots) - 1
  IN [p EXCEPT !.stack = SubSeq(@, n + 1, Len(@)),
               !.depth = FoldLeft(LAMBDA d, e : d - e.close, @, SubSeq(p.stack, 1, n))]

print(p, node) ==
  IF p.stack = <<>> THEN [p EXCEPT !.extra = TRUE]
  ELSE LET parent == Head(p.stack).slot
           wanted == Head(p.stack).wanted
           closed == Closed(p.kore, node, parent)
           after == IF closed = 0 THEN <<>> ELSE <<Closer(closed)>>
       IN Close([p EXCEPT
            !.stack = [i \in DOMAIN Sig(node) |-> Slot(Sig(node)[i], Production(node)[i])]
                      \o after \o Tail(@),
            !.depth = @ + Opened(p.kore, node, parent),
            !.misfits = IF Fits(Sort(node), wanted) THEN @
                        ELSE @ \cup {<<wanted, Sort(node)>>}])

printAll(p, added) == FoldLeft(print, p, added)

(* The whole tree is printed, and nothing but the tree.                    *)
Complete(p) == p.stack = <<>> /\ p.depth = 0 /\ ~p.extra

-----------------------------------------------------------------------------
(* Text.  Characters are few: "a" for any other printable character, "n"   *)
(* and "x" because escapes use them, ESC for any that is not printable;    *)
(* hex stands for its two digits.                                          *)
Chars == {"a", "n", "x", "quote", "backslash", "newline", "ESC"}
escapeCharQuotes(c) ==
  CASE c = "quote" -> <<"backslash", c>>
    [] c = "newline" -> <<"backslash", "n">>
    [] c = "ESC" -> <<"backslash", "x", "hex">>
    [] OTHER -> <<c>>
escapeChar(c) ==
  CASE c \in {"quote", "backslash"} -> <<"backslash", c>>
    [] c = "newline" -> <<"backslash", "n">>
    [] c = "ESC" -> <<"backslash", "x", "hex">>
    [] OTHER -> <<c>>
escape(str) == FlattenSeq([i \in DOMAIN str |-> escapeChar(str[i])])

(* A string token: escaped, quoted in the kast format, and escaped once    *)
(* more because the token as a whole is written between quotes.            *)
toKString(kore, str) ==
  IF kore THEN escape(str) ELSE <<"quote">> \o escape(str) \o <<"quote">>
tokenText(kore, str) == escape(toKString(kore, str))

(* A label: letters, and characters that are written as a code between     *)
(* apostrophes, which neighbouring codes share.                            *)
Codes ==
  (" " :> "Spce") @@ ("!" :> "Bang") @@ ("quote" :> "Quot") @@ ("#" :> "Hash") @@ ("$" :> "Dolr")
  @@ ("%" :> "Perc") @@ ("&" :> "And") @@ ("'" :> "Apos") @@ ("(" :> "LPar") @@ (")" :> "RPar")
  @@ ("*" :> "Star") @@ ("+" :> "Plus") @@ ("," :> "Comm") @@ ("." :> "Stop") @@ ("/" :> "Slsh")
  @@ (":" :> "Coln") @@ (";" :> "SCln") @@ ("<" :> "-LT-") @@ ("=" :> "Eqls") @@ (">" :> "-GT-")
  @@ ("?" :> "Ques") @@ ("@" :> "-AT-") @@ ("[" :> "LSqB") @@ ("backslash" :> "Bash")
  @@ ("]" :> "RSqB") @@ ("^" :> "Xor-") @@ ("_" :> "Unds") @@ ("backquote" :> "BQuo") @@ ("{" :> "LBra")
  @@ ("|" :> "Pipe") @@ ("}" :> "RBra") @@ ("~" :> "Tild")
LabelChars == {"a"} \cup DOMAIN Codes
escapeLabelChar(res, c) ==
  IF c \notin DOMAIN Codes THEN Append(res, c)
  ELSE (IF res # <<>> /\ Last(res) = "'" THEN Front(res) ELSE Append(res, "'"))
       \o <<Codes[c], "'">>
escapeKLabel(label) == FoldLeft(escapeLabelChar, <<>>, label)

-----------------------------------------------------------------------------
(* Reading text back.  A K string literal (external): an unescaped quote   *)
(* ends it, which no character of the text stands for.                     *)
unescapeChar(state, c) ==
  CASE state.mode = "plain" /\ c = "backslash" -> [state EXCEPT !.mode = "escape"]
    [] state.mode = "plain" /\ c = "quote" -> [state EXCEPT !.text = Append(@, "end")]
    [] state.mode = "escape" /\ c = "n" -> [mode |-> "plain", text |-> Append(state.text, "newline")]
    [] state.mode = "escape" /\ c = "x" -> [state EXCEPT !.mode = "hex"]
    [] state.mode = "hex" -> [mode |-> "plain", text |-> Append(state.text, "ESC")]
    [] OTHER -> [mode |-> "plain", text |-> Append(state.text, c)]
unescape(text) == FoldLeft(unescapeChar, [mode |-> "plain", text |-> <<>>], text).text

(* The string of a #token of sort String: the token is a literal, with its *)
(* quotes, inside a literal.                                               *)
Quoted(text) == Len(text) >= 2 /\ Head(text) = "quote" /\ Last(text) = "quote"
readToken(text) ==
  LET token == unescape(text)
  IN IF Quoted(token) THEN unescape(SubSeq(token, 2, Len(token) - 1)) ELSE <<"unquoted">>

(* The codes of a label, by the table of the repository's other printer of *)
(* kore (kPrinter.ml): code and character, for reading.                    *)
LabelCodes ==
  {<<"Spce", " ">>, <<"Bang", "!">>, <<"Quot", "quote">>, <<"Hash", "#">>, <<"Dolr", "$">>,
   <<"Perc", "%">>, <<"And", "&">>, <<"Apos", "'">>, <<"LPar", "(">>, <<"RPar", ")">>,
   <<"Star", "*">>, <<"Plus", "+">>, <<"Comm", ",">>, <<"Stop", ".">>, <<"Slsh", "/">>,
   <<"Coln", ":">>, <<"SCln", ";">>, <<"-LT-", "<">>, <<"Eqls", "=">>, <<"-GT-", ">">>,
   <<"Ques", "?">>, <<"-AT-", "@">>, <<"LSqB", "[">>, <<"Bash", "backslash">>, <<"RSqB", "]">>,
   <<"Xor-", "^">>, <<"Unds", "_">>, <<"BQuo", "backquote">>, <<"LBra", "{">>, <<"Pipe", "|">>,
   <<"RBra", "}">>, <<"Tild", "~">>}
decodeLabelChar(state, c) ==
  CASE c = "'" -> [state EXCEPT !.coded = ~@]
    [] c # "'" /\ state.coded ->
         [state EXCEPT !.text = @ \o SetToSeq({code[2] : code \in {code \in LabelCodes : code[1] = c}})]
    [] OTHER -> [state EXCEPT !.text = Append(@, c)]
decodeKLabel(text) == FoldLeft(decodeLabelChar, [coded |-> FALSE, text |-> <<>>], text).text

Short(chars, n) == UNION {[1..m -> chars] : m \in 0..n}
=============================================================================
