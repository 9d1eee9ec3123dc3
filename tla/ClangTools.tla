----------------------------- MODULE ClangTools -----------------------------
(***************************************************************************)
(* The two Clang tools on one input each: clang-kast on a translation      *)
(* unit, in either output format, and call-sites on a call; and the        *)
(* function that extract-references computes.                              *)
(***************************************************************************)
EXTENDS CallSites, References

GetKastAction(kore) == todo = Visit("TranslationUnitDecl") /\ out = Printer(kore)
GetCallSitesAction == todo = Visit("CallNode") /\ out = Printer(FALSE)

(* Inputs whose text matters.                                              *)
Input(kind, inputs) == \E input \in inputs : todo = << <<"write", kind, input>> >>
TextInputs ==
  \/ Input("Token", Short(Chars, 3)) /\ \E kore \in BOOLEAN : out = Printer(kore)
  \/ /\ Input("KLabel", Short(LabelChars, 2) \cup Short({"a", "_", "&", "'"}, 4))
     /\ out = Printer(TRUE)
  \/ Input("References", Paths) /\ out = Printer(FALSE)

Init ==
  /\ GetCallSitesAction \/ TextInputs \/ \E kore \in BOOLEAN : GetKastAction(kore)
  /\ budget = MaxBudget
  /\ status = "visiting"

(* Write one term, for an input, as this text.                             *)
ToWrite == Head(todo)[3]
Write(kind, node, text) ==
  /\ At({kind})
  /\ out' = [printAll(out, node) EXCEPT !.text = <<kind, ToWrite, text>>]
  /\ todo' = <<>> /\ UNCHANGED <<budget, status>>
PrintToken == Write("Token", KToken("STRING"), tokenText(out.kore, ToWrite))
PrintLabel == Write("KLabel", KApply("DECL", <<>>), escapeKLabel(ToWrite))
PrintReferences == Write("References", KToken("STRING"), extractReferences(ToWrite))

(* The traversal is over.  Where Clang met an error in the source, Tool.run *)
(* says so and main returns before it prints; otherwise it prints.         *)
RunFails ==
  /\ todo = <<>> /\ status \in {"visiting", "irregular"} /\ out.text = <<>>
  /\ status' = "failed"
  /\ UNCHANGED <<todo, out, budget>>
main ==
  /\ todo = <<>> /\ status \in {"visiting", "irregular"}
  /\ status' = IF status = "visiting" THEN "printed" ELSE "garbled"
  /\ UNCHANGED <<todo, out, budget>>

Ended == status \in {"printed", "garbled", "aborted", "failed"} /\ UNCHANGED vars

Next ==
  \/ AstNext \/ DeclsNext \/ TypesNext \/ StmtsNext \/ ExprsNext \/ CallSitesNext
  \/ PrintToken \/ PrintLabel \/ PrintReferences \/ RunFails \/ main \/ Ended
Spec == Init /\ [][Next]_vars

(* Type invariant: the printer waits for sorts that exist and never closes *)
(* a bracket that it did not open.                                         *)
TypeOK ==
  /\ budget \in 0..MaxBudget
  /\ status \in {"visiting", "irregular", "aborted", "printed", "garbled", "failed"}
  /\ out.depth \in Nat /\ out.extra \in BOOLEAN
  /\ \A i \in DOMAIN out.stack : out.stack[i].slot \in Sorts \cup LineSorts \cup {""}

-----------------------------------------------------------------------------
(* Every visit of a child adds exactly one term, whichever handler serves  *)
(* it and whatever shape the AST has: a list is as long as its count says  *)
(* although the members are counted and visited by different code, and an  *)
(* absent child is replaced by a placeholder exactly once.  So Kast::print *)
(* reaches the last node with its last call and closes every bracket, and  *)
(* a line of call-sites holds one term for each type.                      *)
PrintsWholeTree == status = "printed" => Complete(out)

(* Children come in the order of their parent's signature: no node stands  *)
(* where its parent's production in the grammar of the K definition wants  *)
(* another sort and no subsort of it (a declaration for an expression, a   *)
(* statement for an initializer).  The six places where the visitor itself *)
(* departs from the grammar are held to what it puts there.                *)
ChildrenFit == status \in {"visiting", "printed"} => out.misfits = {}

Printed(kind) == out.text # <<>> /\ out.text[1] = kind
Given == out.text[2]
Written == out.text[3]

(* What K reads from a token in the kast format, or from a label, is what  *)
(* clang-kast was given although quotes and backslashes are escaped twice  *)
(* and neighbouring codes of a label share their apostrophes.  In the kore *)
(* format, where the string is not quoted, it is escaped once too often.   *)
TextReadsBack ==
  /\ Printed("Token") /\ ~out.kore => readToken(Written) = Given
  /\ Printed("KLabel") => decodeKLabel(Written) = Given

(* extract-references names every reference of the selected files at its   *)
(* own line, in order and once, as a well-formed array; or, when one of    *)
(* them cannot be read, names none.                                        *)
ReferencesFound ==
  Printed("References") =>
    LET files == Given.files
        entries == FlattenSeq([i \in DOMAIN files |-> Expected(files[i])])
    IN IF \E i \in DOMAIN files : Selected(files[i]) /\ ~files[i].readable
       THEN Written = <<>>
       ELSE /\ SelectSeq(Written, LAMBDA t : t \notin {Open, Comma, Shut}) = entries
            /\ Head(Written) = Open /\ Last(Written) = Shut
            /\ \A i \in 2 .. Len(Written) - 1 : (Written[i] = Comma) = (i % 2 = 1)
=============================================================================
