----------------------------- MODULE AstVisitor -----------------------------
(***************************************************************************)
(* How the two Clang tools walk an AST.  RecursiveASTVisitor (Clang 6.0,   *)
(* external) calls one handler per AST node; a handler adds nodes to the   *)
(* output and visits children, itself or by leaving it to the default      *)
(* traversal, in a fixed order.  The calls that are still to be made are   *)
(* the sequence todo, and a handler replaces its own entry by its script.  *)
(*                                                                         *)
(* The AST is not given in advance: a handler chooses the facts it asks    *)
(* Clang for.  Each kind of node has a simplest choice, which is free, and *)
(* every other choice takes one unit of budget, so that the runs end.      *)
(***************************************************************************)
EXTENDS Kast, FiniteSets, FiniteSetsExt

CONSTANTS
  MaxBudget,   \* choices other than the simplest one in an AST, a bound
  MaxList      \* longest list of children, a bound

ASSUME VisitorAssumption == MaxBudget \in Nat /\ MaxList \in Nat

VARIABLES
  todo,     \* visits still to be made and nodes still to be added, in order
  out,      \* the printer of the nodes added so far
  budget,   \* choices left
  status    \* "visiting", "irregular", "aborted" by an exception, "failed", "printed", "garbled"

vars == <<todo, out, budget, status>>

(* Script items.  An exception ends the tool: nothing is printed.  Odd     *)
(* marks a shape of AST for which a handler and the default traversal      *)
(* disagree about the children.                                            *)
Visit(kind) == << <<"visit", kind>> >>
Throw == << <<"throw">> >>
Odd == << <<"odd">> >>
Times(n, script) == FlattenSeq([i \in 1..n |-> script])

(* Children that no handler visits: RecursiveASTVisitor does afterwards.   *)
Default(script) == script

(* Add what comes before the next visit.                                   *)
Continue(script, left) ==
  LET visits == {i \in DOMAIN script : Class(script[i]) = "visit"}
      n == IF visits = {} THEN Len(script) ELSE Min(visits) - 1
      now == SubSeq(script, 1, n)
      met == {Class(now[i]) : i \in DOMAIN now}
  IN IF "throw" \in met
     THEN status' = "aborted" /\ todo' = <<>> /\ budget' = left /\ UNCHANGED out
     ELSE /\ status' = IF "odd" \in met THEN "irregular" ELSE status
          /\ out' = printAll(out, SelectSeq(now, LAMBDA node : Class(node) # "odd"))
          /\ todo' = SubSeq(script, n + 1, Len(script))
          /\ budget' = left

(* The handler of the next visit, when that is of one of these kinds.      *)
At(kinds) == todo # <<>> /\ Head(todo)[2] \in kinds
On(kinds, cost, script) ==
  /\ At(kinds) /\ cost <= budget
  /\ Continue(script \o Tail(todo), budget - cost)

Cost(b) == IF b THEN 1 ELSE 0
Count(flags) == Cardinality({i \in DOMAIN flags : flags[i]})
Flags == UNION {[1..n -> BOOLEAN] : n \in 0..MaxList}
ListCost(n) == IF n > 1 THEN n - 1 ELSE 0

-----------------------------------------------------------------------------
(* The private helpers of GetKastVisitor.                                  *)
NoNNS == KApply("NNS", <<>>)
NoType == KApply("ATYPERESULT", <<>>)
NoExpression == KApply("AEXPR", <<>>)
NoStatement == KApply("ASTMT", <<>>)
NoInit == KApply("INIT", <<>>)
VisitBool == KToken("BOOL")
VisitInt == KToken("INT")
VisitString == KToken("STRING")
KSeqList(n) == KApply("LIST", <<"K">>) \o KSequence(n)
List(n) == KApply("STRICTLIST", <<"LIST">>) \o KSeqList(n)
Name == KApply("NAME", <<"NNS", "CID">>)
UnaryOperator == KApply("EXPR", <<"OPID", "EXPR">>)
BinaryOperator == KApply("EXPR", <<"OPID", "EXPR", "INIT">>)
Specifier(sort) == KApply("DECL", <<"SPECIFIER", "DECL">>) \o KApply(sort, <<>>)
AlignasSpecifier ==
  KApply("DECL", <<"SPECIFIER", "DECL">>) \o KApply("SPECIFIER", <<"INT">>) \o VisitInt
Identifier == KApply("CID", <<"STRING">>) \o VisitString
Qualifier == KApply("ATYPE", <<"QUALIFIER", "ATYPE">>) \o KApply("QUALIFIER", <<>>)
mangledIdentifier == Identifier

(* A declaration context: excluded[i] says that declaration i is implicit  *)
(* and outside of functions.  The length of the list is counted here, the  *)
(* declarations are visited later, by the default traversal or by          *)
(* TraverseDeclContextNode, and each visit decides again.                  *)
DeclContextAll(excluded) == KSeqList(Len(excluded))
DeclContext(excluded) == KSeqList(Len(excluded) - Count(excluded))
ContextChildren(excluded, kind) ==
  FlattenSeq([i \in DOMAIN excluded |-> Visit(IF excluded[i] THEN "Excluded" ELSE kind)])
TraverseDeclContextNode(excluded, kind) ==
  FlattenSeq([i \in DOMAIN excluded |-> IF excluded[i] THEN <<>> ELSE Visit(kind)])
ContextCost(excluded) == ListCost(Len(excluded)) + Cost(Count(excluded) > 0)

CabsLoc ==
  \/ On({"CabsLoc"}, 0, KApply("CABSLOC", <<"STRING", "STRING", "INT", "INT", "BOOL">>)
       \o VisitString \o VisitString \o VisitInt \o VisitInt \o VisitBool)
  \/ On({"CabsLoc"}, 1, KApply("CABSLOC", <<>>))
  \/ On({"InvalidLoc"}, 0, KApply("CABSLOC", <<>>))

StorageClass ==
  \/ On({"StorageClass"}, 0, <<>>)
  \/ \E sort \in {"STORAGECLASSSPECIFIER", "AUTOSPECIFIER"} :
       On({"StorageClass"}, 1, Specifier(sort))
  \/ On({"StorageClass"}, 1, Throw)

ThreadStorageClass ==
  \/ On({"ThreadStorageClass"}, 0, <<>>)
  \/ On({"ThreadStorageClass"}, 1, Specifier("STORAGECLASSSPECIFIER"))
  \/ On({"ThreadStorageClass"}, 1, Throw)

(* An optional specifier: inline, constexpr, mutable, alignas.             *)
Optional(kind, script) ==
  \/ On({kind}, 0, <<>>)
  \/ On({kind}, 1, script)

-----------------------------------------------------------------------------
(* Names.  A name that only refers has no declaration behind it (decl = 0) *)
(* and is #NoName when empty; a declared one is numbered.                  *)
TraverseIdentifierInfo ==
  \/ On({"IdentifierInfo", "DeclaredIdentifierInfo"}, 0, Identifier)
  \/ On({"IdentifierInfo"}, 1, KApply("NONAME", <<>>))
  \/ On({"DeclaredIdentifierInfo"}, 1,
        KApply("UNNAMEDCID", <<"INT", "STRING">>) \o VisitInt \o VisitString)

VisitOverloadedOperator ==
  \/ On({"OverloadedOperator"}, 0, KApply("OPID", <<>>))
  \/ On({"OverloadedOperator"}, 1, Throw)

(* Names of variables, types, labels and namespaces are identifiers; names *)
(* of functions and members may be any.                                    *)
TraverseDeclarationName ==
  \/ On({"DeclarationName", "IdentifierName"}, 0, Visit("IdentifierInfo"))
  \/ On({"DeclarationAsName"}, 0, Visit("DeclaredIdentifierInfo"))
  \/ On({"DeclarationName"}, 1, KApply("TYPEID", <<"ATYPE">>) \o Visit("Type"))
  \/ On({"DeclarationName"}, 1, KApply("DESTRUCTORID", <<"ATYPE">>) \o Visit("Type"))
  \/ On({"DeclarationName"}, 1, Visit("OverloadedOperator"))
  \/ On({"DeclarationName"}, 1, Throw)

(* A chain of nested names ends in a namespace, a type or an identifier,   *)
(* or is the global namespace alone.  A type stands where an identifier is *)
(* asked for.                                                              *)
TraverseNestedNameSpecifier ==
  \/ On({"NNS"}, 0, NoNNS)
  \/ On({"NNS"}, 1, Visit("SomeNNS"))
  \/ On({"SomeNNS"}, 0, KApply("NAMESPACE", <<>>))
  \/ On({"SomeNNS"}, 0, Visit("NNSSpecifier"))
  \/ On({"SomeNNS"}, 1,
        KApply("NNS", <<"NNS", "NNSSPECIFIER">>) \o Visit("SomeNNS") \o Visit("NNSSpecifier"))
  \/ \E named \in {"IdentifierInfo", "IdentifierName", "ClassType"} :
       On({"NNSSpecifier"}, 0,
          KApplyAs("NNSSPECIFIER", <<"CID">>, <<IF named = "ClassType" THEN "ATYPE" ELSE "CID">>)
          \o Visit(named))
  \/ On({"NNSSpecifier"}, 0, Throw)

AstNext ==
  \/ CabsLoc \/ StorageClass \/ ThreadStorageClass
  \/ TraverseIdentifierInfo \/ VisitOverloadedOperator \/ TraverseDeclarationName
  \/ TraverseNestedNameSpecifier
=============================================================================
