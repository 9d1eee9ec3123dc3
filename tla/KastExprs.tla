------------------------------ MODULE KastExprs ------------------------------
(***************************************************************************)
(* Expressions: the handlers of GetKastVisitor.h, lines 1406 to 2180.      *)
(***************************************************************************)
EXTENDS KastStmts

(* A member: implicit access leaves out the object.                        *)
MemberName == Name \o Visit("NNS") \o Visit("DeclarationName")
TraverseMemberHelper ==
  \E implicit \in BOOLEAN :
    On({"ExprNode"}, 1,
       IF implicit THEN MemberName
       ELSE KApply("EXPR", <<"BOOL", "BOOL", "NAME", "EXPR">>) \o VisitBool \o VisitBool
            \o MemberName \o Visit("Expr"))

Expressions(n) == Times(n, Visit("Expr"))
VisitArraySubscriptExpr ==
  On({"ExprNode"}, 1, KApply("EXPR", <<"EXPR", "EXPR">>) \o Default(Expressions(2)))

(* The list of arguments starts after the first child, the callee.         *)
TraverseCallExpr ==
  \/ \E n \in 0..MaxList :
       On({"ExprNode"}, 1 + ListCost(n),
          KApply("RESOLVEDEXPR", <<"EXPR", "STRICTLIST", "STRICTLISTRESULT">>)
          \o Visit("Expr") \o List(n) \o Times(n, Visit("Argument"))
          \o KApply("STRICTLISTRESULT", <<"LIST">>) \o KApply("LIST", <<>>))
  \/ On({"ExprNode"}, 1, Throw)

(* No node of their own: conversions, parentheses, cleanups, temporaries,  *)
(* substituted parameters and __func__, whose name is missing as long as   *)
(* it depends on a template.                                               *)
Wrapper == On({"ExprNode"}, 1, Default(Visit("Expr")))
VisitImplicitCastExpr == Wrapper
VisitParenExpr == Wrapper
VisitExprWithCleanups == Wrapper
VisitCXXBindTemporaryExpr == Wrapper
VisitSubstNonTypeTemplateParmExpr == Wrapper
VisitPredefinedExpr ==
  \/ On({"ExprNode"}, 1, Default(Visit("Literal")))
  \/ On({"ExprNode"}, 1, Odd)

(* Names.  The default traversal also visits explicit template arguments,  *)
(* for which Name has no place.                                            *)
VisitDeclRefExpr ==
  \/ On({"ExprNode"}, 0, Name \o Default(Visit("NNS") \o Visit("DeclarationName")))
  \/ On({"ExprNode"}, 1, Odd \o Name
        \o Default(Visit("NNS") \o Visit("DeclarationName") \o Visit("TemplateArgument")))
VisitDependentScopeDeclRefExpr ==
  \E args \in 0..1 :
    On({"ExprNode"}, 1, Times(args, Odd) \o Name
       \o Default(Visit("SomeNNS") \o Visit("DeclarationName")
                  \o Times(args, Visit("TemplateArgument"))))
TraverseUnresolvedLookupExpr ==
  On({"ExprNode"}, 1, Name \o Visit("NNS") \o Visit("DeclarationName"))

-----------------------------------------------------------------------------
(* Operators.  Overloaded ones have one or two arguments; of two arguments *)
(* of ++ and -- the second only says that the operator is postfix.         *)
VisitUnaryOpcode ==
  \/ On({"UnaryOpcode"}, 0, KApply("OPID", <<>>))
  \/ On({"UnaryOpcode"}, 1, Throw)
VisitBinaryOpcode ==
  \/ On({"BinaryOpcode"}, 0, KApply("OPID", <<>>))
  \/ On({"BinaryOpcode"}, 1, Throw)
VisitUnaryOperator ==
  On({"ExprNode"}, 1, UnaryOperator \o Visit("UnaryOpcode") \o Default(Visit("Expr")))
VisitBinaryOperator ==
  On({"ExprNode"}, 1, BinaryOperator \o Visit("BinaryOpcode") \o Default(Expressions(2)))
VisitConditionalOperator ==
  On({"ExprNode"}, 1, KApply("EXPR", <<"EXPR", "EXPR", "EXPR">>) \o Default(Expressions(3)))

Unary(opcode) == UnaryOperator \o Visit(opcode) \o Visit("Expr")
Binary(opcode) == BinaryOperator \o Visit(opcode) \o Expressions(2)
OperatorCall(operator, args) ==
  CASE operator = "call" -> KApply("EXPR", <<>>)
    [] operator = "either" -> CASE args = 2 -> Binary("OverloadedOperator")
                                [] args = 1 -> Unary("OverloadedOperator")
                                [] OTHER -> Throw
    [] operator = "step" -> IF args \in {1, 2} THEN Unary("UnaryOpcode") ELSE Throw
    [] operator = "binary" -> IF args = 2 THEN Binary("OverloadedOperator") ELSE Throw
    [] operator = "unary" -> IF args = 1 THEN Unary("OverloadedOperator") ELSE Throw
    [] OTHER -> Throw
TraverseCXXOperatorCallExpr ==
  \E operator \in {"call", "either", "step", "binary", "unary", "other"}, args \in 1..3 :
    On({"ExprNode"}, 1, OperatorCall(operator, args))

-----------------------------------------------------------------------------
(* Casts and construction.                                                 *)
Cast(sort) ==
  On({"ExprNode"}, 1, KApply(sort, <<"ATYPE", "EXPR">>) \o Default(Visit("Type") \o Visit("Expr")))
VisitCStyleCastExpr == Cast("EXPR")
VisitCXXReinterpretCastExpr == Cast("RESOLVEDEXPR")
VisitCXXStaticCastExpr == Cast("EXPR")
VisitCXXDynamicCastExpr == Cast("EXPR")
VisitCXXConstCastExpr == Cast("RESOLVEDEXPR")

TraverseCXXConstructHelper(n) == Visit("Type") \o KSeqList(n) \o Times(n, Visit("Argument"))
TraverseCXXUnresolvedConstructExpr ==
  \E n \in 0..MaxList :
    On({"ExprNode"}, 1 + ListCost(n),
       KApply("EXPR", <<"ATYPE", "LIST">>) \o TraverseCXXConstructHelper(n))
TraverseCXXFunctionalCastExpr ==
  On({"ExprNode"}, 1, KApply("EXPR", <<"ATYPE", "LIST">>) \o TraverseCXXConstructHelper(1))
TraverseCXXScalarValueInitExpr ==
  On({"ExprNode"}, 1, KApply("EXPR", <<"ATYPE", "LIST">>) \o TraverseCXXConstructHelper(0))
TraverseCXXConstructExpr ==
  \E n \in 0..MaxList :
    On({"ExprNode"}, 1 + ListCost(n), KApply("INIT", <<"BOOL", "ATYPE", "LIST">>)
       \o VisitBool \o TraverseCXXConstructHelper(n))
TraverseCXXTemporaryObjectExpr ==
  \E n \in 0..MaxList :
    On({"ExprNode"}, 1 + ListCost(n),
       KApply("EXPR", <<"ATYPE", "LIST">>) \o TraverseCXXConstructHelper(n))

-----------------------------------------------------------------------------
(* sizeof and the rest.  The size of a variable length array is a child of *)
(* sizeof besides the type.                                                *)
VisitUnaryExprOrTypeTraitExpr ==
  \/ On({"ExprNode"}, 1, KApply("EXPR", <<"ATYPE">>) \o Default(Visit("Type")))
  \/ On({"ExprNode"}, 1, KApply("EXPR", <<"EXPR">>) \o Default(Visit("Expr")))
  \/ On({"ExprNode"}, 1, Odd \o KApply("EXPR", <<"ATYPE">>)
        \o Default(Visit("Type") \o Visit("Expr")))
  \/ On({"ExprNode"}, 1, Throw)
VisitSizeOfPackExpr == On({"ExprNode"}, 1, KApply("EXPR", <<"CID">>) \o Visit("IdentifierName"))

TraverseCXXPseudoDestructorExpr ==
  \E scope \in BOOLEAN, destroyed \in BOOLEAN :
    On({"ExprNode"}, 1, KApply("EXPR", <<"EXPR", "BOOL", "NNS", "ATYPE", "ATYPE">>)
       \o Visit("Expr") \o VisitBool \o Visit("NNS")
       \o (IF scope THEN Visit("Type") ELSE NoType)
       \o (IF destroyed THEN Visit("Type") ELSE NoType))

OneExpr == On({"ExprNode"}, 1, KApply("EXPR", <<"EXPR">>) \o Default(Visit("Expr")))
VisitCXXNoexceptExpr == OneExpr
VisitPackExpansionExpr == OneExpr
VisitMaterializeTemporaryExpr == OneExpr

TraverseCXXNewExpr ==
  \E array \in BOOLEAN, init \in BOOLEAN, n \in 0..MaxList :
    On({"ExprNode"}, 1 + ListCost(n),
       KApply("EXPR", <<"BOOL", "ATYPE", "AEXPR", "INIT", "LIST">>) \o VisitBool \o Visit("Type")
       \o (IF array THEN Visit("Expr") ELSE NoExpression)
       \o (IF init THEN Visit("Expr") ELSE NoInit)
       \o KSeqList(n) \o Times(n, Visit("Argument")))
VisitCXXDeleteExpr ==
  On({"ExprNode"}, 1, KApply("EXPR", <<"BOOL", "BOOL", "EXPR">>) \o VisitBool \o VisitBool
     \o Default(Visit("Expr")))
VisitCXXThisExpr == On({"ExprNode"}, 1, KApply("THIS", <<>>))
VisitCXXThrowExpr ==
  \E value \in BOOLEAN :
    On({"ExprNode"}, 1, KApply("EXPR", <<"AEXPR">>)
       \o (IF value THEN Default(Visit("Expr")) ELSE NoExpression))

(* explicit[i] says that capture i was written: those are counted, then    *)
(* visited.                                                                *)
TraverseLambdaCapture ==
  \/ On({"LambdaCapture"}, 0, KApply("CAPTURE", <<"CAPTUREKIND", "BOOL">>)
        \o Visit("VarDecl") \o VisitBool)
  \/ On({"LambdaCapture"}, 0, KApply("CAPTURE", <<"CAPTUREKIND", "BOOL">>)
        \o KApply("CAPTUREKIND", <<"DECL">>) \o Visit("VarDecl") \o VisitBool)
  \/ On({"LambdaCapture"}, 0, KApply("CAPTURE", <<"CAPTUREKIND", "BOOL">>)
        \o KApply("THIS", <<>>) \o VisitBool)
  \/ On({"LambdaCapture"}, 1, Throw)
Captures(explicit) ==
  KSeqList(Count(explicit))
  \o FlattenSeq([i \in DOMAIN explicit |-> IF explicit[i] THEN Visit("LambdaCapture") ELSE <<>>])
TraverseLambdaExpr ==
  \E explicit \in Flags :
    On({"ExprNode"}, 1 + ListCost(Len(explicit)),
       KApply("EXPR", <<"CAPTUREDEFAULT", "LIST", "ATYPE", "ASTMT">>)
       \o KApply("CAPTUREDEFAULT", <<>>) \o Captures(explicit)
       \o Visit("FunctionProtoType") \o Visit("Block"))

-----------------------------------------------------------------------------
(* Literals.                                                               *)
VisitAPFloat ==
  \/ On({"APFloat"}, 0, KToken("FLOAT"))
  \/ On({"APFloat"}, 1, Throw)
StringNode == KApply("EXPR", <<"CHARKIND", "STRING">>) \o KApply("CHARKIND", <<>>) \o VisitString
VisitStringLiteral ==
  \/ On({"ExprNode"}, 1, StringNode)
  \/ On({"StringNode"}, 0, StringNode)
VisitCharacterLiteral ==
  On({"ExprNode"}, 1, KApply("EXPR", <<"CHARKIND", "INT">>) \o KApply("CHARKIND", <<>>) \o VisitInt)
TraverseIntegerLiteral ==
  On({"ExprNode"}, 1, KApply("EXPR", <<"INT", "ATYPE">>) \o VisitInt \o Visit("Type"))
TraverseFloatingLiteral ==
  On({"ExprNode"}, 1, KApply("EXPR", <<"FLOAT", "ATYPE">>) \o Visit("APFloat") \o Visit("Type"))
VisitCXXNullPtrLiteralExpr == On({"ExprNode"}, 1, KApply("EXPR", <<>>))
VisitCXXBoolLiteralExpr == On({"ExprNode"}, 1, KApply("EXPR", <<"BOOL">>) \o VisitBool)

(* Initializers: the list as it was written, not as Clang completed it.    *)
TraverseInitListExpr ==
  \E n \in 0..MaxList :
    On({"ExprNode"}, 1 + ListCost(n),
       KApply("BRACEINIT", <<"LIST">>) \o KSeqList(n) \o Expressions(n))
VisitImplicitValueInitExpr ==
  On({"ExprNode"}, 1, KApply("EXPRESSIONLIST", <<"LIST">>) \o KSeqList(0))
VisitParenListExpr ==
  \E n \in 0..MaxList :
    On({"ExprNode"}, 1 + ListCost(n),
       KApply("EXPR", <<"LIST">>) \o KSeqList(n) \o Default(Expressions(n)))

VisitTypeTraitExpr ==
  \/ \E n \in 0..MaxList :
       On({"ExprNode"}, 1 + ListCost(n), KApply("EXPR", <<"STRING", "LIST">>) \o VisitString
          \o KSeqList(n) \o Default(Times(n, Visit("Type"))))
  \/ On({"ExprNode"}, 1, Throw)
VisitAtomicExpr ==
  \/ \E n \in 0..MaxList :
       On({"ExprNode"}, 1 + ListCost(n), KApply("EXPR", <<"STRING", "LIST">>) \o VisitString
          \o KSeqList(n) \o Default(Expressions(n)))
  \/ On({"ExprNode"}, 1, Throw)
VisitCXXDefaultArgExpr == On({"DefaultArgNode"}, 0, KSequence(0))

ExprsNext ==
  \/ TraverseMemberHelper \/ VisitArraySubscriptExpr \/ TraverseCallExpr
  \/ VisitImplicitCastExpr \/ VisitParenExpr \/ VisitExprWithCleanups
  \/ VisitCXXBindTemporaryExpr \/ VisitSubstNonTypeTemplateParmExpr \/ VisitPredefinedExpr
  \/ VisitDeclRefExpr \/ VisitDependentScopeDeclRefExpr \/ TraverseUnresolvedLookupExpr
  \/ VisitUnaryOpcode \/ VisitBinaryOpcode \/ VisitUnaryOperator \/ VisitBinaryOperator
  \/ VisitConditionalOperator \/ TraverseCXXOperatorCallExpr \/ VisitCStyleCastExpr
  \/ VisitCXXReinterpretCastExpr \/ VisitCXXStaticCastExpr \/ VisitCXXDynamicCastExpr
  \/ VisitCXXConstCastExpr \/ TraverseCXXUnresolvedConstructExpr
  \/ TraverseCXXFunctionalCastExpr \/ TraverseCXXScalarValueInitExpr
  \/ TraverseCXXConstructExpr \/ TraverseCXXTemporaryObjectExpr
  \/ VisitUnaryExprOrTypeTraitExpr \/ VisitSizeOfPackExpr
  \/ TraverseCXXPseudoDestructorExpr \/ VisitCXXNoexceptExpr \/ VisitPackExpansionExpr
  \/ VisitMaterializeTemporaryExpr \/ TraverseCXXNewExpr \/ VisitCXXDeleteExpr
  \/ VisitCXXThisExpr \/ VisitCXXThrowExpr \/ TraverseLambdaCapture \/ TraverseLambdaExpr
  \/ VisitAPFloat \/ VisitStringLiteral \/ VisitCharacterLiteral \/ TraverseIntegerLiteral
  \/ TraverseFloatingLiteral \/ VisitCXXNullPtrLiteralExpr \/ VisitCXXBoolLiteralExpr
  \/ TraverseInitListExpr \/ VisitImplicitValueInitExpr \/ VisitParenListExpr
  \/ VisitTypeTraitExpr \/ VisitAtomicExpr \/ VisitCXXDefaultArgExpr
=============================================================================
