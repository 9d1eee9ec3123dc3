------------------------------ MODULE KastStmts ------------------------------
(***************************************************************************)
(* Statements: the handlers of GetKastVisitor.h, lines 45 to 70 and 1257   *)
(* to 1404.                                                                *)
(***************************************************************************)
EXTENDS KastTypes

(* An expression, except a default argument, is wrapped in its location.   *)
ExprLoc == KApply("EXPRLOC", <<"CABSLOC", "KITEM">>) \o Visit("CabsLoc")
TraverseStmt ==
  \/ On({"Stmt"}, 0, Visit("StmtNode"))
  \/ On({"Block"}, 0, Visit("BlockNode"))
  \/ On({"Handler"}, 0, Visit("HandlerNode"))
  \/ On({"Expr", "Argument"}, 0, ExprLoc \o Visit("ExprNode"))
  \/ On({"Literal"}, 0, ExprLoc \o Visit("StringNode"))
  \/ On({"Stmt"}, 1, ExprLoc \o Visit("ExprNode"))
  \/ On({"Argument"}, 1, Visit("DefaultArgNode"))

VisitStmt == On({"StmtNode", "ExprNode"}, 1, Throw)

VisitDeclStmt ==
  \E n \in 1..MaxList :
    On({"StmtNode"}, 1 + ListCost(n), KApply("STMT", <<"LIST">>) \o KSeqList(n)
       \o Default(Times(n, Visit("LocalDecl"))))

VisitBreakStmt == On({"StmtNode"}, 1, KApply("STMT", <<>>))
VisitContinueStmt == On({"StmtNode"}, 1, KApply("STMT", <<>>))
VisitGotoStmt == On({"StmtNode"}, 1, KApply("STMT", <<"CID">>) \o Visit("IdentifierName"))
VisitReturnStmt ==
  \E value \in BOOLEAN :
    On({"StmtNode"}, 1, KApply("STMT", <<"INIT">>)
       \o (IF value THEN Default(Visit("Expr")) ELSE NoInit))
VisitNullStmt == On({"StmtNode"}, 0, KApply("STMT", <<>>))

StmtChildren(n) == KSeqList(n)
Compound(n) ==
  KApply("ASTMT", <<"LIST">>) \o StmtChildren(n) \o Default(Times(n, Visit("Stmt")))
VisitCompoundStmt ==
  \E n \in 0..MaxList :
    \/ On({"StmtNode"}, 1 + ListCost(n), Compound(n))
    \/ On({"BlockNode"}, ListCost(n), Compound(n))
VisitLabelStmt ==
  On({"StmtNode"}, 1, KApply("ASTMT", <<"CID", "LIST">>) \o Visit("IdentifierName")
     \o StmtChildren(1) \o Default(Visit("Stmt")))

TraverseForStmt ==
  \E init \in BOOLEAN, cond \in BOOLEAN, inc \in BOOLEAN :
    On({"StmtNode"}, 1, KApply("ASTMT", <<"ASTMT", "AEXPR", "AEXPR", "ASTMT">>)
       \o (IF init THEN Visit("Stmt") ELSE NoStatement)
       \o (IF cond THEN Visit("Expr") ELSE NoExpression)
       \o (IF inc THEN Visit("Expr") ELSE NoExpression) \o Visit("Stmt"))

(* A condition is an expression or declares a variable: while, if and      *)
(* switch are overloaded in the grammar, and the handler gives the same    *)
(* signature to both.                                                      *)
Condition == {"Expr", "VarDecl"}
ConditionSort(cond) == IF cond = "Expr" THEN "EXPR" ELSE "DECL"
TraverseWhileStmt ==
  \E cond \in Condition :
    On({"StmtNode"}, 1,
       KApplyAs("ASTMT", <<"EXPR", "ASTMT">>, <<ConditionSort(cond), "ASTMT">>)
       \o Visit(cond) \o Visit("Stmt"))
VisitDoStmt ==
  On({"StmtNode"}, 1, KApply("ASTMT", <<"ASTMT", "EXPR">>)
     \o Default(Visit("Stmt") \o Visit("Expr")))
TraverseIfStmt ==
  \E cond \in Condition, else \in BOOLEAN :
    On({"StmtNode"}, 1,
       KApplyAs("ASTMT", <<"DECL", "ASTMT", "ASTMT">>, <<ConditionSort(cond), "ASTMT", "ASTMT">>)
       \o Visit(cond) \o Visit("Stmt") \o (IF else THEN Visit("Stmt") ELSE NoStatement))
TraverseSwitchStmt ==
  \E cond \in Condition :
    On({"StmtNode"}, 1,
       KApplyAs("ASTMT", <<"DECL", "ASTMT">>, <<ConditionSort(cond), "ASTMT">>)
       \o Visit(cond) \o Visit("Stmt"))
TraverseCaseStmt ==
  \E range \in BOOLEAN :
    On({"StmtNode"}, 1, KApply("ASTMT", <<"EXPR", "ASTMT">>)
       \o (IF range THEN Throw ELSE Visit("Expr") \o Visit("Stmt")))
VisitDefaultStmt ==
  On({"StmtNode"}, 1, KApply("ASTMT", <<"ASTMT">>) \o Default(Visit("Stmt")))

TraverseCXXTryStmt ==
  \E n \in 1..MaxList :
    On({"StmtNode"}, 1 + ListCost(n), KApply("ASTMT", <<"ASTMT", "LIST">>)
       \o Visit("Block") \o KSeqList(n) \o Times(n, Visit("Handler")))
VisitCXXCatchStmt ==
  \E declared \in BOOLEAN :
    On({"HandlerNode"}, 0, KApply("ASTMT", <<"CATCHDECL", "ASTMT">>)
       \o (IF declared THEN Default(Visit("VarDecl")) ELSE KApply("CATCHDECL", <<>>))
       \o Default(Visit("Block")))

StmtsNext ==
  \/ TraverseStmt \/ VisitStmt \/ VisitDeclStmt \/ VisitBreakStmt \/ VisitContinueStmt
  \/ VisitGotoStmt \/ VisitReturnStmt \/ VisitNullStmt \/ VisitCompoundStmt
  \/ VisitLabelStmt \/ TraverseForStmt \/ TraverseWhileStmt \/ VisitDoStmt
  \/ TraverseIfStmt \/ TraverseSwitchStmt \/ TraverseCaseStmt \/ VisitDefaultStmt
  \/ TraverseCXXTryStmt \/ VisitCXXCatchStmt
=============================================================================
