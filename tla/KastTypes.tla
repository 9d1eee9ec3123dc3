------------------------------ MODULE KastTypes ------------------------------
(***************************************************************************)
(* Types: the handlers of GetKastVisitor.h, lines 938 to 1255.  A type     *)
(* that names a class has a class type, an alias or a template behind it.  *)
(***************************************************************************)
EXTENDS KastDecls

TypeNodes == {"TypeNode", "ClassTypeNode"}

Qualifiers(n) == Times(n, Qualifier)
TraverseType ==
  \/ \E n \in 0..3 : On({"Type"}, Cost(n > 0), Qualifiers(n) \o Visit("TypeNode"))
  \/ On({"ClassType"}, 0, Visit("ClassTypeNode"))
  \/ On({"FunctionProtoType"}, 0, Visit("FunctionProtoTypeNode"))

VisitType == On({"TypeNode"}, 1, Throw)

ExceptionSpec ==
  \/ On({"ExceptionSpec"}, 0, KApply("EXCEPTIONSPEC", <<>>))
  \/ \E computed \in BOOLEAN :
       On({"ExceptionSpec"}, 1, KApply("EXCEPTIONSPEC", <<"AEXPR">>)
          \o (IF computed THEN Visit("Expr") ELSE NoExpression))
  \/ \E n \in 0..MaxList :
       On({"ExceptionSpec"}, 1, KApply("EXCEPTIONSPEC", <<"STRICTLIST">>) \o List(n)
          \o Times(n, Visit("Type")))
  \/ On({"ExceptionSpec"}, 1, Throw)

Prototype(n) ==
  KApply("ATYPE", <<"ATYPE", "STRICTLIST", "EXCEPTIONSPEC", "BOOL">>) \o Visit("Type")
  \o List(n) \o Times(n, Visit("Type")) \o Visit("ExceptionSpec") \o VisitBool
TraverseFunctionProtoType ==
  \E n \in 0..MaxList :
    \/ On({"FunctionProtoTypeNode"}, ListCost(n), Prototype(n))
    \/ On({"TypeNode"}, 1 + ListCost(n), Prototype(n))

VisitBuiltinType ==
  \/ On({"TypeNode"}, 0, KApply("ATYPE", <<"TYPESPECIFIER">>) \o KApply("TYPESPECIFIER", <<>>))
  \/ On({"TypeNode"}, 1, Throw)

OneType(script) == On({"TypeNode"}, 1, KApply("ATYPE", <<"ATYPE">>) \o script)
VisitPointerType == OneType(Default(Visit("Type")))
VisitLValueReferenceType == OneType(Default(Visit("Type")))
VisitRValueReferenceType == OneType(Default(Visit("Type")))
VisitPackExpansionType == OneType(Default(Visit("Type")))
VisitTypeOfType == OneType(Default(Visit("Type")))

VisitMemberPointerType ==
  On({"TypeNode"}, 1, KApply("ATYPE", <<"ATYPE", "ATYPE">>)
     \o Default(Visit("ClassType") \o Visit("Type")))

ArraySizeModifier ==
  \/ On({"ArraySizeModifier"}, 0, <<>>)
  \/ On({"ArraySizeModifier"}, 1, Throw)
TraverseArrayHelper(sort) ==
  Visit("ArraySizeModifier") \o KApply("ATYPE", <<"ATYPE", sort>>) \o Visit("Type")
TraverseConstantArrayType == On({"TypeNode"}, 1, TraverseArrayHelper("INT") \o VisitInt)
TraverseDependentSizedArrayType ==
  On({"TypeNode"}, 1, TraverseArrayHelper("AEXPR") \o Visit("Expr"))
TraverseVariableArrayType == On({"TypeNode"}, 1, TraverseArrayHelper("AEXPR") \o Visit("Expr"))
TraverseIncompleteArrayType ==
  On({"TypeNode"}, 1, TraverseArrayHelper("AEXPR") \o NoExpression)

VisitTypedefType == On(TypeNodes, 1, KApply("ATYPE", <<"CID">>) \o Visit("IdentifierName"))

VisitTypeKeyword ==
  \/ \E sort \in {"CLASSKEY", "TAG"} : On({"TypeKeyword"}, 0, KApply(sort, <<>>))
  \/ On({"TypeKeyword"}, 1, Throw)

VisitElaboratedType ==
  \E qualified \in BOOLEAN :
    On(TypeNodes, 1, KApply("ATYPE", <<"TAG", "NNS", "ATYPE">>) \o Visit("TypeKeyword")
       \o (IF qualified THEN Default(Visit("SomeNNS")) ELSE NoNNS)
       \o Default(Visit("ClassType")))

VisitDecltypeType == On({"TypeNode"}, 1, KApply("ATYPE", <<"EXPR">>) \o Default(Visit("Expr")))
VisitTypeOfExprType == On({"TypeNode"}, 1, KApply("ATYPE", <<"EXPR">>) \o Default(Visit("Expr")))

VisitTemplateTypeParmType ==
  \/ On({"TypeNode"}, 1, KApply("ATYPE", <<"CID">>) \o Visit("IdentifierInfo"))
  \/ On({"TemplateTypeParmType"}, 0, KApply("ATYPE", <<"CID">>) \o Visit("IdentifierInfo"))

TraverseSubstTemplateTypeParmType == On({"TypeNode"}, 1, Visit("Type"))
TraverseInjectedClassNameType == On(TypeNodes, 1, Visit("TemplateSpecializationNode"))

VisitTagType ==
  \/ On({"ClassTypeNode"}, 0, Name \o NoNNS \o Visit("DeclarationAsName"))
  \/ On({"TypeNode"}, 1, Name \o NoNNS \o Visit("DeclarationAsName"))

(* The template is given by a whole name, not by an identifier.            *)
TraverseDependentTemplateSpecializationType ==
  \E n \in 0..MaxList :
    On(TypeNodes, 1 + ListCost(n), KApplyAs("ATYPE", <<"CID", "LIST">>, <<"NAME", "LIST">>)
       \o Name \o Visit("NNS") \o Visit("IdentifierInfo") \o TemplateArguments(n))

TraverseTemplateSpecializationType ==
  \E n \in 0..MaxList :
    \/ On(TypeNodes, 1 + ListCost(n), KApply("ATYPE", <<"CID", "LIST">>)
          \o Visit("TemplateName") \o TemplateArguments(n))
    \/ On({"TemplateSpecializationNode"}, ListCost(n), KApply("ATYPE", <<"CID", "LIST">>)
          \o Visit("TemplateName") \o TemplateArguments(n))

VisitDependentNameType ==
  On(TypeNodes, 1, KApply("ATYPE", <<"TAG", "CID", "NNS">>) \o Visit("TypeKeyword")
     \o Visit("IdentifierInfo") \o Default(Visit("SomeNNS")))

TraverseAutoType ==
  \/ On({"TypeNode"}, 1, Visit("Type"))
  \/ On({"TypeNode"}, 1, KApply("ATYPE", <<"BOOL">>) \o VisitBool)

(* Parentheses and decay leave no node.                                    *)
VisitParenType == On({"TypeNode"}, 1, Default(Visit("Type")))
VisitDecayedType == On({"TypeNode"}, 1, Default(Visit("Type")))

(* The underlying type is null, and prints nothing, while it is dependent. *)
VisitUnaryTransformType ==
  \E sugared \in BOOLEAN :
    On({"TypeNode"}, 1,
       (IF sugared THEN KApply("ATYPE", <<"ATYPE", "ATYPE">>) ELSE KApply("ATYPE", <<"ATYPE">>))
       \o Default(Visit("Type") \o (IF sugared THEN Visit("Type") ELSE <<>>)))

TypesNext ==
  \/ TraverseType \/ VisitType \/ ExceptionSpec \/ TraverseFunctionProtoType
  \/ VisitBuiltinType \/ VisitPointerType \/ VisitLValueReferenceType
  \/ VisitRValueReferenceType \/ VisitPackExpansionType \/ VisitTypeOfType
  \/ VisitMemberPointerType \/ ArraySizeModifier \/ TraverseConstantArrayType
  \/ TraverseDependentSizedArrayType \/ TraverseVariableArrayType
  \/ TraverseIncompleteArrayType \/ VisitTypedefType \/ VisitTypeKeyword
  \/ VisitElaboratedType \/ VisitDecltypeType \/ VisitTypeOfExprType
  \/ VisitTemplateTypeParmType \/ TraverseSubstTemplateTypeParmType
  \/ TraverseInjectedClassNameType \/ VisitTagType
  \/ TraverseDependentTemplateSpecializationType \/ TraverseTemplateSpecializationType
  \/ VisitDependentNameType \/ TraverseAutoType \/ VisitParenType \/ VisitDecayedType
  \/ VisitUnaryTransformType
=============================================================================
