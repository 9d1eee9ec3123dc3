------------------------------ MODULE KastDecls ------------------------------
(***************************************************************************)
(* Declarations and templates: the Visit and Traverse handlers of          *)
(* GetKastVisitor.h, lines 40 to 936.  A Traverse handler visits its       *)
(* children itself; after a Visit handler the default traversal does.      *)
(***************************************************************************)
EXTENDS AstVisitor

(* The kinds of declaration a visit may be restricted to.                  *)
DeclNodes ==
  {<<"TranslationUnitDecl", "TranslationUnitNode">>, <<"Decl", "DeclNode">>,
   <<"Member", "MemberNode">>, <<"LocalDecl", "LocalNode">>, <<"VarDecl", "VarNode">>,
   <<"ParmVarDecl", "VarNode">>, <<"FunctionDecl", "FunctionNode">>,
   <<"RecordDecl", "RecordNode">>, <<"ClassInstance", "ClassInstanceNode">>,
   <<"AliasDecl", "AliasNode">>, <<"TemplateParmDecl", "TemplateParmNode">>,
   <<"EnumConstantDecl", "EnumConstantNode">>}
AnyDecl == {"DeclNode", "MemberNode", "LocalNode"}
OuterDecl == {"DeclNode", "MemberNode"}

(* DeclLoc is a declaration of a declaration, but parameters of templates  *)
(* and enumerators are wrapped in it like all others.                      *)
DeclLoc(kind) ==
  KApplyAs("DECL", <<"CABSLOC", "DECL">>,
           <<"CABSLOC", CASE kind = "TemplateParmDecl" -> "TEMPLATEPARAMETER"
                          [] kind = "EnumConstantDecl" -> "ENUMERATOR"
                          [] OTHER -> "DECL">>)
TraverseDecl ==
  \/ \E decl \in DeclNodes :
       On({decl[1]}, 0, DeclLoc(decl[1])
          \o Visit(IF decl[1] = "TranslationUnitDecl" THEN "InvalidLoc" ELSE "CabsLoc")
          \o Visit(decl[2]))
  \/ On({"Excluded"}, 0, <<>>)

(* Without a handler of its own a declaration reaches VisitDecl.           *)
VisitDecl == On(AnyDecl, 1, Throw)

VisitTranslationUnitDecl ==
  \E excluded \in Flags :
    On({"TranslationUnitNode"}, ContextCost(excluded),
       KApply("DECL", <<"STRING", "LIST">>) \o VisitString \o DeclContext(excluded)
       \o Default(ContextChildren(excluded, "Decl")))

VisitTypedefDecl ==
  On(AnyDecl, 1, KApply("DECL", <<"CID", "ATYPE">>)
     \o Visit("IdentifierName") \o Default(Visit("Type")))

VisitTypeAliasDecl ==
  \/ On(AnyDecl, 1, KApply("DECL", <<"CID", "ATYPE">>)
        \o Visit("IdentifierName") \o Default(Visit("Type")))
  \/ On({"AliasNode"}, 0, KApply("DECL", <<"CID", "ATYPE">>)
        \o Visit("IdentifierName") \o Default(Visit("Type")))

VisitLinkageSpecDecl ==
  \E excluded \in Flags :
    On({"DeclNode"}, 1 + ContextCost(excluded),
       KApply("DECL", <<"STRING", "BOOL", "LIST">>) \o VisitString \o VisitBool
       \o DeclContext(excluded) \o Default(ContextChildren(excluded, "Decl")))

VisitNamespaceDecl ==
  \E excluded \in Flags :
    On({"DeclNode"}, 1 + ContextCost(excluded),
       KApply("DECL", <<"CID", "BOOL", "LIST">>) \o Visit("IdentifierName") \o VisitBool
       \o DeclContext(excluded) \o Default(ContextChildren(excluded, "Decl")))

(* The handler visits the qualifier, and so does the default traversal.    *)
VisitNamespaceAliasDecl ==
  On({"DeclNode", "LocalNode"}, 1, Odd \o KApply("DECL", <<"CID", "CID", "NNS">>)
     \o Visit("IdentifierName") \o Visit("DeclarationAsName") \o Visit("NNS")
     \o Default(Visit("NNS")))

TraverseConstructorInitializer ==
  \/ On({"CtorInitializer"}, 0, KApply("CTORINIT", <<"CID", "INIT">>)
        \o Visit("IdentifierName") \o Visit("Expr"))
  \/ On({"CtorInitializer"}, 0, KApply("CTORINIT", <<"ATYPE", "BOOL", "BOOL", "INIT">>)
        \o Visit("Type") \o VisitBool \o VisitBool \o Visit("Expr"))
  \/ On({"CtorInitializer"}, 0, KApply("CTORINIT", <<"INIT">>) \o Visit("Expr"))
  \/ On({"CtorInitializer"}, 1, Throw)

-----------------------------------------------------------------------------
(* Functions: TraverseFunctionHelper, in the order of its parts.           *)

TemplateArguments(n) == KSeqList(n) \o Times(n, Visit("TemplateArgument"))

(* The wrapper of a specialization or explicit instantiation, whose        *)
(* template arguments may have been written or not.                        *)
FunctionTemplateInfo ==
  \/ On({"FunctionTemplateInfo"}, 0, <<>>)
  \/ \E n \in 0..MaxList :
       On({"FunctionTemplateInfo"}, 1, KApply("DECL", <<"ATYPE", "DECL">>)
          \o KApply("ATYPE", <<"CID", "LIST">>) \o Visit("DeclarationName")
          \o TemplateArguments(n))
  \/ On({"FunctionTemplateInfo"}, 1, KApply("DECL", <<"ATYPE", "DECL">>)
        \o KApply("ATYPE", <<"CID">>) \o Visit("DeclarationName"))

Inline == Optional("Inline", Specifier("FUNCTIONSPECIFIER"))
Constexpr == Optional("Constexpr", Specifier("SPECIFIER"))

(* The type of a function, a static method or an instance method, with its *)
(* ref-qualifier, this type and virtual, pure and explicit.  A function    *)
(* without type source information is one that Clang made up.              *)
FunctionType ==
  \/ On({"FunctionType"}, 0, Visit("FunctionProtoType"))
  \/ On({"FunctionType"}, 1, KApply("ATYPE", <<"ATYPE">>) \o Visit("FunctionProtoType"))
  \/ \E ref \in BOOLEAN, marks \in 0..3 :
       On({"FunctionType"}, 1 + Cost(ref) + Cost(marks > 0),
          (IF ref THEN KApply("ATYPE", <<"REFQUALIFIER", "ATYPE">>)
                       \o KApply("REFQUALIFIER", <<>>) ELSE <<>>)
          \o KApply("ATYPE", <<"BOOL", "BOOL", "ATYPE", "ATYPE">>) \o VisitBool \o VisitBool
          \o Visit("Type") \o Times(marks, KApply("ATYPE", <<"ATYPE">>))
          \o Visit("FunctionProtoType"))
  \/ On({"FunctionType"}, 1, Throw)

Parameters(n) == KSeqList(n) \o Times(n, Visit("ParmVarDecl"))

(* A function: written[i] says that initializer i of a constructor was     *)
(* written in the source.  For Clang 6.0 a declaration is a definition     *)
(* when it has a body or is defaulted or deleted.                          *)
Functions == {f \in [ctor : BOOLEAN, body : BOOLEAN, defaulted : BOOLEAN, deleted : BOOLEAN] :
                ~(f.body /\ f.deleted)}
isThisDeclarationADefinition(f) == f.body \/ f.defaulted \/ f.deleted
PlainFunction(f) == ~f.ctor /\ ~f.defaulted /\ ~f.deleted

(* A constructor's body is not the Stmt that its production asks for.      *)
CtorInits(written) ==
  KApplyAs("STMT", <<"LIST", "STMT">>, <<"LIST", "ASTMT">>) \o KSeqList(Count(written))
  \o FlattenSeq([i \in DOMAIN written |->
       IF written[i] THEN Visit("CtorInitializer") ELSE <<>>])
FunctionBody(f, written) ==
  (IF isThisDeclarationADefinition(f)
   THEN (IF f.ctor THEN CtorInits(written) ELSE <<>>)
        \o (IF f.body THEN Visit("Block") ELSE <<>>)
   ELSE <<>>)
  \o (IF f.defaulted THEN KApply("STMT", <<>>)
      ELSE IF f.deleted THEN KApply("STMT", <<>>) ELSE <<>>)

(* A defaulted function for which Clang has made a body has both.          *)
FunctionDeclarator ==
  At({"FunctionDeclarator"}) /\ \E f \in Functions, written \in Flags, n \in 0..MaxList :
    /\ (~f.ctor \/ ~f.body) => written = <<>>
    /\ On({"FunctionDeclarator"},
          Cost(~PlainFunction(f)) + ListCost(n),
          (IF f.body /\ f.defaulted THEN Odd ELSE <<>>)
          \o (IF isThisDeclarationADefinition(f) \/ f.defaulted
              THEN KApply("DECLARATOR", <<"NNS", "CID", "CID", "ATYPE", "LIST", "ASTMT">>)
              ELSE KApply("DECLARATOR", <<"NNS", "CID", "CID", "ATYPE", "LIST">>))
          \o Visit("NNS") \o Visit("DeclarationName") \o mangledIdentifier
          \o Visit("FunctionType") \o Parameters(n) \o FunctionBody(f, written))

FunctionParts ==
  Visit("FunctionTemplateInfo") \o Visit("StorageClass") \o Visit("Inline")
  \o Visit("Constexpr") \o Visit("FunctionDeclarator")
TraverseFunctionHelper ==
  \/ On(AnyDecl, 1, FunctionParts)
  \/ On({"FunctionNode"}, 0, FunctionParts)

-----------------------------------------------------------------------------
(* Variables and fields.                                                   *)
Alignas == Optional("Alignas", AlignasSpecifier)
VarParts ==
  Visit("StorageClass") \o Visit("ThreadStorageClass") \o Visit("Constexpr")
  \o Visit("Alignas") \o Visit("VarDeclarator")
TraverseVarHelper ==
  \/ On({"DeclNode", "LocalNode", "VarNode"}, 0, VarParts)
  \/ On({"MemberNode"}, 1, VarParts)
VarDeclarator ==
  \E init \in BOOLEAN :
    On({"VarDeclarator"}, 0,
       KApply("DECLARATOR", <<"NNS", "CID", "CID", "ATYPE", "INIT", "BOOL">>)
       \o Visit("NNS") \o Visit("IdentifierName") \o mangledIdentifier \o Visit("Type")
       \o (IF init THEN Visit("Expr") ELSE NoInit) \o VisitBool)

Mutable == Optional("Mutable", Specifier("STORAGECLASSSPECIFIER"))
TraverseFieldDecl ==
  \/ On({"MemberNode"}, 0, Visit("Mutable") \o Visit("FieldDeclarator"))
  \/ \E bits \in BOOLEAN, init \in BOOLEAN :
       On({"FieldDeclarator"}, Cost(bits),
          KApply("DECLARATOR", <<"NNS", "CID", "ATYPE", IF bits THEN "EXPR" ELSE "INIT">>)
          \o Visit("NNS") \o Visit("IdentifierName") \o Visit("Type")
          \o (IF bits \/ init THEN Visit("Expr") ELSE NoInit))

(* A type that is a friend stands where a declaration is asked for.        *)
VisitFriendDecl ==
  \E befriended \in {"Type", "FunctionDecl", "RecordDecl"} :
    On({"MemberNode"}, 1,
       KApplyAs("DECL", <<"DECL">>, <<IF befriended = "Type" THEN "ATYPE" ELSE "DECL">>)
       \o Default(Visit(befriended)))

VisitAccessSpecifier == KApply("ACCESSSPECIFIER", <<>>)
VisitAccessSpecDecl ==
  On({"MemberNode"}, 1, KApply("DECL", <<"ACCESSSPECIFIER">>) \o VisitAccessSpecifier)

-----------------------------------------------------------------------------
(* Templates.  instantiated[i] says that specialization i is an implicit   *)
(* or explicit instantiation: those are counted, then visited.  Alias      *)
(* templates have none; a variable template has no handler.                *)
TemplateParameters(n) == KSeqList(n) \o Times(n, Visit("TemplateParmDecl"))
TraverseTemplateInstantiations(instantiated, kind) ==
  KSeqList(Count(instantiated))
  \o FlattenSeq([i \in DOMAIN instantiated |-> IF instantiated[i] THEN Visit(kind) ELSE <<>>])

TemplateDecl(templated, instance, instantiated) ==
  \E n \in 1..MaxList :
    On(OuterDecl, 1 + ListCost(n) + ListCost(Len(instantiated)),
       KApply("DECL", <<"DECL", "LIST", "LIST">>) \o Visit(templated) \o TemplateParameters(n)
       \o TraverseTemplateInstantiations(instantiated, instance))
TraverseClassTemplateDecl ==
  \E flags \in Flags : TemplateDecl("RecordDecl", "ClassInstance", flags)
TraverseFunctionTemplateDecl ==
  \E flags \in Flags : TemplateDecl("FunctionDecl", "FunctionDecl", flags)
TraverseTypeAliasTemplateDecl == TemplateDecl("AliasDecl", "AliasDecl", <<>>)

TraverseTemplateTypeParmDecl ==
  \E typed \in BOOLEAN, default \in BOOLEAN :
    On({"TemplateParmNode"}, Cost(~typed) + Cost(default),
       KApply("TEMPLATEPARAMETER", <<"BOOL", "BOOL", "ATYPE", "ATYPE">>)
       \o VisitBool \o VisitBool
       \o (IF typed THEN Visit("TemplateTypeParmType") ELSE NoType)
       \o (IF default THEN Visit("Type") ELSE NoType))

TraverseNonTypeTemplateParmDecl ==
  \E default \in BOOLEAN :
    On({"TemplateParmNode"}, 1,
       KApply("TEMPLATEPARAMETER", <<"BOOL", "NNS", "CID", "ATYPE", "AEXPR">>)
       \o VisitBool \o Visit("NNS") \o Visit("IdentifierName") \o Visit("Type")
       \o (IF default THEN Visit("Expr") ELSE NoExpression))

(* The default is an argument where a type is asked for.                   *)
TraverseTemplateTemplateParmDecl ==
  \E default \in BOOLEAN, n \in 1..MaxList :
    On({"TemplateParmNode"}, 1 + ListCost(n),
       KApplyAs("TEMPLATEPARAMETER", <<"BOOL", "CID", "ATYPE", "LIST">>,
                <<"BOOL", "CID", IF default THEN "TEMPLATEARGUMENT" ELSE "ATYPE", "LIST">>)
       \o VisitBool \o Visit("IdentifierName")
       \o (IF default THEN Visit("TemplateTemplateArgument") ELSE NoType)
       \o TemplateParameters(n))

TraverseTemplateArgument ==
  \/ On({"TemplateArgument"}, 0, KApply("TEMPLATEARGUMENT", <<"ATYPE">>) \o Visit("Type"))
  \/ On({"TemplateArgument"}, 1, KApply("TEMPLATEARGUMENT", <<"CID">>) \o Visit("TemplateName"))
  \/ On({"TemplateTemplateArgument"}, 0,
        KApply("TEMPLATEARGUMENT", <<"CID">>) \o Visit("TemplateName"))
  \/ On({"TemplateArgument"}, 1, KApply("TEMPLATEARGUMENT", <<"EXPR">>) \o Visit("Expr"))
  \/ On({"TemplateArgument"}, 1, KApply("TEMPLATEARGUMENT", <<"EXPR">>)
        \o KApply("EXPR", <<"INT", "ATYPE">>) \o VisitInt \o Visit("Type"))
  \/ \E n \in 0..MaxList :
       On({"TemplateArgument"}, 1 + ListCost(n),
          KApply("TEMPLATEARGUMENT", <<"LIST">>) \o TemplateArguments(n))
  \/ On({"TemplateArgument"}, 1, Throw)

TraverseTemplateName ==
  \/ On({"TemplateName"}, 0, Visit("DeclarationName"))
  \/ On({"TemplateName"}, 1, Throw)

-----------------------------------------------------------------------------
(* Classes and enumerations.                                               *)
VisitTagKind ==
  \/ On({"TagKind"}, 0, KApply("CLASSKEY", <<>>))
  \/ On({"TagKind"}, 1, Throw)

(* A base class is not a visit of its own: the loop adds its nodes.        *)
BaseClass ==
  KApply("BASESPECIFIER", <<"BOOL", "BOOL", "ACCESSSPECIFIER", "ATYPE">>)
  \o VisitBool \o VisitBool \o VisitAccessSpecifier \o Visit("ClassType")

RecordDefinition(bases, excluded) ==
  KApply("DECL", <<"TAG", "CID", "NNS", "LIST", "LIST", "BOOL">>)
  \o Visit("TagKind") \o Visit("DeclarationAsName") \o Visit("NNS")
  \o KSeqList(bases) \o Times(bases, BaseClass)
  \o DeclContext(excluded) \o TraverseDeclContextNode(excluded, "Member") \o VisitBool
RecordDeclarationSwapped ==
  KApply("DECL", <<"ATYPE">>) \o KApply("ATYPE", <<"TAG", "CID", "NNS">>)
  \o Visit("TagKind") \o Visit("NNS") \o Visit("DeclarationAsName")
RecordDeclaration ==
  KApply("DECL", <<"ATYPE">>) \o KApply("ATYPE", <<"TAG", "CID", "NNS">>)
  \o Visit("TagKind") \o Visit("DeclarationAsName") \o Visit("NNS")
TraverseCXXRecordHelper ==
  \/ On({"RecordNode"}, 0, RecordDeclaration)
  \/ \E bases \in 0..MaxList, excluded \in Flags :
       On({"RecordNode"}, ListCost(bases) + ContextCost(excluded),
          RecordDefinition(bases, excluded))
TraverseCXXRecordDecl == On(AnyDecl, 1, Visit("RecordNode"))

TraverseEnumDecl ==
  \/ On(AnyDecl, 1, KApply("DECL", <<"CID", "BOOL", "ATYPE">>)
        \o Visit("IdentifierName") \o VisitBool \o Visit("Type"))
  \/ \E excluded \in Flags :
       On(AnyDecl, 1 + ContextCost(excluded),
          KApply("DECL", <<"CID", "NNS", "BOOL", "BOOL", "ATYPE", "LIST">>)
          \o Visit("DeclarationAsName") \o Visit("NNS") \o VisitBool \o VisitBool
          \o Visit("Type") \o DeclContext(excluded)
          \o TraverseDeclContextNode(excluded, "EnumConstantDecl"))

VisitEnumConstantDecl ==
  \E init \in BOOLEAN :
    On({"EnumConstantNode"}, 0, KApply("ENUMERATOR", <<"CID", "AEXPR">>)
       \o Visit("IdentifierName")
       \o (IF init THEN Default(Visit("Expr")) ELSE NoExpression))

TraverseClassTemplateSpecializationDecl ==
  \/ \E typed \in BOOLEAN :
       On({"DeclNode", "ClassInstanceNode"}, 1, KApply("DECL", <<"ATYPE", "DECL">>)
          \o (IF typed THEN Visit("ClassType") ELSE NoType) \o Visit("RecordNode"))
  \/ On({"ClassInstanceNode"}, 0, KApply("DECL", <<"ATYPE", "DECL">>)
        \o Visit("ClassType") \o Visit("RecordNode"))
  \/ On({"DeclNode"}, 1, Throw)

TraverseClassTemplatePartialSpecializationDecl ==
  \E n \in 1..MaxList, args \in 1..MaxList :
    On(OuterDecl, 1 + ListCost(n) + ListCost(args), KApply("DECL", <<"LIST", "LIST", "DECL">>)
       \o TemplateParameters(n) \o TemplateArguments(args) \o Visit("RecordNode"))

-----------------------------------------------------------------------------
(* Assertions and using.  A message is missing only in C++17.              *)
VisitStaticAssertDecl ==
  \/ On(AnyDecl, 1, KApply("DECL", <<"EXPR", "EXPR">>) \o Default(Visit("Expr") \o Visit("Expr")))
  \/ On(AnyDecl, 1, Odd \o KApply("DECL", <<"EXPR", "EXPR">>) \o Default(Visit("Expr")))

VisitUsingDecl ==
  On(AnyDecl, 1, KApply("DECL", <<"BOOL", "NNS", "CID">>) \o VisitBool
     \o Default(Visit("NNS") \o Visit("DeclarationName")))

VisitUnresolvedUsingValueDecl ==
  On({"MemberNode"}, 1, KApply("DECL", <<"BOOL", "NNS", "CID">>) \o VisitBool
     \o Default(Visit("NNS") \o Visit("DeclarationName")))

VisitUsingDirectiveDecl ==
  On({"DeclNode", "LocalNode"}, 1, KApply("DECL", <<"CID", "NNS">>)
     \o Visit("IdentifierName") \o Default(Visit("NNS")))

DeclsNext ==
  \/ TraverseDecl \/ VisitDecl \/ VisitTranslationUnitDecl \/ VisitTypedefDecl
  \/ VisitTypeAliasDecl \/ VisitLinkageSpecDecl \/ VisitNamespaceDecl
  \/ VisitNamespaceAliasDecl \/ TraverseConstructorInitializer
  \/ FunctionTemplateInfo \/ Inline \/ Constexpr \/ FunctionType \/ FunctionDeclarator
  \/ TraverseFunctionHelper \/ Alignas \/ TraverseVarHelper \/ VarDeclarator \/ Mutable
  \/ TraverseFieldDecl \/ VisitFriendDecl \/ VisitAccessSpecDecl
  \/ TraverseClassTemplateDecl \/ TraverseFunctionTemplateDecl
  \/ TraverseTypeAliasTemplateDecl \/ TraverseTemplateTypeParmDecl
  \/ TraverseNonTypeTemplateParmDecl \/ TraverseTemplateTemplateParmDecl
  \/ TraverseTemplateArgument \/ TraverseTemplateName \/ VisitTagKind
  \/ TraverseCXXRecordHelper \/ TraverseCXXRecordDecl \/ TraverseEnumDecl
  \/ VisitEnumConstantDecl \/ TraverseClassTemplateSpecializationDecl
  \/ TraverseClassTemplatePartialSpecializationDecl \/ VisitStaticAssertDecl
  \/ VisitUsingDecl \/ VisitUnresolvedUsingValueDecl \/ VisitUsingDirectiveDecl
=============================================================================
