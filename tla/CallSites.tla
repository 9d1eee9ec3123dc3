------------------------------ MODULE CallSites ------------------------------
(***************************************************************************)
(* call-sites (clang-tools/CallSites/CallSites.cc), which writes one line  *)
(* per call: the types of the result and of the arguments, then the number *)
(* of parameters and whether the function is variadic.  The generator of   *)
(* the native trampolines reads the types back as prefix terms: s2_ is     *)
(* followed by the types of two fields.  A line is complete when it holds  *)
(* one term per type, so a type is a node with its fields as children, of  *)
(* sorts that this module adds to those of clang-kast.                     *)
(***************************************************************************)
EXTENDS KastExprs

LineSorts == {"LINE", "CTYPE", "COUNT"}
Signature(children) == KApply("CTYPE", [i \in 1..children |-> "CTYPE"])

(* Arrays, functions and pointers are all passed as pointers.              *)
Pointer == On({"CTypeNode"}, 1, Signature(0))
TraverseConstantArray == Pointer
TraverseIncompleteArray == Pointer
TraverseVariableArray == Pointer
TraverseFunctionNoProto == Pointer
TraverseFunctionProto == Pointer
TraversePointer == Pointer
TraverseDecayed == Pointer

VisitBuiltin ==
  \/ On({"CTypeNode"}, 0, Signature(0))
  \/ On({"CTypeNode"}, 1, Throw)
TraverseComplexType == On({"CTypeNode"}, 1, Signature(1) \o Visit("CTypeNode"))
TraverseAtomicType == On({"CTypeNode"}, 1, Signature(1) \o Visit("CTypeNode"))

(* Sugar: the promotion type of an enumeration, the type behind a name.    *)
TraverseEnumType == On({"CTypeNode"}, 1, Visit("CTypeNode"))
TraverseElaboratedType == On({"CTypeNode"}, 1, Visit("CTypeNode"))
TraverseTypedefType == On({"CTypeNode"}, 1, Visit("CTypeNode"))

processRecord(nfields) == Signature(nfields) \o Times(nfields, Visit("CTypeNode"))
TraverseRecordType ==
  \/ \E nfields \in 0..MaxList :
       On({"CTypeNode"}, 1 + ListCost(nfields), processRecord(nfields))
  \/ On({"CTypeNode"}, 1, Throw)

(* A type without a handler of its own walks up to the one of all types.   *)
WalkUpFromType == Throw
VisitUnsupportedType == On({"CTypeNode"}, 1, WalkUpFromType)

(* A line: the types of the result and of the nargs arguments that the     *)
(* call passes, then the count, whatever number of parameters it states.   *)
Line(nargs) ==
  KApply("LINE", [i \in 1 .. nargs + 2 |-> IF i = nargs + 2 THEN "COUNT" ELSE "CTYPE"])
processTypes(nargs) == Visit("CTypeNode") \o Times(nargs, Visit("CTypeNode"))
VisitCall ==
  \E nargs \in 0..MaxList :
    On({"CallNode"}, ListCost(nargs),
       Line(nargs) \o processTypes(nargs) \o KApply("COUNT", <<>>))

(* A reference to a name with external linkage is a line of its own; any   *)
(* other reference writes nothing.                                         *)
VisitReference == On({"CallNode"}, 1, KApply("LINE", <<"STRING">>) \o VisitString)

CallSitesNext ==
  \/ TraverseConstantArray \/ TraverseIncompleteArray \/ TraverseVariableArray
  \/ TraverseFunctionNoProto \/ TraverseFunctionProto \/ TraversePointer \/ TraverseDecayed
  \/ VisitBuiltin \/ TraverseComplexType \/ TraverseAtomicType \/ TraverseEnumType
  \/ TraverseElaboratedType \/ TraverseTypedefType \/ TraverseRecordType
  \/ VisitUnsupportedType \/ VisitCall \/ VisitReference
=============================================================================
