--------------------------- MODULE ScriptWalkers ---------------------------
(***************************************************************************)
(* The walkers of python.rs, js.rs, ts.rs, ruby.rs and php.rs.  b is the   *)
(* file's stem in lower case, root its tree; local are the types a first   *)
(* pass found.                                                             *)
(***************************************************************************)
EXTENDS Syntax

(***************************************************************************)
(* Python.                                                                 *)
(***************************************************************************)
PyLocal(root) == NamesOf(Named(root, {"class_definition"}))

PyClass(n, b, local) ==
  LET class == b \o Lower(n.name) IN
  Symbol(b, n.name)
    ++ Inherits(b, local, NamesOf(Below(n, {"superclasses"}, {"identifier"})), class)
    ++ Methods(class, Below(n, {"body"}, {"function_definition"}))

(* Mutant of PyFunction: the file's prefix is forgotten.                   *)
PyFunctionBare(n, b) == Declared(b, "contains", Lower(n.name))

PyFunction(n, b) == Symbol(b, n.name)
PyImport(n, b) == Imports(b, {Lower(n.name)})

PyExtract(b, root) ==
  File(b)
    ++ All({PyClass(n, b, PyLocal(root)) : n \in Named(root, {"class_definition"})})
    ++ All({PyFunction(n, b) : n \in Named(root, {"function_definition"})})
    ++ All({PyImport(n, b) : n \in Kids(root, {"import_from_statement"})})
-----------------------------------------------------------------------------
(***************************************************************************)
(* JavaScript.  A declaration may be exported.                             *)
(***************************************************************************)
JsFunctions == {"function_declaration", "generator_function_declaration"}
JsVariables == {"lexical_declaration", "variable_declaration"}

(* Mutant of JsLocal: the pass ends at the first child.                    *)
JsLocalFirst(root) ==
  NamesOf({k \in First(root) \cup UNION {AllKids(e) : e \in First(root)} :
             k.kind = "class_declaration" /\ HasName(k)})

JsLocal(root) ==
  NamesOf(Named(root, {"class_declaration"})
            \cup Below(root, {"export_statement"}, {"class_declaration"}))

(* The base is the first child of the heritage; a method's name is an      *)
(* identifier, private or not, and not a string or computed.               *)
JsClass(n, b, local) ==
  LET class == b \o Lower(n.name)
      bases == UNION {{k \in First(h) : k.kind = "identifier"} :
                        h \in Kids(n, {"class_heritage"})}
      members == UNION {Kids(m, {"method_definition"}) : m \in Kids(n, {"body"})}
  IN  Symbol(b, n.name)
        ++ Inherits(b, local, NamesOf(bases), class)
        ++ All({Methods(class, Named(m, {"property_identifier",
                                         "private_property_identifier"})) :
                  m \in members})

JsFunction(n, b) == Symbol(b, n.name)

(* A variable that is a function.                                          *)
JsVarDecl(n, b) ==
  Symbols(b, {d \in Named(n, {"variable_declarator"}) :
                Kids(d, {"arrow_function", "function_expression"}) # {}})

JsImport(n, b) == Imports(b, {Lower(n.name)})

(* The declarations among the children of n, exported or at the top.       *)
JsDecls(n, b, local) ==
  All({JsFunction(d, b) : d \in Named(n, JsFunctions)})
    ++ All({JsClass(d, b, local) : d \in Named(n, {"class_declaration"})})
    ++ All({JsVarDecl(d, b) : d \in Kids(n, JsVariables)})

JsExtract(b, root) ==
  LET local == JsLocal(root) IN
  File(b)
    ++ JsDecls(root, b, local)
    ++ All({JsImport(n, b) : n \in Kids(root, {"import_statement"})})
    ++ All({JsDecls(n, b, local) : n \in Kids(root, {"export_statement"})})
-----------------------------------------------------------------------------
(***************************************************************************)
(* TypeScript.                                                             *)
(***************************************************************************)
TsClasses == {"class_declaration", "abstract_class_declaration"}
TsTypes == TsClasses \cup {"interface_declaration"}

TsLocal(root) ==
  NamesOf(Named(root, TsTypes) \cup Below(root, {"export_statement"}, TsTypes))

TsHeritage(h) ==
  Below(h, {"extends_clause"}, {"identifier"})
    \cup Below(h, {"implements_clause"}, {"type_identifier"})

TsMethods(body, class) ==
  Methods(class, {m \in Named(body, {"method_definition"}) :
                    Kids(m, {"computed_property_name"}) = {}})

TsClass(n, b, local) ==
  LET class == b \o Lower(n.name) IN
  Symbol(b, n.name)
    ++ All({Inherits(b, local, NamesOf(TsHeritage(h)), class) :
              h \in Kids(n, {"class_heritage"})})
    ++ All({TsMethods(body, class) : body \in Kids(n, {"body"})})

TsFunction(n, b) == Symbol(b, n.name)
TsInterface(n, b) == Symbol(b, n.name)
TsEnum(n, b) == Symbol(b, n.name)

TsVarFns(n, b) ==
  Symbols(b, {d \in Named(n, {"variable_declarator"}) :
                Kids(d, {"arrow_function", "function_expression"}) # {}})

TsImport(n, b) == ImportsSome(b, {Lower(n.name)})

(* dispatch_decl, for all the declarations among the children of n.        *)
TsDecls(n, b, local) ==
  All({TsFunction(d, b) : d \in Named(n, {"function_declaration"})})
    ++ All({TsClass(d, b, local) : d \in Named(n, TsClasses)})
    ++ All({TsInterface(d, b) : d \in Named(n, {"interface_declaration"})})
    ++ All({TsEnum(d, b) : d \in Named(n, {"enum_declaration"})})
    ++ All({TsVarFns(d, b) : d \in Kids(n, JsVariables)})

TsExtract(b, root) ==
  LET local == TsLocal(root) IN
  File(b)
    ++ TsDecls(root, b, local)
    ++ All({TsImport(n, b) : n \in Kids(root, {"import_statement"})})
    ++ All({TsDecls(n, b, local) : n \in Kids(root, {"export_statement"})})
-----------------------------------------------------------------------------
(***************************************************************************)
(* Ruby.                                                                   *)
(***************************************************************************)
RbLocal(root) == NamesOf(Named(root, {"class", "module"}))

(* constant_text: the constant itself, or the first one among the children *)
RbConstant(n) ==
  LET constants == SelectSeq(n.kids, LAMBDA k : k.kind = "constant") IN
  IF n.kind = "constant" THEN {Lower(n.name)}
  ELSE IF constants = <<>> THEN {} ELSE {Lower(constants[1].name)}

RbBodyMethods(n, class) ==
  Methods(class, Below(n, {"body"}, {"method", "singleton_method"}))

RbClass(n, b, local) ==
  LET class == b \o Lower(n.name)
      parents == UNION {RbConstant(k) : k \in Kids(n, {"superclass"})}
  IN  Symbol(b, n.name)
        ++ Inherits(b, local, parents, class)
        ++ RbBodyMethods(n, class)

RbModule(n, b) == Symbol(b, n.name) ++ RbBodyMethods(n, b \o Lower(n.name))

RbTopMethod(n, b) == Declared(b, "contains", b \o MethodId(n.name))

(* A call of require or require_relative whose first argument is a string. *)
RbRequire(n, b) ==
  ImportsSome(b, {Lower(k.name) : k \in
    UNION {{a \in First(args) : a.kind = "string"} :
             args \in IF n.name \in {<<"require">>, <<"require", "relative">>}
                      THEN Kids(n, {"arguments"}) ELSE {}}})

RbExtract(b, root) ==
  File(b)
    ++ All({RbClass(n, b, RbLocal(root)) : n \in Named(root, {"class"})})
    ++ All({RbModule(n, b) : n \in Named(root, {"module"})})
    ++ All({RbTopMethod(n, b) : n \in Named(root, {"method"})})
    ++ All({RbRequire(n, b) : n \in Kids(root, {"call"})})
-----------------------------------------------------------------------------
(***************************************************************************)
(* PHP.                                                                    *)
(***************************************************************************)
PhpTypes ==
  {"class_declaration", "interface_declaration", "trait_declaration", "enum_declaration"}
PhpLocal(root) == NamesOf(Named(root, PhpTypes))

PhpHeritage(n, clauses) ==
  NamesOf(Below(n, clauses, {"name", "qualified_name", "relative_name"}))

PhpMethods(n, class) == Methods(class, Below(n, {"body"}, {"method_declaration"}))

PhpFunction(n, b) == Symbol(b, n.name)

PhpClass(n, b, local) ==
  LET class == b \o Lower(n.name) IN
  Symbol(b, n.name)
    ++ Inherits(b, local, PhpHeritage(n, {"base_clause", "class_interface_clause"}), class)
    ++ PhpMethods(n, class)

PhpInterface(n, b, local) ==
  LET class == b \o Lower(n.name) IN
  Symbol(b, n.name)
    ++ Inherits(b, local, PhpHeritage(n, {"base_clause"}), class)
    ++ PhpMethods(n, class)

PhpTrait(n, b) == Symbol(b, n.name) ++ PhpMethods(n, b \o Lower(n.name))

PhpEnum(n, b, local) ==
  LET class == b \o Lower(n.name) IN
  Symbol(b, n.name)
    ++ Inherits(b, local, PhpHeritage(n, {"class_interface_clause"}), class)
    ++ PhpMethods(n, class)

(* use: the clauses, and those of a group under the group's prefix.        *)
PhpUseDecl(n, b) ==
  LET prefixes == NamesOf(Kids(n, {"namespace_name"}))
      grouped == NamesOf(Below(n, {"body"}, {"namespace_use_clause"}))
  IN  ImportsSome(b, NamesOf(Named(n, {"namespace_use_clause"})))
        ++ ImportsSome(b, IF prefixes = {} THEN grouped
                      ELSE {Dotted(p, "\\", g) : p \in prefixes, g \in grouped})

PhpExtract(b, root) ==
  LET local == PhpLocal(root) IN
  File(b)
    ++ All({PhpFunction(n, b) : n \in Named(root, {"function_definition"})})
    ++ All({PhpClass(n, b, local) : n \in Named(root, {"class_declaration"})})
    ++ All({PhpInterface(n, b, local) : n \in Named(root, {"interface_declaration"})})
    ++ All({PhpTrait(n, b) : n \in Named(root, {"trait_declaration"})})
    ++ All({PhpEnum(n, b, local) : n \in Named(root, {"enum_declaration"})})
    ++ All({PhpUseDecl(n, b) : n \in Kids(root, {"namespace_use_declaration"})})
=============================================================================
