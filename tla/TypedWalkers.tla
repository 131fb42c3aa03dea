---------------------------- MODULE TypedWalkers ----------------------------
(***************************************************************************)
(* The walkers of java.rs, csharp.rs, kotlin.rs and scala.rs.              *)
(***************************************************************************)
EXTENDS Syntax

(***************************************************************************)
(* Java.                                                                   *)
(***************************************************************************)
JavaLocal(root) ==
  NamesOf(Named(root, {"class_declaration", "interface_declaration",
                       "enum_declaration"}))

(* resolve_type_identifier: a plain type, or the one that is parameterised *)
JavaType(t) ==
  NamesOf({n \in IF t.kind = "generic_type" THEN First(t) ELSE {t} :
             n.kind = "type_identifier"})

(* Whatever is not a type is looked into.                                  *)
JavaTypeList(list) ==
  UNION {JavaType(k) : k \in Visited(AllKids(list),
           LAMBDA n : IF JavaType(n) = {} THEN AllKids(n) ELSE {})}

(* The first child that names something.                                   *)
JavaImport(n, b) ==
  LET paths == SelectSeq(n.kids, LAMBDA k : k.kind \in {"identifier", "scoped_identifier"})
  IN  IF paths = <<>> THEN Nothing ELSE ImportsSome(b, {Lower(paths[1].name)})

JavaMethods(body, class) ==
  Methods(class, Named(body, {"method_declaration", "constructor_declaration"}))

(* The superclass is the first type that resolves.                         *)
JavaSuperclass(n) ==
  LET types == SelectSeq(n.kids, LAMBDA t : JavaType(t) # {})
  IN  IF types = <<>> THEN {} ELSE JavaType(types[1])

JavaClass(n, b, local) ==
  LET class == b \o Lower(n.name)
      bases == UNION {JavaSuperclass(k) : k \in Kids(n, {"superclass"})}
      interfaces == UNION {JavaTypeList(k) : k \in Kids(n, {"interfaces"})}
  IN  Symbol(b, n.name)
        ++ Inherits(b, local, bases \cup interfaces, class)
        ++ All({JavaMethods(k, class) : k \in Kids(n, {"body"})})

JavaInterface(n, b, local) ==
  LET bases == UNION {JavaTypeList(k) : k \in Kids(n, {"extends_interfaces"})}
  IN  Symbol(b, n.name) ++ Inherits(b, local, bases, b \o Lower(n.name))

JavaEnum(n, b, local) ==
  LET class == b \o Lower(n.name)
      bases == UNION {JavaTypeList(k) : k \in Kids(n, {"interfaces"})}
      bodies == UNION {Kids(k, {"enum_body_declarations"}) : k \in Kids(n, {"body"})}
  IN  Symbol(b, n.name)
        ++ Inherits(b, local, bases, class)
        ++ All({JavaMethods(k, class) : k \in bodies})

JavaExtract(b, root) ==
  LET local == JavaLocal(root) IN
  File(b)
    ++ All({JavaImport(n, b) : n \in Kids(root, {"import_declaration"})})
    ++ All({JavaClass(n, b, local) : n \in Named(root, {"class_declaration"})})
    ++ All({JavaInterface(n, b, local) : n \in Named(root, {"interface_declaration"})})
    ++ All({JavaEnum(n, b, local) : n \in Named(root, {"enum_declaration"})})
-----------------------------------------------------------------------------
(***************************************************************************)
(* C#.  A namespace has a body, or lasts to the end of the file.           *)
(***************************************************************************)
CsNamespaces == {"namespace_declaration", "file_scoped_namespace_declaration"}

(* Mutant of CsLocal: every body is looked into, a class's as well.        *)
CsLocalAll(root) ==
  NamesOf(UNION {Named(n, {"class_declaration", "interface_declaration",
                           "struct_declaration"}) : n \in Visited({root}, AllKids)})

CsLocal(root) ==
  NamesOf(UNION {Named(n, {"class_declaration", "interface_declaration",
                           "struct_declaration"}) :
            n \in Visited({root}, LAMBDA n :
                    Kids(n, CsNamespaces \cup {"body", "declaration_list"}))})

CsBaseList(n) == NamesOf(Below(n, {"base_list"}, {"identifier"}))

CsMethods(n, class) ==
  Methods(class, Below(n, {"body"}, {"method_declaration", "constructor_declaration"}))

CsClass(n, b, local) ==
  LET class == b \o Lower(n.name) IN
  Symbol(b, n.name) ++ Inherits(b, local, CsBaseList(n), class) ++ CsMethods(n, class)

CsInterface(n, b) == Symbol(b, n.name)
CsEnum(n, b) == Symbol(b, n.name)

(* A using with an alias has two names, and imports nothing.               *)
CsUsing(n, b) ==
  LET names == SelectSeq(n.kids, LAMBDA k :
                 k.kind \in {"qualified_name", "identifier", "alias_qualified_name"})
  IN  IF Kids(n, {"name_equals"}) # {} \/ Len(names) # 1 THEN Nothing
      ELSE ImportsSome(b, {Lower(names[1].name)})

CsUsings(n, b) ==
  All({CsUsing(u, b) : u \in Kids(n, {"using_directive"})})
    ++ All({CsUsing(u, b) :
              u \in UNION {Kids(g, {"using_directive"}) :
                             g \in Kids(n, {"global_statement"})}})

(* extract_namespace: whose children are declared, the body's or its own.  *)
CsNamespace(n) == IF Kids(n, {"body"}) # {} THEN Kids(n, {"body"}) ELSE {n}

(* dispatch_decl, for the children of n.                                   *)
CsDecls(n, b, local) ==
  All({CsClass(d, b, local) :
         d \in Named(n, {"class_declaration", "struct_declaration"})})
    ++ All({CsInterface(d, b) : d \in Named(n, {"interface_declaration"})})
    ++ All({CsEnum(d, b) : d \in Named(n, {"enum_declaration"})})
    ++ CsUsings(n, b)

CsExtract(b, root) ==
  LET local == CsLocal(root)
      scopes == Visited({root}, LAMBDA n :
                  UNION {CsNamespace(k) : k \in Kids(n, CsNamespaces)})
  IN  File(b) ++ All({CsDecls(n, b, local) : n \in scopes})
-----------------------------------------------------------------------------
(***************************************************************************)
(* Kotlin.                                                                 *)
(***************************************************************************)
(* decl_name: the name field, or the first identifier among the children;  *)
(* NoName if there is none.                                                *)
KtName(n) ==
  LET named == {i \in DOMAIN n.kids :
                  /\ n.kids[i].kind \in {"type_identifier", "simple_identifier"}
                  /\ n.kids[i].name # <<NoWord>>}
  IN  IF HasName(n) /\ n.name # <<NoWord>> THEN Lower(n.name)
      ELSE IF named = {} THEN NoName ELSE Lower(n.kids[Min(named)].name)
KtNamed(n, kinds) == {k \in Kids(n, kinds) : KtName(k) # NoName}

KtLocal(root) ==
  {KtName(n) : n \in KtNamed(root, {"class_declaration", "interface_declaration",
                                    "object_declaration"})}

KtImport(n, b) == ImportsSome(b, {Lower(n.name)})

KtFunction(n, b) == Declared(b, "contains", b \o KtName(n))

(* base_name_from_user_type: the first identifier of the last part of the  *)
(* type, or else of the type.                                              *)
KtIdentifiers(n) ==
  SelectSeq(n.kids, LAMBDA k :
    k.kind \in {"type_identifier", "simple_identifier", "identifier"} /\ k.name # <<NoWord>>)
KtBaseName(n) ==
  LET parts == SelectSeq(n.kids, LAMBDA k : k.kind = "simple_user_type")
      inner == IF parts = <<>> THEN <<>> ELSE KtIdentifiers(Last(parts))
      names == inner \o KtIdentifiers(n)
  IN  IF names = <<>> THEN {} ELSE {Lower(names[1].name)}

(* A constructor is invoked on a user type, its first child.               *)
KtDelegation(spec) ==
  LET types == Kids(spec, {"user_type"})
                 \cup UNION {First(k) : k \in Kids(spec, {"constructor_invocation"})}
  IN  UNION {KtBaseName(t) : t \in types}

KtInheritance(n) ==
  LET lists == Kids(n, {"delegation_specifier_list", "delegation_specifiers"})
      specs == UNION {Kids(k, {"delegation_specifier"}) : k \in lists \cup {n}}
  IN  UNION {KtDelegation(spec) : spec \in specs}

KtMethods(body, class) ==
  All({Method(class, MethodId(KtName(m))) : m \in KtNamed(body, {"function_declaration"})})
    ++ All({Method(class, <<"constructor">>) : m \in Kids(body, {"secondary_constructor"})})

KtClass(n, b, local) ==
  LET class == b \o KtName(n) IN
  Declared(b, "contains", class)
    ++ Inherits(b, local, KtInheritance(n), class)
    ++ All({KtMethods(k, class) : k \in Kids(n, {"class_body", "enum_class_body"})})

KtObject(n, b, local) ==
  LET object == b \o KtName(n) IN
  Declared(b, "contains", object)
    ++ Inherits(b, local, KtInheritance(n), object)
    ++ All({KtMethods(k, object) : k \in Kids(n, {"class_body"})})

KtExtract(b, root) ==
  LET local == KtLocal(root)
      headers == UNION {Kids(n, {"import", "import_header"}) :
                          n \in {root} \cup Kids(root, {"import_list"})}
  IN  File(b)
        ++ All({KtImport(n, b) : n \in headers})
        ++ All({KtClass(n, b, local) :
                  n \in KtNamed(root, {"class_declaration", "interface_declaration"})})
        ++ All({KtObject(n, b, local) : n \in KtNamed(root, {"object_declaration"})})
        ++ All({KtFunction(n, b) : n \in KtNamed(root, {"function_declaration"})})
-----------------------------------------------------------------------------
(***************************************************************************)
(* Scala.                                                                  *)
(***************************************************************************)
ScTypes == {"class_definition", "trait_definition", "object_definition"}
ScFunctions == {"function_definition", "function_declaration"}

ScLocal(root) == NamesOf(Named(root, ScTypes))

ScTypeName(t) ==
  NamesOf({n \in IF t.kind = "generic_type" THEN First(t) ELSE {t} :
             n.kind \in {"type_identifier", "identifier"}})

(* What is not a type is looked into, once.                                *)
ScExtends(clause) ==
  UNION {IF ScTypeName(k) # {} THEN ScTypeName(k)
         ELSE UNION {ScTypeName(inner) : inner \in AllKids(k)} : k \in AllKids(clause)}

ScMethods(body, class) == Methods(class, Named(body, ScFunctions))

ScClassLike(n, b, local) ==
  LET class == b \o Lower(n.name)
      bases == UNION {ScExtends(k) : k \in Kids(n, {"extends_clause", "with_clause"})}
  IN  Symbol(b, n.name)
        ++ Inherits(b, local, bases, class)
        ++ All({ScMethods(k, class) : k \in Kids(n, {"template_body"})})

ScFunction(n, b) == Symbol(b, n.name)

(* The path's identifiers are the name; each selector is put behind it.    *)
ScImport(n, b) ==
  LET selected == NamesOf(Below(n, {"namespace_selectors"}, {"identifier"}))
                    \ {<<NoWord>>, <<NoWord, NoWord>>, <<"*">>}
  IN  IF ~HasName(n) THEN Nothing
      ELSE Imports(b, IF selected = {} THEN {Lower(n.name)}
                      ELSE {Dotted(Lower(n.name), ".", s) : s \in selected})

ScExtract(b, root) ==
  LET local == ScLocal(root) IN
  File(b)
    ++ All({ScClassLike(n, b, local) : n \in Named(root, ScTypes)})
    ++ All({ScFunction(n, b) : n \in Named(root, ScFunctions)})
    ++ All({ScImport(n, b) : n \in Kids(root, {"import_declaration"})})
=============================================================================
