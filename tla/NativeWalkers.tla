--------------------------- MODULE NativeWalkers ---------------------------
(***************************************************************************)
(* The walkers of c.rs, cpp.rs, go.rs, rust.rs and text.rs.                *)
(***************************************************************************)
EXTENDS Syntax

(***************************************************************************)
(* C.  A declarator is the child of what it declares.                      *)
(***************************************************************************)
(* The node, and what is behind declarators of some kinds.                 *)
Behind(n, declarators) ==
  Visited({n}, LAMBDA d : IF d.kind \in declarators THEN AllKids(d) ELSE {})

CDeclarators == {"function_declarator", "pointer_declarator", "parenthesized_declarator"}
CDeclarator(n) == NamesOf({d \in Behind(n, CDeclarators) : d.kind = "identifier"})

CTypedefName(n) ==
  NamesOf({d \in Behind(n, {"pointer_declarator"}) : d.kind = "type_identifier"})

(* emit_symbol.                                                            *)
CSymbol(b, name) == Declared(b, "contains", b \o name)

CFunction(n, b) ==
  All({CSymbol(b, name) : name \in UNION {CDeclarator(k) : k \in AllKids(n)}})

(* A struct or union is declared where it has a body, and a name.          *)
CStruct(n, b) ==
  IF Kids(n, {"body"}) # {} /\ HasName(n) THEN CSymbol(b, Lower(n.name)) ELSE Nothing

CAggregates == {"struct_specifier", "union_specifier"}
CDeclaration(n, b) == All({CStruct(t, b) : t \in Kids(n, CAggregates)})

CTypeDefinition(n, b) ==
  All({CSymbol(b, name) : name \in UNION {CTypedefName(k) : k \in Kids(n,
                                            {"type_identifier", "pointer_declarator"})}})
    ++ All({CStruct(t, b) : t \in Kids(n, CAggregates)})

CInclude(n, b) == ImportsSome(b, {Lower(n.name)})

CExtract(b, root) ==
  File(b)
    ++ All({CFunction(n, b) : n \in Kids(root, {"function_definition"})})
    ++ All({CStruct(n, b) : n \in Kids(root, CAggregates)})
    ++ All({CDeclaration(n, b) : n \in Kids(root, {"declaration"})})
    ++ All({CTypeDefinition(n, b) : n \in Kids(root, {"type_definition"})})
    ++ All({CInclude(n, b) : n \in Kids(root, {"preproc_include"})})
-----------------------------------------------------------------------------
(***************************************************************************)
(* C++.  The kind of a name matters: a template's specialisation has none. *)
(***************************************************************************)
CppClasses == {"class_specifier", "struct_specifier"}
CppName(n, kinds) == NamesOf(Kids(n, kinds))

CppLocal(root) ==
  LET scopes == Visited({root}, LAMBDA n :
                  UNION {Kids(k, {"body"}) :
                           k \in Kids(n, CppClasses \cup {"namespace_definition"})})
      classes == UNION {Kids(n, CppClasses) : n \in scopes}
  IN  UNION {CppName(k, {"type_identifier", "identifier"}) : k \in classes}

CppDeclarators == {"function_declarator", "pointer_declarator", "reference_declarator"}
CppFnName(n) ==
  LET inner == Behind(n, CppDeclarators)
      qualified == {d \in inner : d.kind = "qualified_identifier"}
  IN  NamesOf({d \in inner : d.kind \in {"identifier", "field_identifier"}})
        \cup UNION {CppName(d, {"identifier", "field_identifier", "type_identifier"}) :
                      d \in qualified}

CppFnNames(n) == UNION {CppFnName(k) : k \in AllKids(n)}

(* A base is plain, qualified, or either within a base_specifier, of which *)
(* the first counts.                                                       *)
CppBase(n) ==
  IF n.kind = "type_identifier" THEN {Lower(n.name)}
  ELSE IF n.kind = "qualified_identifier"
       THEN CppName(n, {"type_identifier", "identifier", "field_identifier"}) ELSE {}
CppBases(clause) ==
  UNION {IF k.kind # "base_specifier" THEN CppBase(k)
         ELSE LET types == SelectSeq(k.kids, LAMBDA t :
                             t.kind \in {"type_identifier", "qualified_identifier"})
              IN  IF types = <<>> THEN {} ELSE CppBase(types[1]) :
           k \in AllKids(clause)}

CppFunction(n, b, container) ==
  All({Declared(container, "contains", b \o name) : name \in CppFnNames(n)})

(* The constructors are passed over.                                       *)
CppMethods(body, b, c) ==
  All({Method(b \o c, name) : name \in
    UNION {CppFnNames(m) : m \in Kids(body, {"function_definition"})} \ {c}})

CppClass(n, b, container, local) ==
  All({Declared(container, "contains", b \o c)
         ++ All({Inherits(b, local, CppBases(k), b \o c) :
                   k \in Kids(n, {"base_class_clause"})})
         ++ All({CppMethods(k, b, c) : k \in Kids(n, {"body"})}) :
         c \in CppName(n, {"type_identifier", "identifier"})})

CppInclude(n, b) == ImportsSome(b, {Lower(n.name)})

(* Mutant of CppNamespaces: what is in a namespace is passed over.         *)
CppNamespacesNot(scope, b) == {}

(* extract_namespace: what a namespace holds it contains, though the       *)
(* labels do not say so; one without a name is passed over.                *)
CppNamespaces(scope, b) ==
  UNION {{[node |-> body, container |-> b \o Lower(k.name)] : body \in Kids(k, {"body"})} :
           k \in Named(scope.node, {"namespace_definition"})}

(* walk_node, for the children of a scope's node.                          *)
CppWalk(scope, b, local) ==
  LET n == scope.node  container == scope.container IN
  All({CppFunction(k, b, container) : k \in Kids(n, {"function_definition"})})
    ++ All({CppClass(k, b, container, local) : k \in Kids(n, CppClasses)})
    ++ All({Declared(container, "contains", b \o Lower(k.name)) :
              k \in Named(n, {"namespace_definition"})})
    ++ All({CppInclude(k, b) : k \in Kids(n, {"preproc_include"})})

CppExtract(b, root) ==
  LET local == CppLocal(root)
      scopes == Visited({[node |-> root, container |-> b]},
                        LAMBDA scope : CppNamespaces(scope, b))
  IN  File(b) ++ All({CppWalk(scope, b, local) : scope \in scopes})
-----------------------------------------------------------------------------
(***************************************************************************)
(* Go.                                                                     *)
(***************************************************************************)
(* The type of the receiver, the first parameter, which may be a pointer.  *)
GoReceiver(list) ==
  LET types == UNION {Kids(p, {"type_identifier", "pointer_type"}) :
                        p \in {q \in First(list) : q.kind = "parameter_declaration"}}
      plain == UNION {IF t.kind = "pointer_type" THEN First(t) ELSE {t} : t \in types}
  IN  NamesOf({t \in plain : t.kind = "type_identifier"})

GoImport(n, b) ==
  LET specs == UNION {IF k.kind = "import_spec_list" THEN AllKids(k) ELSE {k} :
                        k \in First(n)}
  IN  ImportsSome(b, NamesOf({s \in specs : s.kind = "import_spec"}))

GoFunction(n, b) == Symbol(b, n.name)

(* The type may be declared in another file of the package, or nowhere.    *)
GoMethod(n, b) ==
  All({Method(b \o t, Lower(n.name)) :
         t \in UNION {GoReceiver(k) : k \in Kids(n, {"receiver"})}})

GoTypeDecl(n, b) == Symbols(b, Named(n, {"type_spec", "type_alias"}))

GoExtract(b, root) ==
  File(b)
    ++ All({GoFunction(n, b) : n \in Named(root, {"function_declaration"})})
    ++ All({GoMethod(n, b) : n \in Named(root, {"method_declaration"})})
    ++ All({GoTypeDecl(n, b) : n \in Kids(root, {"type_declaration"})})
    ++ All({GoImport(n, b) : n \in Kids(root, {"import_declaration"})})
-----------------------------------------------------------------------------
(***************************************************************************)
(* Rust.  Labels are the bare names; there is no node for the file.        *)
(***************************************************************************)
(* A visit is of a node below the function fn and the impl of type impl,   *)
(* NoName where there is none.  What the node says:                        *)
RustNode(n, fn, impl) ==
  CASE n.kind = "function_item" /\ HasName(n) ->
         [nodes |-> {n.name},
          edges |-> IF impl = NoName THEN {} ELSE {Edge(impl, "defines", n.name)}]
    [] n.kind \in {"struct_item", "enum_item", "trait_item", "mod_item"} /\ HasName(n) ->
         [nodes |-> {n.name}, edges |-> {}]
    [] n.kind = "call_expression" /\ fn # NoName /\ HasName(n) ->
         Related(fn, "calls", n.name)
    [] OTHER -> Nothing

RustKids(visit) ==
  LET n == visit.node IN
  {[node |-> k,
    fn |-> IF n.kind = "function_item" /\ HasName(n) THEN n.name ELSE visit.fn,
    impl |-> IF n.kind = "impl_item" /\ HasName(n) THEN n.name ELSE visit.impl] :
     k \in AllKids(n)}

RustExtract(root) ==
  All({RustNode(v.node, v.fn, v.impl) :
         v \in Visited({[node |-> root, fn |-> NoName, impl |-> NoName]}, RustKids)})
-----------------------------------------------------------------------------
(***************************************************************************)
(* Markdown.  A line is a heading, a fence, or neither, and may hold links *)
(* to pages; the children of the root are the lines in their order.  The   *)
(* words of a heading may be empty: whatever is no letter and no digit     *)
(* stands between two words.                                               *)
(***************************************************************************)
Slug(text) ==
  LET kept[i \in 0..Len(text)] ==
        IF i = 0 THEN NoName
        ELSE IF text[i] = NoWord THEN kept[i - 1] ELSE Append(kept[i - 1], Folded[text[i]])
  IN  kept[Len(text)]

MdFences == {"backticks", "tildes"}

(* fence[i]: the fence line i is within, which only its like closes.       *)
MdFence(lines) ==
  LET fence[i \in 1..(Len(lines) + 1)] ==
        IF i = 1 THEN NoName
        ELSE LET kind == lines[i - 1].kind IN
             IF kind \notin MdFences THEN fence[i - 1]
             ELSE IF fence[i - 1] = NoName THEN <<kind>>
             ELSE IF fence[i - 1] = <<kind>> THEN NoName ELSE fence[i - 1]
  IN  fence

(* The link of a page is its stem; other links say nothing.                *)
MdLinks(line, b) ==
  All({Related(b, "references", Lower(l.name)) :
         l \in {k \in Named(line, {"page"}) : k.name # <<NoWord>>}})

MdLine(line, b) ==
  (IF line.kind = "heading" /\ Slug(line.name) # NoName
   THEN Declared(b, "contains", b \o Slug(line.name)) ELSE Nothing)
    ++ MdLinks(line, b)

MdExtract(b, root) ==
  LET lines == root.kids
      fence == MdFence(lines)
  IN  All({MdLine(lines[i], b) :
             i \in {j \in DOMAIN lines :
                      lines[j].kind \notin MdFences /\ fence[j] = NoName}})

TextExtract(ext, b, root) ==
  File(b) ++ IF ext \in {"md", "markdown"} THEN MdExtract(b, root) ELSE Nothing
=============================================================================
