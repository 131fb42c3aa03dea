----------------------------- MODULE MCExtract -----------------------------
(* Programs of up to two declarations in each language, next to a few      *)
(* other files.  A is declared twice over: as A, and as a base before or   *)
(* after it.                                                               *)
EXTENDS Extract

Words == {"", "A", "a", "B", "b", "f", "F", "m", "x", "p", "P", "q", "init", "require", "relative",
          "PY", "py", "*"}
MCFolded ==
  [w \in Words \cup UNION {Registered[i].extensions : i \in DOMAIN Registered} \cup {"bin"} |->
     CASE w = "A" -> "a" [] w = "B" -> "b" [] w = "F" -> "f" [] w = "P" -> "p"
       [] w = "PY" -> "py" [] OTHER -> w]

A == <<"A">>  B == <<"B">>  F == <<"F">>  M == <<"m">>  X == <<"x">>
Init_ == <<"", "", "init", "", "">>

Field(kind, kids) == Tree(kind, NoName, kids)
Body(kind, name) == Field("body", <<Leaf(kind, name)>>)

Python == {
  Tree("class_definition", A, <<Field("superclasses", <<Leaf("identifier", B), Leaf("attribute", X)>>),
                                Body("function_definition", Init_)>>),
  Tree("class_definition", B, <<Body("function_definition", <<"">>)>>),
  Leaf("function_definition", <<"F", "x">>), Leaf("decorated_definition", NoName),
  Leaf("import_from_statement", M)}

Js == {
  Tree("class_declaration", A, <<Field("class_heritage", <<Leaf("identifier", B)>>),
    Field("body", <<Field("method_definition", <<Leaf("private_property_identifier", F)>>),
                    Field("method_definition", <<Leaf("string", X)>>)>>)>>),
  Field("export_statement", <<Leaf("class_declaration", B)>>),
  Field("lexical_declaration", <<Tree("variable_declarator", F, <<Leaf("arrow_function", NoName)>>),
                                 Leaf("variable_declarator", X)>>),
  Leaf("generator_function_declaration", F), Leaf("import_statement", M)}

Ts == {
  Tree("abstract_class_declaration", A,
    <<Field("class_heritage", <<Field("extends_clause", <<Leaf("identifier", X)>>),
                                Field("implements_clause", <<Leaf("type_identifier", B)>>)>>),
      Field("body", <<Leaf("method_definition", F),
                      Tree("method_definition", X, <<Leaf("computed_property_name", X)>>)>>)>>),
  Field("export_statement", <<Leaf("interface_declaration", B)>>),
  Leaf("enum_declaration", X), Leaf("function_declaration", F),
  Field("variable_declaration", <<Tree("variable_declarator", F,
                                       <<Leaf("function_expression", NoName)>>)>>),
  Leaf("import_statement", <<"">>)}

Ruby == {
  Tree("class", A, <<Field("superclass", <<Leaf("constant", B)>>), Body("singleton_method", F)>>),
  Tree("module", B, <<Body("method", <<"", "init">>)>>),
  Leaf("method", <<"", "f">>),
  Tree("call", <<"require", "relative">>, <<Field("arguments", <<Leaf("string", M)>>)>>),
  Tree("call", X, <<Field("arguments", <<Leaf("string", M)>>)>>)}

Php == {
  Tree("class_declaration", A, <<Field("base_clause", <<Leaf("qualified_name", X)>>),
    Field("class_interface_clause", <<Leaf("name", B)>>), Body("method_declaration", Init_)>>),
  Tree("interface_declaration", B, <<Field("base_clause", <<Leaf("name", A)>>)>>),
  Tree("trait_declaration", B, <<Body("method_declaration", F)>>),
  Tree("enum_declaration", X, <<Field("class_interface_clause", <<Leaf("name", B)>>)>>),
  Leaf("function_definition", F),
  Field("namespace_use_declaration", <<Leaf("namespace_name", X), Body("namespace_use_clause", M)>>)}

Java == {
  Tree("class_declaration", A, <<Field("superclass", <<Leaf("type_identifier", B)>>),
    Field("interfaces", <<Field("interface_type_list", <<Field("generic_type",
      <<Leaf("type_identifier", X), Field("type_arguments", <<Leaf("type_identifier", M)>>)>>)>>)>>),
    Field("body", <<Leaf("constructor_declaration", A), Leaf("method_declaration", F)>>)>>),
  Tree("interface_declaration", B, <<Field("extends_interfaces", <<Leaf("type_identifier", X)>>)>>),
  Tree("enum_declaration", X, <<Field("interfaces", <<Leaf("type_identifier", B)>>),
    Field("body", <<Field("enum_body_declarations", <<Leaf("method_declaration", M)>>)>>)>>),
  Field("import_declaration", <<Leaf("scoped_identifier", M)>>)}

Csharp == {
  Tree("class_declaration", A, <<Field("base_list", <<Leaf("identifier", B)>>),
                                 Body("method_declaration", F)>>),
  Field("namespace_declaration", <<Field("body", <<Leaf("interface_declaration", B),
                                                   Leaf("enum_declaration", X)>>)>>),
  Field("file_scoped_namespace_declaration", <<Leaf("identifier", X),
    Tree("struct_declaration", X, <<Field("base_list", <<Leaf("identifier", M)>>),
                                    Body("class_declaration", M)>>)>>),
  Field("using_directive", <<Leaf("identifier", M)>>),
  Field("global_statement", <<Field("using_directive", <<Leaf("qualified_name", M),
                                                         Leaf("identifier", X)>>)>>)}

Kotlin == {
  Field("class_declaration", <<Leaf("type_identifier", A),
    Field("delegation_specifiers", <<Field("delegation_specifier", <<Field("constructor_invocation",
      <<Field("user_type", <<Leaf("identifier", B)>>)>>)>>)>>),
    Field("class_body", <<Leaf("secondary_constructor", NoName), Leaf("function_declaration", F)>>)>>),
  Tree("object_declaration", B, <<Field("delegation_specifier", <<Field("user_type",
      <<Field("simple_user_type", <<Leaf("simple_identifier", A)>>)>>)>>),
    Field("class_body", <<Leaf("function_declaration", M)>>)>>),
  Leaf("interface_declaration", X), Leaf("function_declaration", F),
  Field("import_list", <<Leaf("import_header", M)>>)}

Scala == {
  Tree("class_definition", A, <<Field("extends_clause", <<Leaf("type_identifier", B)>>),
    Field("with_clause", <<Field("compound_type", <<Leaf("identifier", X)>>)>>),
    Field("template_body", <<Leaf("function_declaration", F)>>)>>),
  Leaf("object_definition", B), Leaf("function_definition", F),
  Tree("import_declaration", M, <<Field("namespace_selectors", <<Leaf("identifier", X),
                                                                 Leaf("identifier", <<"", "">>)>>)>>)}

C == {
  Field("function_definition", <<Field("pointer_declarator",
    <<Field("function_declarator", <<Leaf("identifier", F)>>)>>)>>),
  Tree("struct_specifier", A, <<Field("body", <<>>)>>), Leaf("union_specifier", B),
  Field("declaration", <<Tree("struct_specifier", B, <<Field("body", <<>>)>>)>>),
  Field("type_definition", <<Leaf("type_identifier", X), Tree("union_specifier", M, <<Field("body", <<>>)>>)>>),
  Leaf("preproc_include", M)}

Declarator(name) == Field("function_declarator", <<Leaf("identifier", name)>>)
Cpp == {
  Field("class_specifier", <<Leaf("type_identifier", A),
    Field("base_class_clause", <<Field("base_specifier", <<Leaf("type_identifier", B)>>),
                                 Field("qualified_identifier", <<Leaf("type_identifier", X)>>)>>),
    Field("body", <<Field("function_definition", <<Declarator(A)>>),
                    Field("function_definition", <<Declarator(F)>>)>>)>>),
  Tree("namespace_definition", M, <<Field("body", <<Field("struct_specifier", <<Leaf("identifier", B)>>),
                                                   Field("function_definition", <<Declarator(F)>>)>>)>>),
  Field("namespace_definition", <<Field("body", <<Field("struct_specifier", <<Leaf("identifier", B)>>)>>)>>),
  Field("class_specifier", <<Leaf("template_type", X)>>),
  Field("class_specifier", <<Leaf("type_identifier", X),
    Field("body", <<Field("class_specifier", <<Leaf("type_identifier", B)>>)>>)>>),
  Field("class_specifier", <<Leaf("type_identifier", M),
    Field("body", <<Field("field_declaration", <<Field("class_specifier",
      <<Leaf("type_identifier", B)>>)>>)>>)>>),
  Field("function_definition", <<Field("reference_declarator", <<Field("function_declarator",
    <<Field("qualified_identifier", <<Leaf("field_identifier", X)>>)>>)>>)>>),
  Leaf("preproc_include", M)}

Receiver(type) == Field("receiver", <<Field("parameter_declaration", <<type>>)>>)
Go == {
  Tree("method_declaration", F, <<Receiver(Field("pointer_type", <<Leaf("type_identifier", A)>>))>>),
  Tree("method_declaration", F, <<Receiver(Leaf("generic_type", A))>>),
  Field("type_declaration", <<Leaf("type_spec", A), Leaf("type_alias", B)>>),
  Leaf("function_declaration", F),
  Field("import_declaration", <<Field("import_spec_list", <<Leaf("import_spec", M)>>)>>)}

Rust == {
  Tree("function_item", F, <<Leaf("call_expression", X), Leaf("function_item", X)>>),
  Leaf("struct_item", A), Leaf("call_expression", X),
  Tree("impl_item", A, <<Tree("function_item", M, <<Field("block", <<Leaf("call_expression", F)>>)>>)>>)}

Text == {
  Tree("heading", <<"A", "", "f">>, <<Leaf("page", M), Leaf("http", X)>>), Leaf("heading", <<"", "">>),
  Leaf("backticks", NoName), Leaf("tildes", NoName), Field("line", <<Leaf("page", B)>>)}

Program(items) == {NoName} \cup {<<i>> : i \in items}
                     \cup {<<i, j>> : i, j \in items}
Sources(ext, items) ==
  {[ext |-> ext, stem |-> <<"P">>, tree |-> Field("root", kids)] : kids \in Program(items)}

One(ext, stem, item) == [ext |-> ext, stem |-> stem, tree |-> Field("root", <<item>>)]
Others == {
  One("PY", <<"p">>, Leaf("class_definition", A)),
  One("py", <<"p", "a">>, Leaf("function_definition", F)),
  One("py", <<"q">>, Leaf("function_definition", <<"F", "x">>)),
  One("kt", <<"q">>, Leaf("function_declaration", <<"A">>)),
  One("rs", <<"q">>, Tree("function_item", F, <<Leaf("call_expression", <<"p", "a">>)>>)),
  One("txt", <<"q">>, Leaf("heading", A)),
  One("bin", <<"q">>, Leaf("line", NoName))}

MCSource ==
  Sources("py", Python) \cup Sources("js", Js) \cup Sources("ts", Ts) \cup Sources("rb", Ruby)
    \cup Sources("php", Php) \cup Sources("java", Java) \cup Sources("cs", Csharp)
    \cup Sources("kt", Kotlin) \cup Sources("scala", Scala) \cup Sources("c", C)
    \cup Sources("cpp", Cpp) \cup Sources("go", Go) \cup Sources("rs", Rust)
    \cup Sources("md", Text) \cup Others

MCInit ==
  /\ \E s \in MCSource, t \in Others : source = <<s, t>>
  /\ Init
MCSpec == MCInit /\ [][Next]_vars
=============================================================================
