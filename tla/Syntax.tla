------------------------------- MODULE Syntax -------------------------------
(***************************************************************************)
(* What the walkers of crates/habitat-graph-extract/src/ast have in        *)
(* common: names, syntax trees and extractions.                            *)
(*                                                                         *)
(* A name is the sequence of words between its underscores, so that        *)
(* joining names with an underscore is \o, and __init__ is                 *)
(* <<"", "", "init", "", "">>.  What quotes an import path, or renames it, *)
(* is syntax; its dots stay within a word, unless the code puts them in.   *)
(*                                                                         *)
(* A tree is a kind, a name (NoName if there is none) and its children.  A *)
(* child that the code asks for by its field has the field for its kind,   *)
(* and where the kind of a node's name matters the name is a child.        *)
(*                                                                         *)
(* An extraction is a set of labels and a set of edges: spans are left     *)
(* out, and with them the order and the number of equal nodes.             *)
(***************************************************************************)
EXTENDS Integers, Sequences, SequencesExt, FiniteSetsExt

CONSTANTS
  Folded,  \* Folded[w]: the word w in lower case
  Depth    \* how deep trees are at most

Word == DOMAIN Folded

ASSUME FoldedAssumption == Folded \in [Word -> Word]
ASSUME DepthAssumption == Depth \in Nat

NoWord == ""     \* before a leading underscore, and between two of them
NoName == <<>>
HasName(n) == n.name # NoName

Lower(name) == [i \in DOMAIN name |-> Folded[name[i]]]

(* A path of several parts: the separator is put between them.             *)
Dotted(name, separator, rest) == name \o <<separator>> \o rest

(* method_id: no underscores around a method's name, unless it has nothing *)
(* else.                                                                   *)
MethodId(name) ==
  LET inner == {i \in DOMAIN name : name[i] # NoWord}
  IN  IF inner = {} THEN Lower(name)
      ELSE Lower(SubSeq(name, Min(inner), Max(inner)))
-----------------------------------------------------------------------------
(***************************************************************************)
(* Trees.                                                                  *)
(***************************************************************************)
Leaf(kind, name) == [kind |-> kind, name |-> name, kids |-> <<>>]
Tree(kind, name, kids) == [kind |-> kind, name |-> name, kids |-> kids]

AllKids(n) == ToSet(n.kids)
Kids(n, kinds) == {k \in AllKids(n) : k.kind \in kinds}
First(n) == IF n.kids = <<>> THEN {} ELSE {n.kids[1]}

(* The children with a name; the names of some nodes, in lower case.       *)
Named(n, kinds) == {k \in Kids(n, kinds) : HasName(k)}
NamesOf(nodes) == {Lower(n.name) : n \in nodes}

(* The named children of a class's body, and the like.                     *)
Below(n, field, kinds) == UNION {Named(k, kinds) : k \in Kids(n, field)}

(* Recursion: what is visited when Children(x) are visited after x.        *)
Visited(start, Children(_)) ==
  LET level[k \in 0..Depth] ==
        IF k = 0 THEN start ELSE UNION {Children(x) : x \in level[k - 1]}
  IN  UNION {level[k] : k \in 0..Depth}
-----------------------------------------------------------------------------
(***************************************************************************)
(* Extractions.                                                            *)
(***************************************************************************)
Edge(source, relation, target) ==
  [source |-> source, relation |-> relation, target |-> target]

Nothing == [nodes |-> {}, edges |-> {}]
x ++ y == [nodes |-> x.nodes \cup y.nodes, edges |-> x.edges \cup y.edges]
All(xs) == [nodes |-> UNION {x.nodes : x \in xs},
            edges |-> UNION {x.edges : x \in xs}]

File(b) == [nodes |-> {b}, edges |-> {}]
Related(source, relation, target) ==
  [nodes |-> {}, edges |-> {Edge(source, relation, target)}]
Declared(container, relation, label) ==
  [nodes |-> {label}, edges |-> {Edge(container, relation, label)}]

Symbol(b, name) == Declared(b, "contains", b \o Lower(name))
Symbols(b, nodes) == All({Symbol(b, n.name) : n \in nodes})
Method(class, name) == Declared(class, "method", class \o name)
Methods(class, nodes) == All({Method(class, MethodId(n.name)) : n \in nodes})

(* An import without a path is passed over; most walkers pass over one     *)
(* with an empty path as well.                                             *)
Imports(b, modules) ==
  All({Related(b, "imports_from", m) : m \in modules \ {NoName}})
ImportsSome(b, modules) == Imports(b, modules \ {<<NoWord>>})

(* A base of this file has the file's prefix, another is bare.             *)
Inherits(b, local, bases, class) ==
  All({Related(IF base \in local THEN b \o base ELSE base, "inherits", class) :
         base \in bases})
=============================================================================
