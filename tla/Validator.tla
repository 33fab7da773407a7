----------------------------- MODULE Validator ------------------------------
(***************************************************************************)
(* PatchValidator (mutation/validators.py), and what HarnessLoader makes   *)
(* of a source it accepted.  A source is its syntax tree as far as they    *)
(* read it: parses; nodes, what ast.walk meets anywhere in it; and body,   *)
(* the top-level statements that bind a name, in order.                    *)
(*                                                                         *)
(* A node is [kind, name]; the name of an import is the dotted path as a   *)
(* sequence, empty for "from . import".  A statement is [binds, kind,      *)
(* methods]: a class with its methods, or anything else that binds a name. *)
(***************************************************************************)
EXTENDS Integers, Sequences

AllowedImports == {"json", "time", "math", "re", "enum", "uuid", "typing", "dataclasses",
                   "collections", "itertools", "functools", "pydantic", "self_harness",
                   "__future__"}
ForbiddenCalls == {"eval", "exec", "compile", "__import__", "open", "input", "breakpoint",
                   "globals", "locals", "vars", "getattr", "setattr", "delattr", "memoryview"}
ForbiddenAttributes == {"__globals__", "__builtins__", "__subclasses__", "__bases__", "__mro__",
                        "__code__", "__closure__", "__import__", "__loader__", "__spec__"}
ForbiddenNames == {"__builtins__", "__loader__", "__spec__"}
RequiredMethods == {"__init__", "build_context", "next_action"}

\* _check_import of one module; the code compares the prefix self_harness.core.
ImportAllowed(path) ==
    path # <<>> =>
        /\ Head(path) \in AllowedImports
        /\ Head(path) = "self_harness" => Len(path) > 1 /\ path[2] = "core"

\* _check_node; a call is a call of a bare name.
NodeAllowed(node) ==
    CASE node.kind = "import" -> ImportAllowed(node.name)
      [] node.kind = "call" -> node.name \notin ForbiddenCalls
      [] node.kind = "attribute" -> node.name \notin ForbiddenAttributes
      [] node.kind = "name" -> node.name \notin ForbiddenNames

\* The Harness classes among the top-level statements, by position.
HarnessClasses(source) ==
    {i \in DOMAIN source.body :
        source.body[i].binds = "Harness" /\ source.body[i].kind = "class"}

\* next(...): the first of them is checked.
Checked(source) ==
    {i \in HarnessClasses(source) : \A j \in HarnessClasses(source) : i <= j}

CheckSource(source) ==
    /\ source.parses
    /\ \A node \in source.nodes : NodeAllowed(node)
    /\ \E i \in Checked(source) : RequiredMethods \subseteq source.body[i].methods

\* PatchValidator.check.
Check(patch) == patch.specValid /\ CheckSource(patch.source)

-----------------------------------------------------------------------------

\* HarnessLoader._load_class: the last statement that binds Harness wins; 0
\* when there is none (ImportError).
Bound(source) ==
    LET binding == {i \in DOMAIN source.body : source.body[i].binds = "Harness"}
    IN IF binding = {} THEN 0 ELSE CHOOSE i \in binding : \A j \in binding : j <= i
=============================================================================
