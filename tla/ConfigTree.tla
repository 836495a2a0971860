----------------------------- MODULE ConfigTree -----------------------------
(***************************************************************************)
(* The tree of settings of src/rconfig/rconfig.h: JSON objects with        *)
(* settings for leaves.  The user may edit the file it is loaded from, so  *)
(* any node may be of a kind the program does not expect.                  *)
(***************************************************************************)
EXTENDS Naturals, Sequences

CONSTANTS
    Name,       \* path components
    Key,        \* the paths of the settings, as sequences of components
    Value,      \* values of the right type
    Default     \* init_default_settings(): the default of every setting

Absent == "absent"
Object == "object"
Invalid == "invalid"    \* a scalar or an array no setting can have

\* The proper prefixes of a path, the root <<>> among them.
Ancestors(path) == {SubSeq(path, 1, i) : i \in 0 .. Len(path) - 1}

\* "default" must provide every path which config may hold, and no setting holds another.
ASSUME KeyAssumption ==
    /\ Key \subseteq Seq(Name) \ {<<>>}
    /\ \A p, q \in Key : p \notin Ancestors(q)
ASSUME ValueAssumption ==
    /\ Value \cap {Absent, Object, Invalid} = {}
    /\ Default \in [Key -> Value]

Path == {<<>>} \cup Key \cup UNION {Ancestors(p) : p \in Key}
Within(path) == {q \in Path : path \in Ancestors(q)}

NodeAt(path) == {Absent, Object, Invalid} \cup (IF path \in Key THEN Value ELSE {})

\* JSON documents: only objects have children, and there is a root.
Tree == {t \in [Path -> {Absent, Object, Invalid} \cup Value] :
            /\ t[<<>>] # Absent
            /\ \A p \in Path : /\ t[p] \in NodeAt(p)
                               /\ \A a \in Ancestors(p) : t[a] # Object => t[p] = Absent}

\* json::object()
EmptyTree == [p \in Path |-> IF p = <<>> THEN Object ELSE Absent]

\* "we can't have non-object values in the middle of a path"
Blocking(t, path) == {a \in Ancestors(path) : t[a] \notin {Object, Absent}}

\* Mutation: objects on the way are made anew.
SetNodeAfresh(t, path, value) ==
    IF Blocking(t, path) # {} THEN t
    ELSE [q \in Path |-> IF q = path THEN value
                         ELSE IF q \in Ancestors(path) THEN Object
                         ELSE IF Len(path) > 1 /\ SubSeq(path, 1, 1) \in Ancestors(q) THEN Absent
                         ELSE t[q]]

\* set_node_data(), which throws before it has changed anything; missing objects are made.
SetNode(t, path, value) ==
    IF Blocking(t, path) # {} THEN t
    ELSE [q \in Path |-> IF q = path THEN value
                         ELSE IF q \in Ancestors(path) THEN Object
                         ELSE IF q \in Within(path) THEN Absent
                         ELSE t[q]]

\* unset_node_data(): a non-object in the middle of the path (not the root) is removed.
UnsetNode(t, path) ==
    LET erased == {path} \cup Within(path) \cup (Blocking(t, path) \ {<<>>})
    IN  [q \in Path |-> IF q \in erased THEN Absent ELSE t[q]]

\* get_data(): whatever is missing or of a wrong type is looked up in the defaults.
Read(t, key) == IF t[key] \in Value THEN t[key] ELSE Default[key]

Reads(t) == [k \in Key |-> Read(t, k)]
=============================================================================
