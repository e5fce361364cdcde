------------------------------ MODULE KeyValue ------------------------------
(***************************************************************************)
(* Valve's KeyValue trees (crates/steam/src/types/key_value.rs), in their  *)
(* binary and their text form.                                             *)
(*                                                                         *)
(* Input is a sequence of tokens of either form: a key that opens a        *)
(* section, a key with its value, the end of a section, and what is none   *)
(* of these.  Both parsers descend over them in the same way; they differ  *)
(* in what they take for a token.                                          *)
(***************************************************************************)
EXTENDS Integers, Sequences, FiniteSets

CONSTANTS
    KeyOrder,       \* all keys, in the order of their bytes
    Lower           \* key -> the key in lower case

Keys == {KeyOrder[i] : i \in DOMAIN KeyOrder}

ASSUME KeyAssumption == KeyOrder \in Seq(STRING) /\ Lower \in [Keys -> Keys]

\* no string: the value of a number or of a section
NoString == "no string"

Opens(form, key) == [form |-> form, does |-> "open", key |-> key, value |-> NoString]

Leaf(form, key, value) == [form |-> form, does |-> "leaf", key |-> key, value |-> value]

Closes(form) == [form |-> form, does |-> "close", key |-> NoString, value |-> NoString]

Failure == [ok |-> FALSE]

\* what a parser of the one form makes of a token of the other: its first
\* byte is neither a tag nor a quote
Kind(form, token) == IF token.form = form THEN token.does ELSE "broken"

Node(key, string, children) == [key |-> key, string |-> string, children |-> children]

One(node) == [k \in {node.key} |-> node]

\* of two children with the same key the one of f stays
Over(f, g) ==
    [k \in DOMAIN f \cup DOMAIN g |-> IF k \in DOMAIN f THEN f[k] ELSE g[k]]

\* parse_node at a position of the input; found says for every later one what
\* parse_children makes of the section that goes on there
NodeAt(form, input, found, at) ==
    LET inner == found[at + 1]
    IN  IF at > Len(input) \/ Kind(form, input[at]) \in {"broken", "close"} THEN Failure
        ELSE IF Kind(form, input[at]) = "leaf"
             THEN [ok |-> TRUE, rest |-> at + 1,
                   node |-> Node(input[at].key, input[at].value, <<>>)]
             ELSE IF ~inner.ok THEN Failure
                  ELSE [ok |-> TRUE, rest |-> inner.rest,
                        node |-> Node(input[at].key, NoString, inner.children)]

\* up to the end of the section, or of the input: a section need not be
\* closed; of two children with the same key the later one stays
ChildrenAt(form, input, found, at) ==
    IF at > Len(input) THEN [ok |-> TRUE, rest |-> at, children |-> <<>>]
    ELSE IF Kind(form, input[at]) = "close" THEN [ok |-> TRUE, rest |-> at + 1, children |-> <<>>]
    ELSE LET n == NodeAt(form, input, found, at)
             others == found[n.rest]
         IN  IF ~n.ok \/ ~others.ok THEN Failure
             ELSE [ok |-> TRUE, rest |-> others.rest,
                   children |-> Over(others.children, One(n.node))]

parse_children(form, input) ==
    LET found[at \in 1 .. Len(input) + 1] == ChildrenAt(form, input, found, at)
    IN  found

parse_node(form, input, at) == NodeAt(form, input, parse_children(form, input), at)

\* what follows the root is not read
parse_binary_kv(input) == parse_node("binary", input, 1)

parse_text_kv(input) == parse_node("text", input, 1)

-----------------------------------------------------------------------------
(* Looking into a tree.                                                    *)

Missing == Node(NoString, NoString, <<>>)

\* the elements of a sequence at some of its positions, in their order
Picked(s, positions) ==
    [n \in 1 .. Cardinality(positions) |->
        s[CHOOSE i \in positions : Cardinality({j \in positions : j <= i}) = n]]

\* the map is ordered by the bytes of the keys
InOrder(children) ==
    Picked(KeyOrder, {i \in DOMAIN KeyOrder : KeyOrder[i] \in DOMAIN children})

\* the ones of the keys that are the same in lower case
Agreeing(keys, key) == Picked(keys, {i \in DOMAIN keys : Lower[keys[i]] = Lower[key]})

FirstChild(node, keys) == IF keys = <<>> THEN Missing ELSE node.children[Head(keys)]

get(node, key) == FirstChild(node, Agreeing(InOrder(node.children), key))

\* numbers are no strings
as_str(node) == node.string
=============================================================================
