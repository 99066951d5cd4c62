----------------------------- MODULE BodyMutation -----------------------------
(***************************************************************************)
(* The JSON mutation (internal/faults/mutate.go, from line 94).  Objects   *)
(* and arrays are Go maps and slices: they are changed in place, and       *)
(* whoever holds a copy of the reference sees the change.  The model has   *)
(* a heap of containers for that reason.                                   *)
(*                                                                         *)
(* A string is the number of times its text is repeated, 0 when empty;     *)
(* numbers are zero or not, booleans true or not.  An object and an array  *)
(* are functions to their items, from keys and from 1, 2, ...  A path is a *)
(* sequence of keys, of the program's indexes as text, and of Every, its   *)
(* "*".                                                                    *)
(***************************************************************************)
EXTENDS Integers, Sequences, FiniteSets, SequencesExt

CONSTANT Every

(* strconv.Atoi, for the indexes in use; the program's indexes start at 0. *)
IndexOf(segment) == CASE segment = "0" -> 1 [] segment = "1" -> 2 [] OTHER -> 0

Null == [type |-> "null"]
Text(n) == [type |-> "string", times |-> n]
Number(zero) == [type |-> "number", zero |-> zero]
Bool(value) == [type |-> "bool", true |-> value]
Object(fields) == [type |-> "object", items |-> fields]
Array(items) == [type |-> "array", items |-> items]
Ref(address) == [type |-> "ref", address |-> address]

(* The value that takes the place of another, the heap it refers to, and how *)
(* many values were changed.                                                 *)
Result(value, heap, changed) == [value |-> value, heap |-> heap, changed |-> changed]
New(heap, container) == Result(Ref(Len(heap) + 1), Append(heap, container), 1)

Repeat(items, factor) ==
    [i \in 1 .. Len(items) * factor |-> items[((i - 1) % Len(items)) + 1]]

(* What the operation makes of a value. *)
transform(op, value, heap) ==
    LET target == IF value.type = "ref" THEN heap[value.address] ELSE value
    IN  CASE op.name = "nullify" /\ value # Null -> Result(Null, heap, 1)
          [] op.name = "empty" /\ target.type = "string" -> Result(Text(0), heap, 1)
          [] op.name = "empty" /\ target.type = "number" -> Result(Number(TRUE), heap, 1)
          [] op.name = "empty" /\ target.type = "bool" -> Result(Bool(FALSE), heap, 1)
          [] op.name = "empty" /\ target.type = "array" -> New(heap, Array(<<>>))
          [] op.name = "empty" /\ target.type = "object" -> New(heap, Object(<<>>))
          [] op.name = "inflate" /\ target.type = "array" /\ target.items # <<>> ->
                 New(heap, Array(Repeat(target.items, op.factor)))
          [] op.name = "stretch" /\ target.type = "string" /\ target.times > 0 ->
                 Result(Text(value.times * op.factor), heap, 1)
          [] OTHER -> Result(value, heap, 0)

(* The items a segment of a path selects. *)
Selected(segment, container) ==
    CASE segment = Every -> DOMAIN container.items
      [] segment # Every /\ container.type = "array" ->
             {IndexOf(segment)} \cap DOMAIN container.items
      [] OTHER -> {segment} \cap DOMAIN container.items

KeysInOrder(segment, container) ==
    IF container.type = "array" THEN SetToSortSeq(Selected(segment, container), <)
                                ELSE SetToSeq(Selected(segment, container))

Without(items, dropped) ==
    LET kept == SetToSortSeq(DOMAIN items \ dropped, <)
    IN  [i \in DOMAIN kept |-> items[kept[i]]]

RECURSIVE apply(_, _, _, _)

\* Mutant of visit: an element is dropped at once, and the next ones move up.
visitDropsAtOnce(op, path, address, at, key) ==
    LET container == at.heap[address]
        child == container.items[key]
        Stored(result) ==
            [at EXCEPT !.heap = [result.heap EXCEPT ![address].items[key] = result.value],
                       !.changed = @ + result.changed]
    IN  CASE key \notin DOMAIN container.items -> at
          [] key \in DOMAIN container.items /\ op.name = "drop" /\ Len(path) = 1 ->
                 [at EXCEPT !.changed = @ + 1,
                            !.heap[address].items =
                                IF container.type = "array" THEN Without(@, {key})
                                ELSE [k \in DOMAIN @ \ {key} |-> @[k]]]
          [] OTHER -> Stored(IF Len(path) > 1 THEN apply(op, child, at.heap, Tail(path))
                             ELSE transform(op, child, at.heap))

(* One turn of the loops of apply, at an item of the container. *)
visit(op, path, address, at, key) ==
    LET container == at.heap[address]
        child == container.items[key]
        Stored(result) ==
            [at EXCEPT !.heap = [result.heap EXCEPT ![address].items[key] = result.value],
                       !.changed = @ + result.changed]
    IN  CASE Len(path) > 1 -> Stored(apply(op, child, at.heap, Tail(path)))
          [] Len(path) = 1 /\ op.name = "drop" /\ container.type = "object" ->
                 [at EXCEPT !.changed = @ + 1,
                            !.heap[address].items = [k \in DOMAIN @ \ {key} |-> @[k]]]
          [] Len(path) = 1 /\ op.name = "drop" /\ container.type = "array" ->
                 [at EXCEPT !.changed = @ + 1, !.dropped = @ \cup {key}]
          [] OTHER -> Stored(transform(op, child, at.heap))

(* The elements an array loses are left out of a new slice, after the loop. *)
apply(op, value, heap, path) ==
    IF value.type # "ref" THEN Result(value, heap, 0)
    ELSE LET end == FoldLeft(LAMBDA at, key : visit(op, path, value.address, at, key),
                             [heap |-> heap, changed |-> 0, dropped |-> {}],
                             KeysInOrder(Head(path), heap[value.address]))
             kept == Array(Without(end.heap[value.address].items, end.dropped))
         IN  IF end.dropped = {} THEN Result(value, end.heap, end.changed)
             ELSE [New(end.heap, kept) EXCEPT !.changed = end.changed]

(* The operations in their order; the document is sent on unless none of them *)
(* changed anything.                                                          *)
mutate(ops, value, heap) ==
    FoldLeft(LAMBDA at, op : LET next == apply(op, at.value, at.heap, op.path)
                             IN  [next EXCEPT !.changed = @ + at.changed],
             Result(value, heap, 0), ops)

-------------------------------------------------------------------------------
(* What the operations are for (README.md:293-299), on documents that are   *)
(* trees: each acts on every place its path selects, on all of them at once. *)

RECURSIVE Tree(_, _)
Tree(value, heap) ==
    IF value.type # "ref" THEN value
    ELSE [heap[value.address] EXCEPT !.items = [k \in DOMAIN @ |-> Tree(@[k], heap)]]

Documented(op, tree) ==
    CASE op.name = "nullify" -> Null
      [] op.name = "empty" /\ tree.type = "string" -> Text(0)
      [] op.name = "empty" /\ tree.type = "number" -> Number(TRUE)
      [] op.name = "empty" /\ tree.type = "bool" -> Bool(FALSE)
      [] op.name = "empty" /\ tree.type \in {"array", "object"} -> [tree EXCEPT !.items = <<>>]
      [] op.name = "inflate" /\ tree.type = "array" ->
             Array([i \in 1 .. op.factor * Len(tree.items) |->
                        tree.items[1 + ((i - 1) % Len(tree.items))]])
      [] op.name = "stretch" /\ tree.type = "string" -> Text(tree.times * op.factor)
      [] OTHER -> tree

RECURSIVE Edited(_, _, _)
Edited(op, tree, path) ==
    LET chosen == IF tree.type \in {"object", "array"} THEN Selected(Head(path), tree) ELSE {}
        Item(k) == CASE k \notin chosen -> tree.items[k]
                     [] k \in chosen /\ Len(path) = 1 -> Documented(op, tree.items[k])
                     [] OTHER -> Edited(op, tree.items[k], Tail(path))
    IN  CASE chosen = {} -> tree
          [] chosen # {} /\ Len(path) = 1 /\ op.name = "drop" ->
                 IF tree.type = "array" THEN Array(Without(tree.items, chosen))
                 ELSE Object([k \in DOMAIN tree.items \ chosen |-> tree.items[k]])
          [] OTHER -> [tree EXCEPT !.items = [k \in DOMAIN @ |-> Item(k)]]

RECURSIVE Within(_, _)
\* The containers in a value.
Within(value, heap) ==
    IF value.type # "ref" THEN {}
    ELSE LET items == heap[value.address].items
         IN  {value.address} \cup UNION {Within(items[k], heap) : k \in DOMAIN items}

(* No container is in two places of the value.  inflate repeats references,  *)
(* so a document may stop being a tree after it: see the README.             *)
IsTree(value, heap) ==
    \A address \in Within(value, heap) :
        LET items == heap[address].items
        IN  \A j, k \in DOMAIN items :
                j # k => Within(items[j], heap) \cap Within(items[k], heap) = {}

(* Changing maps and slices in place, one item after the other, comes to the *)
(* same as changing every place a path selects at once: several elements are *)
(* dropped by the indexes they had.  That is so of every operation that is   *)
(* given a tree; and a document in which nothing is changed is sent on as it *)
(* came (mutate.go:108), whatever it is.                                     *)
ActsOnEachPlace(ops, value, heap) ==
    LET After(n) == mutate(SubSeq(ops, 1, n), value, heap)
        TreeAfter(n) == Tree(After(n).value, After(n).heap)
    IN  /\ \A n \in DOMAIN ops :
               IsTree(After(n - 1).value, After(n - 1).heap)
                   => TreeAfter(n) = Edited(ops[n], TreeAfter(n - 1), ops[n].path)
        /\ After(Len(ops)).changed = 0 => TreeAfter(Len(ops)) = TreeAfter(0)
================================================================================
