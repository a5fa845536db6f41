------------------------------ MODULE PickleVm ------------------------------
(***************************************************************************)
(* The pickle machine that reads a Ren'Py index                            *)
(* (src/src/modules/renpy/pickle.cpp).  A program is chosen opcode by      *)
(* opcode, of any length, and may end anywhere.  A value is [type, depth,  *)
(* text, items]: depth is the depth_ the code caches, items is the set of  *)
(* the [key, child] it holds, whose key is "" in a list or a tuple: a      *)
(* depth tells neither the order of children nor equal ones apart.         *)
(***************************************************************************)
EXTENDS Integers, Sequences, FiniteSetsExt, SequencesExt

CONSTANTS
  MaxDepth,  \* value::max_depth
  Scalars,   \* types of the values without children, strings apart
  Strings,   \* what a string may say
  MemoIds,
  NodeBound, MarkBound  \* how much of the stacks is explored; the code has no limit of its own

ASSUME PickleAssumption == MaxDepth \in Nat \ {0} /\ Scalars \cap {"unset", "list", "tuple", "dict"} = {}

VARIABLES stack, marks, memo, pickled

machine == <<stack, marks, memo, pickled>>

Unset == [type |-> "unset", depth |-> 0, text |-> "", items |-> {}]
Scalar(type, text) == [type |-> type, depth |-> 0, text |-> text, items |-> {}]

PickleInit ==
  /\ stack = <<>> /\ marks = <<>>
  /\ memo = [i \in MemoIds |-> Unset]
  /\ pickled = [state |-> "running", value |-> Unset]

Running == pickled.state = "running"
\* A throw ends the machine and frees its values.
Throw == /\ stack' = <<>> /\ marks' = <<>> /\ memo' = [i \in MemoIds |-> Unset]
         /\ pickled' = [state |-> "error", value |-> Unset]

Children(value) == {item.child : item \in value.items}

\* What a value holds n levels down, itself at level 0.
Descendants(value) ==
  LET below[n \in 0..MaxDepth] == IF n = 0 THEN {value} ELSE UNION {Children(v) : v \in below[n - 1]} IN below

Size(value) == Cardinality(UNION Range(Descendants(value)))
Becomes(values) == /\ MapThenSumSet(LAMBDA i : Size(values[i]), DOMAIN values) <= NodeBound
                   /\ stack' = values

TooDeep(child) == child.depth >= MaxDepth

\* container_depth, of the children that are owned.
ContainerDepth(items) == Max({1} \union {item.child.depth + 1 : item \in items})
Container(type, items) == [type |-> type, depth |-> ContainerDepth(items), text |-> "", items |-> items]
Unkeyed(values) == {[key |-> "", child |-> values[i]] : i \in DOMAIN values}

\* dict assignment: the value of a key that is there is replaced.
Assign(items, key, child) == {item \in items : item.key # key} \union {[key |-> key, child |-> child]}

\* Mutant of Set: a shallower value does not make the dictionary shallower.
SetNeverShallower(target, key, child) ==
  [target EXCEPT !.items = Assign(@, key, child), !.depth = Max({@, child.depth + 1})]

\* value::set: the depth is recomputed when the deepest child is replaced by a shallower one.
Set(target, key, child) ==
  LET items     == Assign(target.items, key, child)
      recompute == /\ child.depth + 1 < target.depth
                   /\ \E item \in target.items : item.key = key /\ item.child.depth + 1 = target.depth
  IN [target EXCEPT !.items = items,
                    !.depth = IF recompute THEN ContainerDepth(items) ELSE Max({@, child.depth + 1})]

\* value::append, of one child or of many.
AppendTo(target, children) ==
  [target EXCEPT !.items = @ \union Unkeyed(children),
                 !.depth = Max({@, ContainerDepth(Unkeyed(children))})]

-----------------------------------------------------------------------------
Top == Last(stack)
Below(n) == SubSeq(stack, 1, Len(stack) - n)
Push(value) == Becomes(Append(stack, value))

MarkOk == marks # <<>> /\ Last(marks) <= Len(stack)
Marked == SubSeq(stack, Last(marks) + 1, Len(stack))
UnderMark == SubSeq(stack, 1, Last(marks))

\* The program ends in the middle of an opcode or without a STOP, or holds an unknown one.
Broken == Running /\ Throw

\* PROTO and FRAME are read over.
Mark ==
  /\ Running /\ Len(marks) < MarkBound
  /\ marks' = Append(marks, Len(stack))
  /\ UNCHANGED <<stack, memo, pickled>>

\* Numbers, None, booleans and bytes; a LONG1 of more than eight bytes is Broken.
PushScalar ==
  /\ Running /\ \E type \in Scalars : Push(Scalar(type, ""))
  /\ UNCHANGED <<marks, memo, pickled>>

PushText ==
  /\ Running /\ \E text \in Strings : Push(Scalar("string", text))
  /\ UNCHANGED <<marks, memo, pickled>>

PushEmpty ==
  /\ Running
  /\ \E type \in {"list", "tuple", "dict"} : Push(Container(type, {}))
  /\ UNCHANGED <<marks, memo, pickled>>

AppendOne ==
  /\ Running
  /\ IF Len(stack) < 2 \/ TooDeep(Top) \/ Last(Below(1)).type # "list"
     THEN Throw
     ELSE /\ Becomes(Append(Below(2), AppendTo(Last(Below(1)), <<Top>>)))
          /\ UNCHANGED <<marks, memo, pickled>>

Appends ==
  /\ Running
  /\ IF ~MarkOk \/ UnderMark = <<>> THEN Throw
     ELSE IF Last(UnderMark).type # "list" \/ \E i \in DOMAIN Marked : TooDeep(Marked[i])
     THEN Throw
     ELSE /\ Becomes(Append(Front(UnderMark), AppendTo(Last(UnderMark), Marked)))
          /\ marks' = Front(marks) /\ UNCHANGED <<memo, pickled>>

\* LIST and TUPLE take what is above the mark.
MakeMarked ==
  /\ Running
  /\ IF ~MarkOk THEN Throw
     ELSE IF \E i \in DOMAIN Marked : TooDeep(Marked[i]) THEN Throw
     ELSE /\ \E type \in {"list", "tuple"} : Becomes(Append(UnderMark, Container(type, Unkeyed(Marked))))
          /\ marks' = Front(marks) /\ UNCHANGED <<memo, pickled>>

\* TUPLE1, TUPLE2, TUPLE3 take what is there, marked or not.
MakeTuple ==
  /\ Running
  /\ \E n \in 1..3 :
       IF Len(stack) < n THEN Throw
       ELSE LET items == SubSeq(stack, Len(stack) - n + 1, Len(stack))
            IN IF \E i \in DOMAIN items : TooDeep(items[i]) THEN Throw
               ELSE /\ Becomes(Append(Below(n), Container("tuple", Unkeyed(items))))
                    /\ UNCHANGED <<marks, memo, pickled>>

\* Pairs of a key and a value: an even number, every key a string.
Paired(items) == Len(items) % 2 = 0 /\ \A i \in DOMAIN items : i % 2 = 1 => items[i].type = "string"
ValueAt(items) == {i \in DOMAIN items : i % 2 = 0}

\* A dictionary built of pairs keeps, of each key, the last value.
LastPairs(items) ==
  {[key |-> items[i - 1].text, child |-> items[i]] :
     i \in {j \in ValueAt(items) : \A k \in ValueAt(items) : k > j => items[k - 1].text # items[j - 1].text}}

\* The dictionary after the pairs up to each position are set one by one.
SetPairs(target, items) ==
  LET done[n \in 0..Len(items)] ==
        IF n = 0 THEN target
        ELSE IF n % 2 = 1 THEN done[n - 1] ELSE Set(done[n - 1], items[n - 1].text, items[n])
  IN done[Len(items)]

\* DICT: a value a later pair replaces is gone before depths are looked at.
MakeDict ==
  /\ Running
  /\ IF ~MarkOk THEN Throw
     ELSE IF ~Paired(Marked) THEN Throw
     ELSE IF \E item \in LastPairs(Marked) : TooDeep(item.child) THEN Throw
     ELSE /\ Becomes(Append(UnderMark, Container("dict", LastPairs(Marked))))
          /\ marks' = Front(marks) /\ UNCHANGED <<memo, pickled>>

SetItem ==
  /\ Running
  /\ IF Len(stack) < 3 THEN Throw
     ELSE LET key    == Last(Below(1))
              target == Last(Below(2))
          IN IF target.type # "dict" \/ key.type # "string" \/ TooDeep(Top) THEN Throw
             ELSE /\ Becomes(Append(Below(3), Set(target, key.text, Top)))
                  /\ UNCHANGED <<marks, memo, pickled>>

\* SETITEMS: every pair is checked before the first is set.
SetItems ==
  /\ Running
  /\ IF ~MarkOk THEN Throw
     ELSE IF UnderMark = <<>> \/ ~Paired(Marked) THEN Throw
     ELSE IF Last(UnderMark).type # "dict" \/ \E i \in ValueAt(Marked) : TooDeep(Marked[i]) THEN Throw
     ELSE /\ Becomes(Append(Front(UnderMark), SetPairs(Last(UnderMark), Marked)))
          /\ marks' = Front(marks) /\ UNCHANGED <<memo, pickled>>

\* BINPUT, LONG_BINPUT and MEMOIZE: the memo keeps a copy.
Put ==
  /\ Running
  /\ IF stack = <<>> THEN Throw
     ELSE /\ \E i \in MemoIds : memo' = [memo EXCEPT ![i] = Top]
          /\ UNCHANGED <<stack, marks, pickled>>

Get ==
  /\ Running
  /\ \E i \in MemoIds :
       IF memo[i] = Unset THEN Throw
       ELSE Push(memo[i]) /\ UNCHANGED <<marks, memo, pickled>>

StopPickle ==
  /\ Running
  /\ IF Len(stack) # 1 THEN Throw
     ELSE /\ pickled' = [state |-> "value", value |-> Top]
          /\ stack' = <<>> /\ marks' = <<>> /\ memo' = [i \in MemoIds |-> Unset]

PickleNext ==
  \/ Broken \/ Mark \/ PushScalar \/ PushText \/ PushEmpty
  \/ AppendOne \/ Appends \/ MakeMarked \/ MakeTuple \/ MakeDict \/ SetItem \/ SetItems
  \/ Put \/ Get \/ StopPickle

PickleSpec == PickleInit /\ [][PickleNext]_machine

-----------------------------------------------------------------------------
IsContainer(value) == value.type \in {"list", "tuple", "dict"}

\* How deep a value really is: the levels that hold a container.
Nesting(value) == Cardinality({n \in 0..MaxDepth : \E v \in Descendants(value)[n] : IsContainer(v)})

Values == ToSet(stack) \union {memo[i] : i \in MemoIds} \union {pickled.value}

(***************************************************************************)
(* The depth a value carries is the depth it has, after any sequence of    *)
(* appends, assignments that replace a deeper value by a shallower one,    *)
(* and copies through the memo: so the limit on it, which bounds the       *)
(* recursion of clone and of the destructor, is a limit on the value.      *)
(***************************************************************************)
DepthIsExact == \A v \in Values : v.depth = Nesting(v) /\ v.depth <= MaxDepth
=============================================================================
