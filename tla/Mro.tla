--------------------------------- MODULE Mro ---------------------------------
(***************************************************************************)
(* codegraph/core/mro.py: compute_mro and the C3 linearization it runs for *)
(* one class after the other.  Python lists are shared: the bases of a     *)
(* class that merge consumes are those of the heritage map itself.         *)
(***************************************************************************)
EXTENDS Naturals, SequencesExt

CONSTANTS
    Classes,      \* class names, as numbers: a base has a smaller one
    MaxBases      \* bound on the bases of a class

ASSUME MroAssumption == Classes \subseteq Nat /\ MaxBases \in Nat

VARIABLES
    declared,     \* the bases each class has in the source
    keys,         \* classes in the heritage map, in its order
    heritage,     \* the lists of the map
    mro,          \* mro_map, <<>> for the classes to come
    visited,      \* set visited of the running c3_linearize
    stack,        \* the calls of linearize, the innermost one last
    warned        \* classes for which "Inconsistent MRO hierarchy" was logged

mroVars == <<declared, keys, heritage, mro, visited, stack, warned>>
callVars == <<visited, stack, warned>>

MroInit ==
    /\ declared = [c \in Classes |-> <<>>]
    /\ keys = <<>>
    /\ heritage = declared
    /\ mro = declared
    /\ visited = {}
    /\ stack = <<>>
    /\ warned = {}

Computed == {c \in Classes : mro[c] # <<>>}

(* build_heritage_map_from_symbols, one class of the symbols. *)
AddClass(c) ==
    /\ Computed = {} /\ stack = <<>> /\ c \notin Range(keys)
    /\ \E bases \in SUBSET {b \in Classes : b < c} :
          /\ Cardinality(bases) <= MaxBases
          /\ \E list \in SetToSeqs(bases) : declared' = [declared EXCEPT ![c] = list]
    /\ heritage' = declared'
    /\ keys' = Append(keys, c)
    /\ UNCHANGED <<mro, callVars>>

-----------------------------------------------------------------------------
(* A call of linearize for a class with bases: what it was given to merge, *)
(* what the merge has left of that, the order so far, and the list of the  *)
(* class as it found it; spill is set once no candidate is free.           *)
Call(c) == [class |-> c, bases |-> heritage[c], given |-> <<>>, left |-> <<>>,
            order |-> <<>>, spill |-> FALSE]

Top == stack[Len(stack)]
Replace(call) == stack' = [stack EXCEPT ![Len(stack)] = call]

\* It is still visiting the bases.
Expanding(call) == Len(call.given) < Len(call.bases)

\* A base is linearized; what linearize returns for it.
Receive(call, order) ==
    [call EXCEPT !.given = Append(@, order), !.left = Append(@, order)]

\* The innermost call returns to the one that made it, or to compute_mro.
Return(order) ==
    IF Len(stack) = 1
    THEN stack' = <<>> /\ mro' = [mro EXCEPT ![Top.class] = order]
    ELSE /\ stack' = [i \in 1..(Len(stack) - 1) |->
                         IF i = Len(stack) - 1 THEN Receive(stack[i], order) ELSE stack[i]]
         /\ UNCHANGED mro

(* An iteration of compute_mro. *)
ComputeNext ==
    /\ stack = <<>>
    /\ \E i \in DOMAIN keys :
          /\ Computed = {keys[j] : j \in 1..(i - 1)}
          /\ visited' = {keys[i]}
          /\ IF heritage[keys[i]] = <<>>
             THEN mro' = [mro EXCEPT ![keys[i]] = <<keys[i]>>] /\ UNCHANGED stack
             ELSE stack' = <<Call(keys[i])>> /\ UNCHANGED mro
    /\ UNCHANGED <<declared, keys, heritage, warned>>

(* linearize visits its next base.  A class is expanded where it is met    *)
(* first.                                                                  *)
VisitBase ==
    /\ stack # <<>> /\ Expanding(Top)
    /\ LET b == Top.bases[Len(Top.given) + 1] IN
          /\ visited' = visited \cup {b}
          /\ IF b \in visited \/ heritage[b] = <<>>
             THEN Replace(Receive(Top, <<b>>))
             ELSE stack' = Append(stack, Call(b))
    /\ UNCHANGED <<declared, keys, heritage, mro, warned>>

\* Mutant: the order in which the class names its bases is not merged.
ParentsOnly(call) == call.left

\* What is merged: the orders of the bases, and the class's own list.
Lists(call) == Append(call.left, heritage[call.class])

NonEmpty(lists) == {i \in DOMAIN lists : lists[i] # <<>>}

\* Mutant: a candidate is taken although another list wants a class before it.
Unchecked(lists) == NonEmpty(lists)

\* The lists whose candidate is in no other list's tail.
Free(lists) ==
    {i \in NonEmpty(lists) :
        \A j \in NonEmpty(lists) \ {i} : Head(lists[i]) \notin Range(Tail(lists[j]))}

\* The class is taken off every list that starts with it.
Pop(list, class) == IF list # <<>> /\ Head(list) = class THEN Tail(list) ELSE list

(* merge takes the first candidate it can. *)
MergeNext ==
    /\ stack # <<>> /\ ~Expanding(Top) /\ ~Top.spill
    /\ \E i \in Free(Lists(Top)) :
          /\ \A j \in Free(Lists(Top)) : i <= j
          /\ LET next == Head(Lists(Top)[i]) IN
                /\ Replace([Top EXCEPT !.order = Append(@, next),
                                       !.left = [j \in DOMAIN @ |-> Pop(@[j], next)]])
                /\ heritage' = [heritage EXCEPT ![Top.class] = Pop(@, next)]
    /\ UNCHANGED <<declared, keys, mro, visited, warned>>

(* No candidate: a warning is logged for the class that compute_mro asked  *)
(* for; the rest is appended, list after list, and stays in them.          *)
NoCandidate ==
    /\ stack # <<>> /\ ~Expanding(Top) /\ ~Top.spill
    /\ NonEmpty(Lists(Top)) # {} /\ Free(Lists(Top)) = {}
    /\ Replace([Top EXCEPT !.left = Lists(Top), !.spill = TRUE])
    /\ warned' = warned \cup {stack[1].class}
    /\ UNCHANGED <<declared, keys, heritage, mro, visited>>

Spill ==
    /\ stack # <<>> /\ Top.spill /\ Top.left # <<>>
    /\ Replace([Top EXCEPT !.order = @ \o Head(Top.left), !.left = Tail(@)])
    /\ UNCHANGED <<declared, keys, heritage, mro, visited, warned>>

(* merge and linearize return. *)
ReturnOrder ==
    /\ stack # <<>> /\ ~Expanding(Top)
    /\ IF Top.spill THEN Top.left = <<>> ELSE NonEmpty(Lists(Top)) = {}
    /\ Return(<<Top.class>> \o Top.order)
    /\ UNCHANGED <<declared, keys, heritage, visited, warned>>

MroNext ==
    \/ ComputeNext \/ VisitBase \/ MergeNext \/ NoCandidate \/ Spill \/ ReturnOrder
    \/ \E c \in Classes : AddClass(c)

MroSpec == MroInit /\ [][MroNext]_mroVars

-----------------------------------------------------------------------------
\* The class and what it inherits from: every set has them that has the class
\* and, with a class, its bases.
Ancestors(c) ==
    {a \in Classes : \A family \in SUBSET Classes :
        (c \in family /\ \A d \in family : Range(declared[d]) \subseteq family) => a \in family}

\* The definition of C3: merge, and every class linearized on its own.
Merge[lists \in Seq(Seq(Classes))] ==
    IF NonEmpty(lists) = {} THEN [order |-> <<>>, ok |-> TRUE]
    ELSE IF Free(lists) = {} THEN [order |-> <<>>, ok |-> FALSE]
    ELSE LET next == Head(lists[Min(Free(lists))])
             rest == Merge[[i \in DOMAIN lists |-> Pop(lists[i], next)]]
         IN  [rest EXCEPT !.order = <<next>> \o @]

C3[c \in Classes] ==
    LET parents == [i \in DOMAIN declared[c] |-> C3[declared[c][i]]]
        merged == Merge[Append([i \in DOMAIN parents |-> parents[i].order], declared[c])]
    IN  [order |-> <<c>> \o merged.order,
         ok |-> merged.ok /\ \A i \in DOMAIN parents : parents[i].ok]

\* c stands before d in the order s.
Before(s, c, d) == \E i, j \in DOMAIN s : i < j /\ s[i] = c /\ s[j] = d

\* The class compute_mro has taken first: no list was consumed before.
First == {c \in Computed : c = keys[1]}

Calls ==
    [class : Classes, bases : Seq(Classes), given : Seq(Seq(Classes)),
     left : Seq(Seq(Classes)), order : Seq(Classes), spill : BOOLEAN]

(* Type correctness. *)
MroTypeOK ==
    /\ {declared, heritage, mro} \subseteq [Classes -> Seq(Classes)]
    /\ keys \in Seq(Classes) /\ IsInjective(keys)
    /\ {visited, warned} \subseteq SUBSET Classes
    /\ stack \in Seq(Calls)

\* What is gone from a list given is in the order, as in the list, and what
\* is left of it is not.
KeptList(given, left, order) ==
    LET gone == Len(given) - Len(left) IN
    /\ gone >= 0 /\ left = SubSeq(given, gone + 1, Len(given))
    /\ Range(left) \cap Range(order) = {}
    /\ \A n \in 1..gone : /\ given[n] \in Range(order)
                          /\ \A m \in 1..(n - 1) : Before(order, given[m], given[n])

Kept(given, lists, order) ==
    IsInjective(order) /\ \A i \in DOMAIN given : KeptList(given[i], lists[i], order)

\* What a call is given to merge.
Given(call) == Append(call.given, call.bases)

(* The loop of merge: each list loses its first classes only, they are in  *)
(* the order, as in the list, and nothing that is left of any list is      *)
(* there.  An order that empties the lists has every class of theirs once, *)
(* and contradicts none of them.                                           *)
MergeKeepsOrders ==
    \A k \in DOMAIN stack :
        LET call == stack[k] IN
        (/\ ~Expanding(call) /\ ~call.spill
         /\ \A i \in DOMAIN Given(call) : IsInjective(Given(call)[i]))
            => Kept(Given(call), Lists(call), call.order)

\* A class stands before its bases, and these in the order in which it names
\* them.
Respects(order, d) ==
    \A i \in DOMAIN declared[d] :
        /\ Before(order, d, declared[d][i])
        /\ \A j \in 1..(i - 1) : Before(order, declared[d][j], declared[d][i])

Linear(order, c) ==
    /\ IsInjective(order) /\ Range(order) = Ancestors(c)
    /\ \A d \in Range(order) : Respects(order, d)

(* Although a base met before is not expanded again, the class compute_mro *)
(* takes first gets an order that has every ancestor once, each before its *)
(* bases and these as they were named, unless a warning was logged for it. *)
FirstIsLinear == \A c \in First \ warned : Linear(mro[c], c)

(* "Implements the C3 superclass linearization algorithm used by Python":  *)
(* the class taken first gets the order of C3, if there is one.            *)
FirstIsC3 == \A c \in First : C3[c].ok => mro[c] = C3[c].order

(* "Compute MRO for ALL classes in the heritage map": every class gets the *)
(* order of C3, if there is one.                                           *)
AllAreC3 == \A c \in Computed : C3[c].ok => mro[c] = C3[c].order
=============================================================================
