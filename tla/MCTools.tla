------------------------------- MODULE MCTools -------------------------------
(***************************************************************************)
(* Model-checking instance of the launcher of the shared server and of the *)
(* two operations on a code graph, linearization and refactoring.  They    *)
(* share no state: a behaviour is one of a single component, while the     *)
(* others stay in initial states in which nothing of theirs is enabled     *)
(* that has a fairness condition.                                          *)
(***************************************************************************)
EXTENDS SharedServer, Mro, Refactor, TLC

CONSTANTS c1, c2, c3, m1, m2, m3, na, nb, nc, none

ThreeClients == {c1, c2, c3}
FourClasses  == 1..4
SixClasses   == 1..6
ThreePaths   == {m1, m2, m3}
ThreeNames   == {na, nb, nc}

\* m1 defines two names; m2 and m3 call or mention them, by imports that are
\* rewritten or not; m3, whose name is longer than m1's, may define one of them too.
Calling(p, n, known)    == [from |-> p, name |-> n, call |-> TRUE, known |-> known]
Mentioning(p, n, known) == [from |-> p, name |-> n, call |-> FALSE, known |-> known]
BothForms == {"move", "renameFile"}
TwoForms  == {BothForms, {}}
FittingM1 == {m1}
LongerM3  == {<<m3, m1>>}
Library == [defs |-> {na, nb}, uses |-> {}]
User(uses) == [defs |-> {}, uses |-> uses]
SmallTrees ==
    {m1 :> Library @@ m2 :> User({Calling(m1, na, BothForms)})
                   @@ m3 :> User({Calling(m1, na, {}), Mentioning(m1, nb, {"move"})}),
     m1 :> Library @@ m2 :> User({Calling(m1, na, BothForms), Mentioning(m1, nb, BothForms)}),
     m1 :> Library @@ m2 :> User({Mentioning(m1, nb, BothForms), Mentioning(m3, na, BothForms)})
                   @@ m3 :> [defs |-> {na}, uses |-> {}]}

VARIABLE part       \* the component that runs

vars == <<part, sharedServerVars, mroVars, refactorVars>>

Init ==
    /\ SharedServerInit /\ MroInit /\ RefactorInit
    /\ part \in {"launcher", "mro", "refactor"}
    /\ (part # "refactor" => tree = CHOOSE t \in InitialTrees : TRUE)

NextOf(name, next) == part = name /\ next /\ UNCHANGED part

\* Clients are interchangeable: they are launched in this order.
LaunchedInOrder == (pc'[c2] # "off" => pc'[c1] # "off") /\ (pc'[c3] # "off" => pc'[c2] # "off")

\* Bound: a rename gives a symbol the one name that is not defined in the beginning.
RenamedToFree == job'.kind = "rename" => job'.new = nc

Next ==
    \/ NextOf("launcher", SharedServerNext /\ LaunchedInOrder) /\ UNCHANGED <<mroVars, refactorVars>>
    \/ NextOf("mro", MroNext)           /\ UNCHANGED <<sharedServerVars, refactorVars>>
    \/ NextOf("refactor", RefactorNext /\ RenamedToFree) /\ UNCHANGED <<sharedServerVars, mroVars>>

Spec == Init /\ [][Next]_vars /\ SharedServerFairness

\* The first linearization alone: the class that is taken first is declared
\* first, then those it inherits from, each before its own bases.
FirstFamily ==
    \A i \in 2..Len(keys) : /\ keys[i] < keys[i - 1]
                            /\ \E j \in 1..(i - 1) : keys[i] \in Range(declared[keys[j]])
FirstSpec == (Init /\ part = "mro") /\ [][Computed = {} /\ Next /\ FirstFamily']_vars

(* Type correctness of every component. *)
TypeOK == SharedServerTypeOK /\ MroTypeOK /\ RefactorTypeOK
=============================================================================
