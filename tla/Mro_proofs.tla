------------------------------ MODULE Mro_proofs ------------------------------
(***************************************************************************)
(* Theorems about Mro, for any classes and any number of bases.            *)
(*                                                                         *)
(* What a merge takes next is in no other list's tail, hence, of lists     *)
(* that have each class once, nowhere but at the start of some: TakeKeeps. *)
(* The list it shares with the heritage map is consumed by no other call,  *)
(* as no class is expanded twice at a time: CallsInv.  Until the first     *)
(* class has its order, a class that was met and has bases is being        *)
(* linearized or stands before them in some list already given: RunInv.    *)
(***************************************************************************)
EXTENDS Mro, FiniteSetTheorems, SequenceTheorems, TLAPS

-----------------------------------------------------------------------------
(* The lists of a merge.                                                   *)

\* What Pop takes off a list.
LEMMA PopTakes ==
  ASSUME NEW S, NEW s \in Seq(S), NEW x
  PROVE  /\ Pop(s, x) \in Seq(S)
         /\ \/ /\ s # <<>> /\ s[1] = x
               /\ Len(Pop(s, x)) = Len(s) - 1
               /\ \A j \in 1..(Len(s) - 1) : Pop(s, x)[j] = s[j + 1]
            \/ Pop(s, x) = s /\ (s # <<>> => s[1] # x)
  <1>1. CASE s # <<>> /\ Head(s) = x
    BY <1>1, HeadTailProperties DEF Pop
  <1>2. CASE ~(s # <<>> /\ Head(s) = x)
    BY <1>2 DEF Pop
  <1>. QED  BY <1>1, <1>2

\* A list is the end of the one given, element by element.
LEMMA EndOfList ==
  ASSUME NEW S, NEW s \in Seq(S), NEW t \in Seq(S), Len(s) <= Len(t)
  PROVE  s = SubSeq(t, Len(t) - Len(s) + 1, Len(t))
           <=> \A j \in 1..Len(s) : s[j] = t[Len(t) - Len(s) + j]
  <1>. DEFINE e == SubSeq(t, Len(t) - Len(s) + 1, Len(t))
  <1>1. /\ e \in Seq(S) /\ Len(e) = Len(s)
        /\ \A j \in 1..Len(s) : e[j] = t[Len(t) - Len(s) + j]
    BY SubSeqProperties, LenProperties
  <1>. HIDE DEF e
  <1>2. ASSUME \A j \in 1..Len(s) : s[j] = t[Len(t) - Len(s) + j]
        PROVE  s = e
    BY <1>1, <1>2, SeqEqual
  <1>. QED  BY <1>1, <1>2 DEF e

\* One list of those a merge works on, when it takes a class x.
LEMMA TakeFromList ==
  ASSUME NEW S, NEW g \in Seq(S), NEW l \in Seq(S), NEW order \in Seq(S), NEW x \in S,
         KeptList(g, l, order), \A a \in 2..Len(l) : l[a] # x
  PROVE  KeptList(g, Pop(l, x), Append(order, x))
  <1>. DEFINE longer == Append(order, x)  p == Pop(l, x)
              og == Len(g)  ol == Len(l)  op == Len(p)  oo == Len(order)
  <1>1. /\ DOMAIN longer = 1..(oo + 1) /\ DOMAIN order = 1..oo /\ oo \in Nat
        /\ \A a \in 1..oo : longer[a] = order[a]
        /\ longer[oo + 1] = x
    BY AppendProperties, LenProperties
  <1>2. \/ /\ l # <<>> /\ l[1] = x /\ op = ol - 1
           /\ \A j \in 1..(ol - 1) : p[j] = l[j + 1]
        \/ p = l /\ op = ol /\ (l # <<>> => l[1] # x)
    BY PopTakes
  <1>3. /\ og \in Nat /\ ol \in Nat /\ op \in Nat
        /\ DOMAIN l = 1..ol /\ DOMAIN p = 1..op
        /\ l = <<>> <=> ol = 0
    <2>1. p \in Seq(S)
      BY PopTakes
    <2>. QED  BY <2>1, LenProperties, EmptySeq
  <1>4. /\ ol <= og
        /\ \A j \in 1..ol : l[j] = g[og - ol + j]
        /\ Range(l) \cap Range(order) = {}
        /\ \A n \in 1..(og - ol) : /\ g[n] \in Range(order)
                                   /\ \A m \in 1..(n - 1) : Before(order, g[m], g[n])
    <2>1. Len(l) <= Len(g) /\ l = SubSeq(g, Len(g) - Len(l) + 1, Len(g))
      BY <1>3 DEF KeptList
    <2>2. \A j \in 1..Len(l) : l[j] = g[Len(g) - Len(l) + j]
      BY <2>1, EndOfList
    <2>. QED  BY <2>1, <2>2 DEF KeptList
  <1>. HIDE DEF longer, p, og, ol, op, oo
  <1>5. Range(longer) = Range(order) \cup {x}
    <2>1. 1..(oo + 1) = 1..oo \cup {oo + 1}
      BY <1>1
    <2>2. \A y : y \in Range(longer) <=> \E a \in 1..(oo + 1) : y = longer[a]
      BY <1>1 DEF Range
    <2>3. \A y : y \in Range(order) <=> \E a \in 1..oo : y = order[a]
      BY <1>1 DEF Range
    <2>. QED  BY <1>1, <2>1, <2>2, <2>3
  <1>6. /\ op <= ol
        /\ \A j \in 1..op : p[j] = l[ol - op + j] /\ p[j] # x
        /\ op # ol => op = ol - 1 /\ l[1] = x
    <2>0. \A a \in 2..ol : l[a] # x
      BY DEF ol
    <2>1. CASE l # <<>> /\ l[1] = x /\ op = ol - 1
               /\ \A j \in 1..(ol - 1) : p[j] = l[j + 1]
      BY <1>3, <2>0, <2>1
    <2>2. CASE p = l /\ op = ol /\ (l # <<>> => l[1] # x)
      BY <1>3, <2>0, <2>2
    <2>. QED  BY <1>2, <2>1, <2>2
  <1>7. \A j \in 1..op : p[j] = g[og - op + j]
    <2>1. ASSUME NEW j \in 1..op PROVE p[j] = g[og - op + j]
      <3>1. ol - op + j \in 1..ol /\ og - ol + (ol - op + j) = og - op + j
        BY <1>3, <1>6
      <3>. QED  BY <3>1, <1>4, <1>6
    <2>. QED  BY <2>1
  <1>8. p = SubSeq(g, og - op + 1, og)
    <2>1. p \in Seq(S)
      BY PopTakes DEF p
    <2>2. op <= og
      BY <1>3, <1>4, <1>6
    <2>. QED  BY <2>1, <2>2, <1>7, EndOfList DEF og, op
  <1>9. Range(p) \cap Range(longer) = {}
    <2>1. ASSUME NEW j \in 1..op PROVE p[j] \notin Range(order) /\ p[j] # x
      <3>1. ol - op + j \in DOMAIN l
        BY <1>3, <1>6
      <3>2. p[j] = l[ol - op + j] /\ p[j] # x
        BY <1>6
      <3>. QED  BY <3>1, <3>2, <1>4 DEF Range
    <2>. QED  BY <2>1, <1>3, <1>5 DEF Range
  <1>10. \A c, d : Before(order, c, d) => Before(longer, c, d)
    BY <1>1 DEF Before
  <1>11. \A c \in Range(order) : Before(longer, c, x)
    <2>1. ASSUME NEW a \in 1..oo PROVE Before(longer, order[a], x)
      <3>1. a \in DOMAIN longer /\ oo + 1 \in DOMAIN longer /\ a < oo + 1
        BY <1>1
      <3>. QED  BY <3>1, <1>1 DEF Before
    <2>. QED  BY <2>1, <1>1 DEF Range
  <1>12. op = ol \/ (op = ol - 1 /\ g[og - op] = x)
    <2>1. CASE op # ol
      <3>1. op = ol - 1 /\ l[1] = x /\ 1 \in 1..ol
        BY <1>3, <1>6, <2>1
      <3>2. l[1] = g[og - ol + 1] /\ og - ol + 1 = og - op
        BY <3>1, <1>3, <1>4
      <3>. QED  BY <3>1, <3>2
    <2>. QED  BY <2>1
  <1>13. ASSUME NEW n \in 1..(og - op)
         PROVE  /\ g[n] \in Range(longer)
                /\ \A m \in 1..(n - 1) : Before(longer, g[m], g[n])
    <2>1. CASE n \in 1..(og - ol)
      BY <2>1, <1>4, <1>5, <1>10
    <2>2. CASE n \notin 1..(og - ol)
      <3>0. op # ol => op = ol - 1
        BY <1>6
      <3>a. ol <= og
        BY <1>4
      <3>b. n = og - op /\ op = ol - 1
        BY <2>2, <1>3, <3>a, <3>0
      <3>1. n = og - op /\ op = ol - 1 /\ g[n] = x
        BY <3>b, <1>3, <1>12
      <3>2. \A m \in 1..(n - 1) : m \in 1..(og - ol)
        BY <3>1, <1>3, <1>4
      <3>3. \A m \in 1..(n - 1) : g[m] \in Range(order)
        BY <3>2, <1>4
      <3>. QED  BY <3>1, <3>3, <1>5, <1>11
    <2>. QED  BY <2>1, <2>2
  <1>14. og - op >= 0
    BY <1>3, <1>4, <1>6
  <1>. QED  BY <1>8, <1>9, <1>13, <1>14 DEF KeptList, og, op, longer, p

\* A class that a merge may take, from lists that have each class once.
LEMMA TakeKeeps ==
  ASSUME NEW S, NEW G \in Seq(Seq(S)), NEW L \in Seq(Seq(S)), NEW M \in Seq(Seq(S)),
         NEW order \in Seq(S), NEW x \in S,
         Len(L) = Len(G), Kept(G, L, order),
         \A i \in DOMAIN G : IsInjective(G[i]),
         \A i \in DOMAIN G : M[i] = Pop(L[i], x),
         NEW i0 \in Free(L), x = Head(L[i0])
  PROVE  Kept(G, M, Append(order, x))
  <1>1. /\ Len(order) \in Nat /\ Append(order, x) \in Seq(S)
        /\ DOMAIN Append(order, x) = 1..(Len(order) + 1) /\ DOMAIN order = 1..Len(order)
        /\ \A a \in 1..Len(order) : Append(order, x)[a] = order[a]
        /\ Append(order, x)[Len(order) + 1] = x
    BY AppendProperties, LenProperties
  <1>2. DOMAIN L = DOMAIN G
        /\ \A i \in DOMAIN G : G[i] \in Seq(S) /\ L[i] \in Seq(S)
    BY LenProperties
  <1>3. i0 \in DOMAIN G /\ L[i0] # <<>> /\ i0 \in NonEmpty(L)
    BY <1>2 DEF Free, NonEmpty
  <1>4. ASSUME NEW l \in Seq(S), NEW a \in 2..Len(l)
        PROVE  l # <<>> /\ l[a] \in Range(Tail(l)) /\ l[1] = Head(l) /\ 1 \in DOMAIN l /\ a \in DOMAIN l
    <2>. DEFINE t == Tail(l)  n == Len(l)
    <2>1. l # <<>> /\ n \in Nat /\ DOMAIN l = 1..n /\ l[1] = Head(l)
      BY EmptySeq, LenProperties
    <2>2. DOMAIN t = 1..(n - 1) /\ \A j \in 1..(n - 1) : t[j] = l[j + 1]
      BY <2>1, HeadTailProperties, LenProperties
    <2>3. a \in 2..n
      OBVIOUS
    <2>. HIDE DEF t, n
    <2>4. a - 1 \in DOMAIN t /\ t[a - 1] = l[a] /\ 1 \in 1..n /\ a \in 1..n
      BY <2>1, <2>2, <2>3
    <2>5. l[a] \in Range(t)
      BY <2>4 DEF Range
    <2>. QED  BY <2>1, <2>4, <2>5 DEF t
  <1>5. x \notin Range(order)
    <2>1. 1 \in DOMAIN L[i0] /\ L[i0][1] = x
      BY <1>2, <1>3, LenProperties, EmptySeq
    <2>2. Range(L[i0]) \cap Range(order) = {}
      BY <1>3 DEF Kept, KeptList
    <2>. QED  BY <2>1, <2>2 DEF Range
  <1>6. IsInjective(Append(order, x))
    <2>1. IsInjective(order) /\ \A a \in 1..Len(order) : order[a] # x
      BY <1>1, <1>5 DEF Kept, Range
    <2>. HIDE DEF Kept
    <2>. DEFINE longer == Append(order, x)  n == Len(order)
    <2>2. /\ DOMAIN longer = 1..(n + 1) /\ longer[n + 1] = x /\ n \in Nat
          /\ DOMAIN order = 1..n /\ \A a \in 1..n : longer[a] = order[a] /\ order[a] # x
      BY <1>1, <2>1
    <2>. HIDE DEF longer, n
    <2>3. ASSUME NEW a \in 1..(n + 1), NEW b \in 1..(n + 1), longer[a] = longer[b]
          PROVE  a = b
      <3>1. (a \in 1..n \/ a = n + 1) /\ (b \in 1..n \/ b = n + 1)
        BY <2>2
      <3>. QED  BY <2>1, <2>2, <2>3, <3>1 DEF IsInjective
    <2>. QED  BY <2>2, <2>3 DEF longer, IsInjective
  <1>7. ASSUME NEW i \in DOMAIN G PROVE KeptList(G[i], Pop(L[i], x), Append(order, x))
    <2>. DEFINE l == L[i]  g == G[i]
    <2>1. l \in Seq(S) /\ g \in Seq(S) /\ KeptList(g, l, order)
      BY <1>2 DEF Kept
    <2>2. ASSUME NEW a \in 2..Len(l) PROVE l[a] # x
      <3>1. CASE i = i0
        <4>. DEFINE ng == Len(g)  nl == Len(l)
        <4>1. nl \in Nat /\ ng \in Nat /\ nl <= ng /\ DOMAIN g = 1..ng
          <5>1. Len(l) \in Nat /\ Len(g) \in Nat /\ DOMAIN g = 1..Len(g)
            BY <2>1, LenProperties
          <5>2. Len(g) - Len(l) >= 0
            BY <2>1 DEF KeptList
          <5>. QED  BY <5>1, <5>2
        <4>2. \A j \in 1..nl : l[j] = g[ng - nl + j]
          <5>1. l = SubSeq(g, Len(g) - Len(l) + 1, Len(g))
            BY <2>1 DEF KeptList
          <5>. HIDE DEF l, g
          <5>. QED  BY <2>1, <4>1, <5>1, EndOfList
        <4>3. IsInjective(g)
          OBVIOUS
        <4>4. l[1] = x
          BY <1>3, <1>4, <3>1, <2>1, <2>2
        <4>5. a \in 2..nl
          OBVIOUS
        <4>. HIDE DEF l, g, ng, nl
        <4>. DEFINE m == ng - nl + a
                    n == ng - nl + 1
        <4>6. l[a] = g[m] /\ l[1] = g[n]
          BY <4>1, <4>2, <4>5
        <4>7. m # n /\ m \in DOMAIN g /\ n \in DOMAIN g
          BY <4>1, <4>5
        <4>. HIDE DEF m, n
        <4>. QED  BY <4>3, <4>4, <4>6, <4>7 DEF IsInjective
      <3>2. CASE i # i0
        <4>1. l # <<>> /\ l[a] \in Range(Tail(l))
          BY <1>4, <2>1, <2>2
        <4>2. x \notin Range(Tail(l))
          BY <1>2, <3>2, <4>1 DEF Free, NonEmpty
        <4>. QED  BY <4>1, <4>2
      <3>. QED  BY <3>1, <3>2
    <2>. HIDE DEF l, g
    <2>3. KeptList(g, Pop(l, x), Append(order, x))
      BY <2>1, <2>2, TakeFromList
    <2>. QED  BY <2>3 DEF l, g
  <1>. QED  BY <1>6, <1>7 DEF Kept

-----------------------------------------------------------------------------
(* Type correctness.                                                       *)

\* Sequences given element by element.
LEMMA SeqOfElements ==
  ASSUME NEW S, NEW n \in Nat, NEW f \in [1..n -> S]
  PROVE  f \in Seq(S) /\ Len(f) = n
  <1>1. f \in Seq(S)
    BY SeqDef
  <1>2. DOMAIN f = 1..n /\ DOMAIN f = 1..Len(f) /\ Len(f) \in Nat
    BY <1>1, LenProperties
  <1>. QED  BY <1>1, <1>2

LEMMA PopAll ==
  ASSUME NEW S, NEW L \in Seq(Seq(S)), NEW x
  PROVE  /\ [j \in DOMAIN L |-> Pop(L[j], x)] \in Seq(Seq(S))
         /\ Len([j \in DOMAIN L |-> Pop(L[j], x)]) = Len(L)
  <1>1. DOMAIN L = 1..Len(L) /\ Len(L) \in Nat /\ \A j \in DOMAIN L : L[j] \in Seq(S)
    BY LenProperties, ElementOfSeq
  <1>2. \A j \in DOMAIN L : Pop(L[j], x) \in Seq(S)
    BY <1>1, PopTakes
  <1>3. [j \in DOMAIN L |-> Pop(L[j], x)] \in [1..Len(L) -> Seq(S)]
    BY <1>1, <1>2
  <1>. QED  BY <1>1, <1>3, SeqOfElements

\* The innermost call, and another in its place.
LEMMA TopTyped ==
  ASSUME MroTypeOK, stack # <<>>
  PROVE  /\ Len(stack) \in Nat \ {0} /\ DOMAIN stack = 1..Len(stack)
         /\ Len(stack) \in DOMAIN stack
         /\ Top \in Calls
         /\ \A call \in Calls : Replace(call) => stack' \in Seq(Calls)
  <1>1. stack \in Seq(Calls) /\ Len(stack) \in Nat \ {0} /\ DOMAIN stack = 1..Len(stack)
    BY EmptySeq, LenProperties DEF MroTypeOK
  <1>2. Top \in Calls
    BY <1>1, ElementOfSeq DEF Top
  <1>3. ASSUME NEW call \in Calls, Replace(call) PROVE stack' \in Seq(Calls)
    BY <1>1, <1>3, ExceptSeq DEF Replace
  <1>. QED  BY <1>1, <1>2, <1>3

LEMMA CallTyped ==
  ASSUME MroTypeOK
  PROVE  /\ \A c \in Classes : Call(c) \in Calls
         /\ \A call \in Calls, order \in Seq(Classes) : Receive(call, order) \in Calls
         /\ \A call \in Calls : /\ heritage[call.class] \in Seq(Classes)
                                /\ Lists(call) \in Seq(Seq(Classes))
                                /\ Given(call) \in Seq(Seq(Classes))
  <1>1. \A c \in Classes : heritage[c] \in Seq(Classes)
    BY DEF MroTypeOK
  <1>2. ASSUME NEW c \in Classes PROVE Call(c) \in Calls
    <2>1. <<>> \in Seq(Classes) /\ <<>> \in Seq(Seq(Classes))
      BY EmptySeq
    <2>. QED  BY <1>1, <2>1 DEF Call, Calls
  <1>3. ASSUME NEW call \in Calls, NEW order \in Seq(Classes)
        PROVE  Receive(call, order) \in Calls
    <2>1. Append(call.given, order) \in Seq(Seq(Classes)) /\ Append(call.left, order) \in Seq(Seq(Classes))
      BY AppendProperties DEF Calls
    <2>. QED  BY <2>1 DEF Receive, Calls
  <1>4. ASSUME NEW call \in Calls
        PROVE  /\ heritage[call.class] \in Seq(Classes)
               /\ Lists(call) \in Seq(Seq(Classes))
               /\ Given(call) \in Seq(Seq(Classes))
    <2>1. call.class \in Classes /\ call.left \in Seq(Seq(Classes))
          /\ call.given \in Seq(Seq(Classes)) /\ call.bases \in Seq(Classes)
      BY DEF Calls
    <2>. QED  BY <1>1, <2>1, AppendProperties DEF Lists, Given
  <1>. QED  BY <1>2, <1>3, <1>4

LEMMA MroTypeStep ==
  ASSUME MroTypeOK, [MroNext]_mroVars
  PROVE  MroTypeOK'
  <1>0. /\ declared \in [Classes -> Seq(Classes)] /\ heritage \in [Classes -> Seq(Classes)]
        /\ mro \in [Classes -> Seq(Classes)]
        /\ keys \in Seq(Classes) /\ visited \subseteq Classes /\ stack \in Seq(Calls)
        /\ Len(keys) \in Nat /\ DOMAIN keys = 1..Len(keys)
    BY LenProperties DEF MroTypeOK
  <1>1. ASSUME NEW c \in Classes, AddClass(c) PROVE MroTypeOK'
    <2>1. PICK bases \in SUBSET {b \in Classes : b < c} :
              \E list \in SetToSeqs(bases) : declared' = [declared EXCEPT ![c] = list]
      BY <1>1 DEF AddClass
    <2>2. PICK list \in SetToSeqs(bases) : declared' = [declared EXCEPT ![c] = list]
      BY <2>1
    <2>3. IsFiniteSet(bases) /\ Cardinality(bases) \in Nat
      <3>1. c \in Nat /\ bases \subseteq 0..c
        BY MroAssumption
      <3>2. IsFiniteSet(0..c)
        BY <3>1, FS_Interval
      <3>3. IsFiniteSet(bases)
        BY <3>1, <3>2, FS_Subset
      <3>. QED  BY <3>3, FS_CardinalityType
    <2>4. list \in [1..Cardinality(bases) -> Classes]
      BY <2>2 DEF SetToSeqs
    <2>5. list \in Seq(Classes)
      BY <2>3, <2>4, SeqOfElements
    <2>6. declared' \in [Classes -> Seq(Classes)] /\ heritage' = declared'
      BY <1>0, <1>1, <2>2, <2>5 DEF AddClass
    <2>7. keys' \in Seq(Classes) /\ IsInjective(keys')
      <3>. DEFINE n == Len(keys)  k == Append(keys, c)
      <3>1. keys' = k /\ k \in Seq(Classes) /\ DOMAIN k = 1..(n + 1) /\ k[n + 1] = c
            /\ \A i \in 1..n : k[i] = keys[i]
        BY <1>0, <1>1, AppendProperties, LenProperties DEF AddClass
      <3>2. n \in Nat /\ IsInjective(keys) /\ DOMAIN keys = 1..n /\ \A i \in 1..n : keys[i] # c
        BY <1>0, <1>1 DEF AddClass, MroTypeOK, Range
      <3>. HIDE DEF n, k
      <3>3. ASSUME NEW a \in 1..(n + 1), NEW b \in 1..(n + 1), k[a] = k[b] PROVE a = b
        <4>1. (a \in 1..n \/ a = n + 1) /\ (b \in 1..n \/ b = n + 1)
          BY <3>2
        <4>. QED  BY <3>1, <3>2, <3>3, <4>1 DEF IsInjective
      <3>. QED  BY <3>1, <3>3 DEF IsInjective
    <2>. QED  BY <1>0, <1>1, <2>6, <2>7 DEF AddClass, callVars, MroTypeOK
  <1>2. CASE ComputeNext
    <2>1. PICK i \in DOMAIN keys :
              /\ visited' = {keys[i]}
              /\ IF heritage[keys[i]] = <<>>
                 THEN mro' = [mro EXCEPT ![keys[i]] = <<keys[i]>>] /\ UNCHANGED stack
                 ELSE stack' = <<Call(keys[i])>> /\ UNCHANGED mro
      BY <1>2 DEF ComputeNext
    <2>2. keys[i] \in Classes
      BY <1>0, ElementOfSeq
    <2>3. <<keys[i]>> \in Seq(Classes) /\ <<Call(keys[i])>> \in Seq(Calls)
      BY <2>2, CallTyped
    <2>4. mro' \in [Classes -> Seq(Classes)] /\ stack' \in Seq(Calls)
      <3>1. CASE heritage[keys[i]] = <<>>
        BY <1>0, <2>1, <2>2, <2>3, <3>1
      <3>2. CASE heritage[keys[i]] # <<>>
        BY <1>0, <2>1, <2>3, <3>2
      <3>. QED  BY <3>1, <3>2
    <2>5. visited' \subseteq Classes /\ UNCHANGED <<declared, keys, heritage, warned>>
      BY <1>2, <2>1, <2>2 DEF ComputeNext
    <2>. QED  BY <1>0, <2>4, <2>5 DEF MroTypeOK
  <1>3. CASE VisitBase
    <2>. DEFINE b == Top.bases[Len(Top.given) + 1]
    <2>1. stack # <<>> /\ Top \in Calls
      BY <1>3, TopTyped DEF VisitBase
    <2>2. b \in Classes
      <3>1. Top.bases \in Seq(Classes) /\ Len(Top.bases) \in Nat /\ Len(Top.given) \in Nat
        BY <2>1, LenProperties DEF Calls
      <3>2. Len(Top.given) + 1 \in 1..Len(Top.bases)
        BY <1>3, <3>1 DEF VisitBase, Expanding
      <3>. QED  BY <3>1, <3>2, ElementOfSeq
    <2>3. <<b>> \in Seq(Classes)
      BY <2>2
    <2>4. Receive(Top, <<b>>) \in Calls /\ Call(b) \in Calls
      BY <2>1, <2>2, <2>3, CallTyped
    <2>5. visited' = visited \cup {b}
          /\ (Replace(Receive(Top, <<b>>)) \/ stack' = Append(stack, Call(b)))
      BY <1>3 DEF VisitBase
    <2>. HIDE DEF b
    <2>6. stack' \in Seq(Calls)
      <3>1. CASE Replace(Receive(Top, <<b>>))
        BY <2>1, <2>4, <3>1, TopTyped
      <3>2. CASE stack' = Append(stack, Call(b))
        BY <1>0, <2>4, <3>2, AppendProperties
      <3>. QED  BY <2>5, <3>1, <3>2
    <2>. QED  BY <1>0, <1>3, <2>2, <2>5, <2>6 DEF VisitBase, MroTypeOK
  <1>4. CASE MergeNext
    <2>1. stack # <<>> /\ Top \in Calls
      BY <1>4, TopTyped DEF MergeNext
    <2>2. PICK i \in Free(Lists(Top)) :
              LET next == Head(Lists(Top)[i]) IN
              /\ Replace([Top EXCEPT !.order = Append(@, next),
                                     !.left = [j \in DOMAIN @ |-> Pop(@[j], next)]])
              /\ heritage' = [heritage EXCEPT ![Top.class] = Pop(@, next)]
      BY <1>4 DEF MergeNext
    <2>. DEFINE next == Head(Lists(Top)[i])
                left == [j \in DOMAIN Top.left |-> Pop(Top.left[j], next)]
                call == [Top EXCEPT !.order = Append(@, next), !.left = left]
    <2>3. next \in Classes
      <3>1. Lists(Top) \in Seq(Seq(Classes)) /\ i \in DOMAIN Lists(Top) /\ Lists(Top)[i] # <<>>
        BY <2>1, CallTyped DEF Free, NonEmpty
      <3>2. Lists(Top)[i] \in Seq(Classes)
        BY <3>1, LenProperties, ElementOfSeq
      <3>. QED  BY <3>1, <3>2, HeadTailProperties
    <2>4. Replace(call) /\ heritage' = [heritage EXCEPT ![Top.class] = Pop(@, next)]
      BY <2>2
    <2>. HIDE DEF next
    <2>5. left \in Seq(Seq(Classes)) /\ Append(Top.order, next) \in Seq(Classes)
      BY <2>1, <2>3, PopAll, AppendProperties DEF Calls
    <2>. HIDE DEF left
    <2>6. call \in Calls
      BY <2>1, <2>5 DEF Calls
    <2>7. stack' \in Seq(Calls)
      BY <2>1, <2>4, <2>6, TopTyped
    <2>8. heritage' \in [Classes -> Seq(Classes)]
      BY <1>0, <2>1, <2>4, PopTakes DEF Calls
    <2>. QED  BY <1>0, <1>4, <2>7, <2>8 DEF MergeNext, MroTypeOK
  <1>5. CASE NoCandidate
    <2>1. stack # <<>> /\ Top \in Calls /\ Lists(Top) \in Seq(Seq(Classes))
      BY <1>5, TopTyped, CallTyped DEF NoCandidate
    <2>2. [Top EXCEPT !.left = Lists(Top), !.spill = TRUE] \in Calls
      BY <2>1 DEF Calls
    <2>3. stack' \in Seq(Calls)
      BY <1>5, <2>1, <2>2, TopTyped DEF NoCandidate
    <2>4. stack[1].class \in Classes
      <3>1. stack[1] \in Calls
        BY <1>0, <2>1, TopTyped, ElementOfSeq
      <3>. QED  BY <3>1 DEF Calls
    <2>. QED  BY <1>0, <1>5, <2>3, <2>4 DEF NoCandidate, MroTypeOK
  <1>6. CASE Spill
    <2>1. stack # <<>> /\ Top \in Calls /\ Top.left # <<>>
      BY <1>6, TopTyped DEF Spill
    <2>2. Head(Top.left) \in Seq(Classes) /\ Tail(Top.left) \in Seq(Seq(Classes))
          /\ Top.order \in Seq(Classes)
      BY <2>1, HeadTailProperties DEF Calls
    <2>3. Top.order \o Head(Top.left) \in Seq(Classes)
      BY <2>2, ConcatProperties
    <2>4. [Top EXCEPT !.order = @ \o Head(Top.left), !.left = Tail(@)] \in Calls
      BY <2>1, <2>2, <2>3 DEF Calls
    <2>5. stack' \in Seq(Calls)
      BY <1>6, <2>1, <2>4, TopTyped DEF Spill
    <2>. QED  BY <1>0, <1>6, <2>5 DEF Spill, MroTypeOK
  <1>7. CASE ReturnOrder
    <2>. DEFINE order == <<Top.class>> \o Top.order  n == Len(stack)
    <2>1. stack # <<>> /\ Top \in Calls /\ n \in Nat \ {0} /\ DOMAIN stack = 1..n
      BY <1>7, TopTyped DEF ReturnOrder
    <2>2. order \in Seq(Classes)
      <3>1. <<Top.class>> \in Seq(Classes) /\ Top.order \in Seq(Classes)
        BY <2>1 DEF Calls
      <3>. QED  BY <3>1, ConcatProperties
    <2>3. Return(order)
      BY <1>7 DEF ReturnOrder
    <2>. HIDE DEF order
    <2>4. CASE n = 1
      <3>1. stack' = <<>> /\ mro' = [mro EXCEPT ![Top.class] = order]
        BY <2>3, <2>4 DEF Return
      <3>2. stack' \in Seq(Calls) /\ mro' \in [Classes -> Seq(Classes)]
        BY <1>0, <2>1, <2>2, <3>1, EmptySeq DEF Calls
      <3>. QED  BY <1>0, <1>7, <3>2 DEF ReturnOrder, MroTypeOK
    <2>5. CASE n # 1
      <3>1. /\ stack' = [i \in 1..(n - 1) |-> IF i = n - 1 THEN Receive(stack[i], order) ELSE stack[i]]
            /\ mro' = mro
        BY <2>3, <2>5 DEF Return
      <3>2. \A i \in 1..(n - 1) : stack[i] \in Calls
        BY <1>0, <2>1, ElementOfSeq
      <3>3. \A i \in 1..(n - 1) : Receive(stack[i], order) \in Calls
        BY <3>2, <2>2, CallTyped
      <3>. HIDE DEF n
      <3>4. stack' \in [1..(n - 1) -> Calls] /\ n - 1 \in Nat
        BY <2>1, <2>5, <3>1, <3>2, <3>3
      <3>5. stack' \in Seq(Calls)
        BY <3>4, SeqOfElements
      <3>. QED  BY <1>0, <1>7, <3>1, <3>5 DEF ReturnOrder, MroTypeOK
    <2>. QED  BY <2>4, <2>5
  <1>8. CASE UNCHANGED mroVars
    BY <1>8 DEF mroVars, MroTypeOK
  <1>. QED
    BY <1>1, <1>2, <1>3, <1>4, <1>5, <1>6, <1>7, <1>8 DEF MroNext

(* The map, the orders and the calls of linearize keep their types.        *)
THEOREM MroTypeCorrect == MroSpec => []MroTypeOK
  <1>1. MroInit => MroTypeOK
    BY EmptySeq DEF MroInit, MroTypeOK, IsInjective
  <1>. QED
    BY <1>1, MroTypeStep, PTL DEF MroSpec

-----------------------------------------------------------------------------
(* The calls of linearize.                                                 *)

\* A call that still visits its bases has merged nothing: the list of its class
\* in the map is the one it found.
Fresh(call, map) ==
    /\ map[call.class] = call.bases /\ call.left = call.given
    /\ call.order = <<>> /\ ~call.spill

\* A call, given the map and the classes visited.
CallInv(call, map, seen) ==
    /\ call.class \in seen
    /\ Len(call.given) <= Len(call.bases)
    /\ ~call.spill => Len(call.left) = Len(call.given)
    /\ Expanding(call) => Fresh(call, map)
    /\ (/\ ~Expanding(call) /\ ~call.spill
        /\ \A i \in DOMAIN Given(call) : IsInjective(Given(call)[i]))
            => Kept(Given(call), Append(call.left, map[call.class]), call.order)

\* Only the innermost call may merge, and no class is expanded twice at a time:
\* a merge consumes the list of no other call.
CallsInv(calls, map, seen) ==
    \A k \in DOMAIN calls :
        /\ CallInv(calls[k], map, seen)
        /\ k < Len(calls) => Expanding(calls[k])
        /\ \A l \in DOMAIN calls : calls[k].class = calls[l].class => k = l

LEMMA FreshIsKept ==
  ASSUME NEW call \in Calls, NEW map, Fresh(call, map)
  PROVE  Kept(Given(call), Append(call.left, map[call.class]), call.order)
  <1>1. Given(call) \in Seq(Seq(Classes))
    BY AppendProperties DEF Calls, Given
  <1>2. Append(call.left, map[call.class]) = Given(call) /\ call.order = <<>>
    BY DEF Fresh, Given
  <1>3. IsInjective(<<>>) /\ Range(<<>>) = {}
    BY DEF IsInjective, Range
  <1>4. ASSUME NEW g \in Seq(Classes) PROVE KeptList(g, g, <<>>)
    <2>1. Len(g) \in Nat /\ Len(g) - Len(g) = 0
      BY LenProperties
    <2>2. SubSeq(g, 0 + 1, Len(g)) = g
      BY SubSeqFull
    <2>. QED  BY <1>3, <2>1, <2>2 DEF KeptList
  <1>5. \A i \in DOMAIN Given(call) : Given(call)[i] \in Seq(Classes)
    BY <1>1, LenProperties, ElementOfSeq
  <1>. QED  BY <1>2, <1>3, <1>4, <1>5 DEF Kept

LEMMA CallBegins ==
  ASSUME MroTypeOK, NEW c \in Classes, heritage[c] # <<>>, NEW seen, c \in seen
  PROVE  CallInv(Call(c), heritage, seen) /\ Expanding(Call(c))
  <1>1. Len(heritage[c]) \in Nat \ {0} /\ Len(<<>>) = 0
    BY EmptySeq DEF MroTypeOK
  <1>2. Expanding(Call(c))
    BY <1>1 DEF Expanding, Call
  <1>. QED  BY <1>1, <1>2 DEF CallInv, Fresh, Call

LEMMA CallReceives ==
  ASSUME NEW call \in Calls, NEW order \in Seq(Classes), NEW map, NEW seen,
         CallInv(call, map, seen), Expanding(call)
  PROVE  CallInv(Receive(call, order), map, seen)
  <1>. DEFINE next == Receive(call, order)
  <1>1. /\ next \in Calls /\ next.class = call.class /\ next.bases = call.bases
        /\ Len(next.given) = Len(call.given) + 1 /\ Len(next.left) = Len(call.left) + 1
        /\ Len(call.given) \in Nat /\ Len(call.left) \in Nat /\ Len(call.bases) \in Nat
    <2>1. /\ call.given \in Seq(Seq(Classes)) /\ call.left \in Seq(Seq(Classes))
          /\ call.bases \in Seq(Classes)
      BY DEF Calls
    <2>2. /\ Append(call.given, order) \in Seq(Seq(Classes))
          /\ Append(call.left, order) \in Seq(Seq(Classes))
          /\ Len(Append(call.given, order)) = Len(call.given) + 1
          /\ Len(Append(call.left, order)) = Len(call.left) + 1
      BY <2>1, AppendProperties
    <2>3. /\ next.given = Append(call.given, order) /\ next.left = Append(call.left, order)
          /\ next.class = call.class /\ next.bases = call.bases
      BY DEF Receive, Calls
    <2>4. next \in Calls
      BY <2>2 DEF Receive, Calls
    <2>5. Len(call.given) \in Nat /\ Len(call.left) \in Nat /\ Len(call.bases) \in Nat
      BY <2>1, LenProperties
    <2>. HIDE DEF next
    <2>. QED  BY <2>2, <2>3, <2>4, <2>5
  <1>2. Fresh(next, map)
    BY DEF CallInv, Fresh, Receive, Calls
  <1>3. Kept(Given(next), Append(next.left, map[next.class]), next.order)
    BY <1>1, <1>2, FreshIsKept
  <1>4. Len(next.given) <= Len(next.bases) /\ Len(next.left) = Len(next.given)
    BY <1>1 DEF CallInv, Expanding, Fresh
  <1>5. next.class \in seen
    BY <1>1 DEF CallInv
  <1>. HIDE DEF next
  <1>6. CallInv(next, map, seen)
    BY <1>2, <1>3, <1>4, <1>5 DEF CallInv
  <1>. QED  BY <1>6 DEF next

\* A call whose list nobody touched.
LEMMA CallRests ==
  ASSUME NEW call, NEW map, NEW seen, NEW map2, NEW seen2,
         CallInv(call, map, seen), map2[call.class] = map[call.class], seen \subseteq seen2
  PROVE  CallInv(call, map2, seen2)
  BY DEF CallInv, Fresh

\* One call in the place of the innermost one.
LEMMA ReplaceKeeps ==
  ASSUME MroTypeOK, stack # <<>>, CallsInv(stack, heritage, visited),
         NEW call \in Calls, Replace(call), call.class = Top.class,
         CallInv(call, heritage', visited'), visited \subseteq visited',
         \A c \in Classes : c # Top.class => heritage'[c] = heritage[c]
  PROVE  CallsInv(stack', heritage', visited')
  <1>. DEFINE n == Len(stack)
  <1>1. /\ n \in Nat \ {0} /\ DOMAIN stack = 1..n /\ Top = stack[n] /\ stack \in Seq(Calls)
        /\ Len(stack) = n
    BY TopTyped DEF Top, MroTypeOK
  <1>2. /\ DOMAIN stack' = 1..n /\ Len(stack') = n
        /\ stack'[n] = call /\ \A k \in 1..n : k # n => stack'[k] = stack[k]
    <2>1. /\ n \in 1..Len(stack) /\ stack' = [stack EXCEPT ![n] = call]
      BY <1>1 DEF Replace
    <2>2. /\ stack' \in Seq(Calls) /\ Len(stack') = n
          /\ \A k \in 1..n : stack'[k] = IF k = n THEN call ELSE stack[k]
      BY <1>1, <2>1, ExceptSeq
    <2>3. DOMAIN stack' = 1..n
      BY <2>2, LenProperties
    <2>. HIDE DEF n
    <2>4. n \in 1..n
      BY <1>1
    <2>. QED  BY <2>2, <2>3, <2>4
  <1>3. \A k \in 1..n : stack[k] \in Calls
    BY <1>1, ElementOfSeq
  <1>. HIDE DEF n
  <1>4. ASSUME NEW k \in 1..n, k # n
        PROVE  /\ CallInv(stack'[k], heritage', visited') /\ Expanding(stack'[k])
               /\ stack'[k].class # Top.class
    <2>1. /\ CallInv(stack[k], heritage, visited) /\ Expanding(stack[k])
          /\ stack[k].class # stack[n].class
      <3>1. k \in DOMAIN stack /\ n \in DOMAIN stack /\ k < n /\ Len(stack) = n
        BY <1>1, <1>4
      <3>. QED  BY <1>4, <3>1 DEF CallsInv
    <2>2. stack[k].class \in Classes
      BY <1>3 DEF Calls
    <2>3. heritage'[stack[k].class] = heritage[stack[k].class]
      BY <1>1, <2>1, <2>2
    <2>4. CallInv(stack[k], heritage', visited')
      BY <2>1, <2>3, CallRests
    <2>. QED  BY <1>1, <1>2, <1>4, <2>1, <2>4
  <1>5. \A k, l \in 1..n : stack'[k].class = stack'[l].class => k = l
    <2>1. \A k, l \in 1..n : stack[k].class = stack[l].class => k = l
      BY <1>1 DEF CallsInv
    <2>2. \A k \in 1..n : stack'[k].class = stack[k].class
      BY <1>1, <1>2
    <2>. QED  BY <2>1, <2>2
  <1>6. ASSUME NEW k \in 1..n
        PROVE  CallInv(stack'[k], heritage', visited') /\ (k < n => Expanding(stack'[k]))
    <2>1. CASE k = n
      BY <1>1, <1>2, <2>1
    <2>. QED  BY <1>4, <2>1
  <1>. QED  BY <1>2, <1>5, <1>6 DEF CallsInv

LEMMA VisitKeeps ==
  ASSUME MroTypeOK, CallsInv(stack, heritage, visited), VisitBase
  PROVE  CallsInv(stack', heritage', visited')
  <1>. DEFINE n == Len(stack)
              b == Top.bases[Len(Top.given) + 1]
  <1>1. /\ stack # <<>> /\ Expanding(Top) /\ heritage' = heritage
        /\ visited' = visited \cup {b}
        /\ IF b \in visited \/ heritage[b] = <<>>
           THEN Replace(Receive(Top, <<b>>)) ELSE stack' = Append(stack, Call(b))
    BY DEF VisitBase
  <1>2. /\ n \in Nat \ {0} /\ DOMAIN stack = 1..n /\ Top = stack[n] /\ stack \in Seq(Calls)
        /\ Len(stack) = n /\ Top \in Calls
    BY <1>1, TopTyped DEF Top, MroTypeOK
  <1>3. CallInv(Top, heritage, visited)
    <2>1. n \in DOMAIN stack
      BY <1>2
    <2>. QED  BY <1>2, <2>1 DEF CallsInv
  <1>4. b \in Classes
    <2>1. Top.bases \in Seq(Classes) /\ Len(Top.bases) \in Nat /\ Len(Top.given) \in Nat
      BY <1>2, LenProperties DEF Calls
    <2>2. Len(Top.given) + 1 \in 1..Len(Top.bases)
      BY <1>1, <2>1 DEF Expanding
    <2>. QED  BY <2>1, <2>2, ElementOfSeq
  <1>. HIDE DEF b
  <1>5. CASE b \in visited \/ heritage[b] = <<>>
    <2>. DEFINE call == Receive(Top, <<b>>)
    <2>1. <<b>> \in Seq(Classes)
      BY <1>4
    <2>2. call \in Calls /\ CallInv(call, heritage, visited)
      BY <1>1, <1>2, <1>3, <2>1, CallTyped, CallReceives
    <2>3. call.class = Top.class
      BY <1>2 DEF Receive, Calls
    <2>4. Replace(call)
      BY <1>1, <1>5
    <2>. HIDE DEF call
    <2>5. CallInv(call, heritage', visited')
      BY <1>1, <2>2, CallRests
    <2>. QED  BY <1>1, <2>2, <2>3, <2>4, <2>5, ReplaceKeeps
  <1>6. CASE b \notin visited /\ heritage[b] # <<>>
    <2>. DEFINE call == Call(b)
    <2>1. call \in Calls /\ CallInv(call, heritage', visited') /\ Expanding(call) /\ call.class = b
      BY <1>1, <1>4, <1>6, CallTyped, CallBegins DEF Call
    <2>2. stack' = Append(stack, call)
      BY <1>1, <1>6
    <2>. HIDE DEF call
    <2>3. /\ stack' \in Seq(Calls) /\ Len(stack') = n + 1
          /\ stack'[n + 1] = call /\ \A k \in 1..n : stack'[k] = stack[k]
      BY <1>2, <2>1, <2>2, AppendProperties
    <2>4. DOMAIN stack' = 1..(n + 1)
      BY <2>3, LenProperties
    <2>5. \A k \in 1..n : /\ CallInv(stack[k], heritage', visited')
                          /\ k < n => Expanding(stack[k])
                          /\ stack[k].class \in visited
                          /\ \A l \in 1..n : stack[k].class = stack[l].class => k = l
      <3>1. ASSUME NEW k \in DOMAIN stack
            PROVE  /\ CallInv(stack[k], heritage', visited')
                   /\ stack[k].class \in visited
        <4>1. CallInv(stack[k], heritage, visited)
          BY DEF CallsInv
        <4>2. CallInv(stack[k], heritage', visited')
          BY <1>1, <4>1, CallRests
        <4>. QED  BY <4>1, <4>2 DEF CallInv
      <3>. QED  BY <1>2, <3>1 DEF CallsInv
    <2>. HIDE DEF n
    <2>6. \A k \in 1..(n + 1) : k \in 1..n \/ k = n + 1
      BY <1>2
    <2>7. ASSUME NEW k \in 1..(n + 1)
          PROVE  /\ CallInv(stack'[k], heritage', visited')
                 /\ k < n + 1 => Expanding(stack'[k])
      <3>1. CASE k = n + 1
        BY <1>2, <2>1, <2>3, <3>1
      <3>2. CASE k \in 1..n
        <4>1. k < n \/ k = n
          BY <1>2, <3>2
        <4>. QED  BY <1>1, <1>2, <2>3, <2>5, <3>2, <4>1
      <3>. QED  BY <2>6, <3>1, <3>2
    <2>8. ASSUME NEW k \in 1..(n + 1), NEW l \in 1..(n + 1), stack'[k].class = stack'[l].class
          PROVE  k = l
      <3>1. CASE k \in 1..n /\ l \in 1..n
        BY <2>3, <2>5, <2>8, <3>1
      <3>2. CASE k = n + 1 /\ l \in 1..n
        BY <1>6, <2>1, <2>3, <2>5, <2>8, <3>2
      <3>3. CASE k \in 1..n /\ l = n + 1
        BY <1>6, <2>1, <2>3, <2>5, <2>8, <3>3
      <3>4. CASE k = n + 1 /\ l = n + 1
        BY <3>4
      <3>. QED  BY <2>6, <3>1, <3>2, <3>3, <3>4
    <2>. QED  BY <2>3, <2>4, <2>7, <2>8 DEF CallsInv
  <1>. QED  BY <1>5, <1>6

LEMMA MergeKeeps ==
  ASSUME MroTypeOK, CallsInv(stack, heritage, visited), MergeNext
  PROVE  CallsInv(stack', heritage', visited')
  <1>1. /\ stack # <<>> /\ ~Expanding(Top) /\ ~Top.spill /\ visited' = visited
        /\ Top \in Calls /\ Lists(Top) \in Seq(Seq(Classes)) /\ Given(Top) \in Seq(Seq(Classes))
    BY TopTyped, CallTyped DEF MergeNext
  <1>2. CallInv(Top, heritage, visited)
    <2>1. Len(stack) \in DOMAIN stack
      BY <1>1, TopTyped
    <2>. QED  BY <2>1 DEF CallsInv, Top
  <1>3. PICK i \in Free(Lists(Top)) :
            LET next == Head(Lists(Top)[i]) IN
            /\ Replace([Top EXCEPT !.order = Append(@, next),
                                   !.left = [j \in DOMAIN @ |-> Pop(@[j], next)]])
            /\ heritage' = [heritage EXCEPT ![Top.class] = Pop(@, next)]
    BY DEF MergeNext
  <1>. DEFINE next == Head(Lists(Top)[i])
              left == [j \in DOMAIN Top.left |-> Pop(Top.left[j], next)]
              call == [Top EXCEPT !.order = Append(@, next), !.left = left]
              own == Pop(heritage[Top.class], next)
              given == Given(Top)  lists == Lists(Top)  after == Append(left, own)
  <1>4. next \in Classes
    <2>1. i \in DOMAIN Lists(Top) /\ Lists(Top)[i] # <<>>
      BY DEF Free, NonEmpty
    <2>2. Lists(Top)[i] \in Seq(Classes)
      BY <1>1, <2>1, LenProperties, ElementOfSeq
    <2>. QED  BY <2>1, <2>2, HeadTailProperties
  <1>5. Replace(call) /\ heritage' = [heritage EXCEPT ![Top.class] = own]
    BY <1>3
  <1>6. i \in Free(lists) /\ next = Head(lists[i])
    OBVIOUS
  <1>7. /\ Top.left \in Seq(Seq(Classes)) /\ Top.given \in Seq(Seq(Classes))
        /\ Top.order \in Seq(Classes) /\ Top.class \in Classes /\ Top.bases \in Seq(Classes)
    BY <1>1 DEF Calls
  <1>8. /\ heritage \in [Classes -> Seq(Classes)] /\ heritage[Top.class] \in Seq(Classes)
        /\ lists = Append(Top.left, heritage[Top.class])
        /\ given = Append(Top.given, Top.bases)
    BY <1>7 DEF MroTypeOK, Lists, Given
  <1>. HIDE DEF next
  <1>9. /\ left \in Seq(Seq(Classes)) /\ Len(left) = Len(Top.left)
        /\ Append(Top.order, next) \in Seq(Classes) /\ own \in Seq(Classes)
    <2>1. left \in Seq(Seq(Classes)) /\ Len(left) = Len(Top.left)
      BY <1>7, PopAll
    <2>2. Append(Top.order, next) \in Seq(Classes)
      BY <1>4, <1>7, AppendProperties
    <2>3. own \in Seq(Classes)
      BY <1>8, PopTakes
    <2>. QED  BY <2>1, <2>2, <2>3
  <1>10. \A j \in DOMAIN Top.left : left[j] = Pop(Top.left[j], next)
    OBVIOUS
  <1>. HIDE DEF left, own
  <1>11. /\ call \in Calls /\ call.class = Top.class /\ call.order = Append(Top.order, next)
         /\ call.left = left /\ call.given = Top.given /\ call.bases = Top.bases
         /\ call.spill = Top.spill
    BY <1>1, <1>9 DEF Calls
  <1>12. heritage'[call.class] = own
    BY <1>5, <1>7, <1>8, <1>11
  <1>13. /\ Len(Top.left) = Len(Top.given)
         /\ Len(Top.given) <= Len(Top.bases)
         /\ Top.class \in visited
    BY <1>1, <1>2 DEF CallInv
  <1>. HIDE DEF call
  <1>14. ASSUME \A j \in DOMAIN given : IsInjective(given[j])
         PROVE  Kept(given, after, Append(Top.order, next))
    <2>1. Kept(given, lists, Top.order)
      BY <1>1, <1>2, <1>8, <1>14 DEF CallInv
    <2>. DEFINE m == Len(Top.left)
    <2>2. /\ m \in Nat /\ DOMAIN Top.left = 1..m
          /\ after \in Seq(Seq(Classes)) /\ Len(after) = m + 1 /\ DOMAIN after = 1..(m + 1)
          /\ Len(lists) = m + 1 /\ Len(given) = m + 1 /\ DOMAIN given = 1..(m + 1)
          /\ lists[m + 1] = heritage[Top.class] /\ after[m + 1] = own
          /\ \A j \in 1..m : lists[j] = Top.left[j] /\ after[j] = left[j]
      <3>1. m \in Nat /\ DOMAIN Top.left = 1..m
        BY <1>7, LenProperties
      <3>2. /\ after \in Seq(Seq(Classes)) /\ Len(after) = m + 1
            /\ after[m + 1] = own /\ \A j \in 1..m : after[j] = left[j]
        BY <1>9, AppendProperties
      <3>3. /\ Len(lists) = m + 1
            /\ lists[m + 1] = heritage[Top.class] /\ \A j \in 1..m : lists[j] = Top.left[j]
        BY <1>7, <1>8, AppendProperties
      <3>4. Len(given) = m + 1
        BY <1>7, <1>8, <1>13, AppendProperties
      <3>5. DOMAIN given = 1..(m + 1) /\ DOMAIN after = 1..(m + 1)
        BY <1>1, <3>2, <3>4, LenProperties
      <3>. QED  BY <3>1, <3>2, <3>3, <3>4, <3>5
    <2>3. \A j \in DOMAIN given : after[j] = Pop(lists[j], next)
      <3>. HIDE DEF m, after, lists, given
      <3>1. \A j \in 1..(m + 1) : j \in 1..m \/ j = m + 1
        BY <2>2
      <3>2. after[m + 1] = Pop(lists[m + 1], next)
        BY <2>2 DEF own
      <3>3. \A j \in 1..m : after[j] = Pop(lists[j], next)
        BY <2>2, <1>10
      <3>. QED  BY <2>2, <3>1, <3>2, <3>3
    <2>4. given \in Seq(Seq(Classes)) /\ lists \in Seq(Seq(Classes))
      BY <1>1
    <2>5. Len(lists) = Len(given)
      BY <2>2
    <2>. HIDE DEF m, after, lists, given
    <2>. QED  BY <1>4, <1>6, <1>7, <1>14, <2>1, <2>2, <2>3, <2>4, <2>5, TakeKeeps
  <1>15. CallInv(call, heritage', visited')
    <2>1. Given(call) = given /\ ~Expanding(call)
      BY <1>1, <1>11 DEF Given, Expanding
    <2>2. /\ call.class \in visited' /\ Len(call.given) <= Len(call.bases)
          /\ Len(call.left) = Len(call.given)
      BY <1>1, <1>9, <1>11, <1>13
    <2>3. (\A j \in DOMAIN Given(call) : IsInjective(Given(call)[j]))
              => Kept(Given(call), Append(call.left, heritage'[call.class]), call.order)
      BY <1>11, <1>12, <1>14, <2>1
    <2>. QED  BY <2>1, <2>2, <2>3 DEF CallInv
  <1>16. \A c \in Classes : c # Top.class => heritage'[c] = heritage[c]
    BY <1>5, <1>7, <1>8
  <1>. QED  BY <1>1, <1>5, <1>11, <1>15, <1>16, ReplaceKeeps

LEMMA SpillKeeps ==
  ASSUME MroTypeOK, MroTypeOK', CallsInv(stack, heritage, visited), NoCandidate \/ Spill
  PROVE  CallsInv(stack', heritage', visited')
  <1>1. /\ stack # <<>> /\ Top \in Calls /\ UNCHANGED <<heritage, visited>>
        /\ Len(stack) \in DOMAIN stack
    BY TopTyped DEF NoCandidate, Spill
  <1>2. CallInv(Top, heritage, visited) /\ (Expanding(Top) => ~Top.spill)
    BY <1>1 DEF CallsInv, CallInv, Fresh, Top
  <1>3. PICK call : /\ Replace(call) /\ call \in Calls
                    /\ call.class = Top.class /\ call.given = Top.given
                    /\ call.bases = Top.bases /\ call.spill /\ ~Expanding(Top)
    <2>1. CASE NoCandidate
      <3>. DEFINE call == [Top EXCEPT !.left = Lists(Top), !.spill = TRUE]
      <3>1. Lists(Top) \in Seq(Seq(Classes))
        BY <1>1, CallTyped
      <3>2. call \in Calls /\ Replace(call) /\ ~Expanding(Top)
        BY <1>1, <2>1, <3>1 DEF NoCandidate, Calls
      <3>3. /\ call.class = Top.class /\ call.given = Top.given
            /\ call.bases = Top.bases /\ call.spill
        BY <1>1 DEF Calls
      <3>. QED  BY <3>2, <3>3
    <2>2. CASE Spill
      <3>. DEFINE call == [Top EXCEPT !.order = @ \o Head(Top.left), !.left = Tail(@)]
      <3>1. Head(Top.left) \in Seq(Classes) /\ Tail(Top.left) \in Seq(Seq(Classes))
            /\ Top.order \in Seq(Classes)
        BY <1>1, <2>2, HeadTailProperties DEF Calls, Spill
      <3>2. Top.order \o Head(Top.left) \in Seq(Classes)
        BY <3>1, ConcatProperties
      <3>3. call \in Calls /\ Replace(call) /\ Top.spill /\ ~Expanding(Top)
        BY <1>1, <1>2, <2>2, <3>1, <3>2 DEF Spill, Calls
      <3>4. /\ call.class = Top.class /\ call.given = Top.given
            /\ call.bases = Top.bases /\ call.spill
        BY <1>1, <3>3 DEF Calls
      <3>. QED  BY <3>3, <3>4
    <2>. QED  BY <2>1, <2>2
  <1>4. CallInv(call, heritage', visited')
    BY <1>1, <1>2, <1>3 DEF CallInv, Expanding
  <1>. QED  BY <1>1, <1>3, <1>4, ReplaceKeeps

LEMMA ReturnKeeps ==
  ASSUME MroTypeOK, CallsInv(stack, heritage, visited), ReturnOrder
  PROVE  CallsInv(stack', heritage', visited')
  <1>. DEFINE n == Len(stack)  order == <<Top.class>> \o Top.order
  <1>1. /\ stack # <<>> /\ Top \in Calls /\ UNCHANGED <<heritage, visited>>
        /\ n \in Nat \ {0} /\ DOMAIN stack = 1..n /\ stack \in Seq(Calls)
        /\ Return(order) /\ Len(stack) = n
    BY TopTyped DEF ReturnOrder, MroTypeOK
  <1>2. order \in Seq(Classes)
    <2>1. <<Top.class>> \in Seq(Classes) /\ Top.order \in Seq(Classes)
      BY <1>1 DEF Calls
    <2>. QED  BY <2>1, ConcatProperties
  <1>. HIDE DEF order
  <1>3. CASE n = 1
    <2>1. stack' = <<>>
      BY <1>1, <1>3 DEF Return
    <2>. QED  BY <2>1 DEF CallsInv
  <1>4. CASE n # 1
    <2>1. stack' = [k \in 1..(n - 1) |-> IF k = n - 1 THEN Receive(stack[k], order) ELSE stack[k]]
      BY <1>1, <1>4 DEF Return
    <2>2. \A k \in 1..n : stack[k] \in Calls
      BY <1>1, ElementOfSeq
    <2>3. \A k \in 1..(n - 1) : /\ k \in DOMAIN stack /\ CallInv(stack[k], heritage, visited)
                                /\ Expanding(stack[k]) /\ stack[k] \in Calls
      <3>1. \A k \in DOMAIN stack : /\ CallInv(stack[k], heritage, visited)
                                    /\ k < Len(stack) => Expanding(stack[k])
        BY DEF CallsInv
      <3>. HIDE DEF n
      <3>. QED  BY <1>1, <2>2, <3>1
    <2>4. \A k \in 1..(n - 1) : /\ Receive(stack[k], order) \in Calls
                                /\ CallInv(Receive(stack[k], order), heritage, visited)
                                /\ Receive(stack[k], order).class = stack[k].class
      <3>1. ASSUME NEW k \in 1..(n - 1)
            PROVE  /\ Receive(stack[k], order) \in Calls
                   /\ CallInv(Receive(stack[k], order), heritage, visited)
        BY <2>3, <1>2, CallTyped, CallReceives
      <3>2. ASSUME NEW k \in 1..(n - 1) PROVE Receive(stack[k], order).class = stack[k].class
        BY <2>3 DEF Receive, Calls
      <3>. QED  BY <3>1, <3>2
    <2>5. \A k, l \in 1..(n - 1) : stack[k].class = stack[l].class => k = l
      BY <2>3 DEF CallsInv
    <2>. HIDE DEF n
    <2>6. n - 1 \in Nat /\ stack' \in [1..(n - 1) -> Calls]
      BY <1>1, <2>1, <2>3, <2>4
    <2>7. Len(stack') = n - 1 /\ DOMAIN stack' = 1..(n - 1)
      BY <2>6, SeqOfElements
    <2>8. ASSUME NEW k \in 1..(n - 1)
          PROVE  /\ CallInv(stack'[k], heritage', visited')
                 /\ k < n - 1 => Expanding(stack'[k])
                 /\ stack'[k].class = stack[k].class
      <3>1. CASE k = n - 1
        BY <1>1, <2>1, <2>4, <3>1
      <3>2. CASE k # n - 1
        BY <1>1, <2>1, <2>3, <3>2
      <3>. QED  BY <3>1, <3>2
    <2>. QED  BY <2>5, <2>7, <2>8 DEF CallsInv
  <1>. QED  BY <1>3, <1>4

LEMMA CallsInvStep ==
  ASSUME MroTypeOK, MroTypeOK', CallsInv(stack, heritage, visited), [MroNext]_mroVars
  PROVE  CallsInv(stack', heritage', visited')
  <1>1. ASSUME NEW c \in Classes, AddClass(c) PROVE CallsInv(stack', heritage', visited')
    <2>1. stack' = <<>>
      BY <1>1 DEF AddClass, callVars
    <2>. QED  BY <2>1 DEF CallsInv
  <1>2. CASE ComputeNext
    <2>1. PICK i \in DOMAIN keys :
              /\ visited' = {keys[i]} /\ heritage' = heritage
              /\ IF heritage[keys[i]] = <<>>
                 THEN stack' = <<>>
                 ELSE stack' = <<Call(keys[i])>>
      BY <1>2 DEF ComputeNext
    <2>2. keys[i] \in Classes
      BY LenProperties, ElementOfSeq DEF MroTypeOK
    <2>3. CASE stack' = <<>>
      BY <2>3 DEF CallsInv
    <2>4. CASE heritage[keys[i]] # <<>> /\ stack' = <<Call(keys[i])>>
      <3>1. CallInv(Call(keys[i]), heritage', visited')
        BY <2>1, <2>2, <2>4, CallBegins
      <3>2. DOMAIN stack' = {1} /\ Len(stack') = 1 /\ stack'[1] = Call(keys[i])
        BY <2>4
      <3>. QED  BY <3>1, <3>2 DEF CallsInv
    <2>. QED  BY <2>1, <2>3, <2>4
  <1>3. CASE UNCHANGED mroVars
    BY <1>3 DEF mroVars
  <1>. QED
    BY <1>1, <1>2, <1>3, VisitKeeps, MergeKeeps, SpillKeeps, ReturnKeeps DEF MroNext

(* In every merge of every call, the order agrees with all of the lists it *)
(* was given, for any classes and any heritage between them.               *)
THEOREM MergesKeepOrders == MroSpec => []MergeKeepsOrders
  <1>. DEFINE Inv == CallsInv(stack, heritage, visited)
  <1>1. MroInit => Inv
    BY DEF MroInit, CallsInv
  <1>2. MroTypeOK /\ MroTypeOK' /\ Inv /\ [MroNext]_mroVars => Inv'
    BY CallsInvStep
  <1>3. Inv => MergeKeepsOrders
    BY DEF CallsInv, CallInv, MergeKeepsOrders, Lists
  <1>. QED
    BY <1>1, <1>2, <1>3, MroTypeCorrect, PTL DEF MroSpec

-----------------------------------------------------------------------------
(* The first linearization.                                                *)

\* A class stands before its bases in an order, and these as it names them.
InOrder(bases, order, d) ==
    \A i \in DOMAIN bases[d] :
        /\ Before(order, d, bases[d][i])
        /\ \A j \in 1..(i - 1) : Before(order, bases[d][j], bases[d][i])

Closed(bases, family) == \A d \in family : Range(bases[d]) \subseteq family

\* What the source declares: each base once, and no class below itself.
Acyclic(bases) ==
    \A c \in Classes : IsInjective(bases[c]) /\ \A b \in Range(bases[c]) : b < c

Begun(call, bases, seen) ==
    /\ call.class \in seen /\ call.bases = bases[call.class]
    /\ \A i \in 1..Len(call.given) : call.bases[i] \in seen

\* Of classes met already, all of them below the one that is linearized.
Sound(call, seen) ==
    /\ ~call.spill
    /\ \A i \in DOMAIN call.given :
          /\ IsInjective(call.given[i])
          /\ \A d \in Range(call.given[i]) : d \in seen /\ d < call.class
    /\ \A d \in Range(call.order) : d \in seen /\ d < call.class

\* The bases of a class that was met have their order: it has none, is being
\* linearized, or one of the lists given so far has the order.
Placed(d, bases, calls) ==
    \/ bases[d] = <<>>
    \/ \E k \in DOMAIN calls : calls[k].class = d
    \/ \E k \in DOMAIN calls : \E i \in DOMAIN calls[k].given : InOrder(bases, calls[k].given[i], d)

\* The base a call visits.
Visiting(call) == call.bases[Len(call.given) + 1]

RunInv(bases, map, calls, seen, bad) ==
    /\ \A k \in DOMAIN calls : Begun(calls[k], bases, seen)
    /\ \A k \in DOMAIN calls : k > 1 => calls[k].class = Visiting(calls[k - 1])
    /\ \A d \in Classes \ seen : map[d] = bases[d]
    /\ \A family \in SUBSET Classes :
          calls[1].class \in family /\ Closed(bases, family) => seen \subseteq family
    /\ calls[1].class \notin bad =>
          /\ \A k \in DOMAIN calls : Sound(calls[k], seen)
          /\ \A d \in seen : Placed(d, bases, calls)

\* The classes are linearized in the order of the keys, and the order of the
\* first one stays.
FirstInv ==
    /\ Acyclic(declared)
    /\ Computed = {} /\ stack = <<>> => heritage = declared
    /\ Computed = {} /\ stack # <<>> =>
          stack[1].class = keys[1] /\ RunInv(declared, heritage, stack, visited, warned)
    /\ Computed # {} => keys[1] \in Computed
    /\ stack # <<>> => stack[1].class \notin Computed
    /\ FirstIsLinear

\* The order of a merge that has emptied its lists has them all.
LEMMA EmptiedLists ==
  ASSUME NEW S, NEW G \in Seq(Seq(S)), NEW L \in Seq(Seq(S)), NEW order \in Seq(S),
         Len(L) = Len(G), Kept(G, L, order), NonEmpty(L) = {}, NEW i \in DOMAIN G
  PROVE  /\ \A n \in DOMAIN G[i] : G[i][n] \in Range(order)
         /\ \A x, y : Before(G[i], x, y) => Before(order, x, y)
  <1>. DEFINE g == G[i]  n == Len(G[i])
  <1>1. g \in Seq(S) /\ DOMAIN L = DOMAIN G /\ n \in Nat /\ DOMAIN g = 1..n
    BY LenProperties, ElementOfSeq
  <1>2. L[i] = <<>> /\ Len(L[i]) = 0
    BY <1>1 DEF NonEmpty
  <1>3. \A a \in 1..(n - 0) : /\ g[a] \in Range(order)
                        /\ \A m \in 1..(a - 1) : Before(order, g[m], g[a])
    BY <1>2 DEF Kept, KeptList
  <1>. HIDE DEF g, n
  <1>4. \A a \in 1..n : /\ g[a] \in Range(order)
                        /\ \A m \in 1..(a - 1) : Before(order, g[m], g[a])
    BY <1>1, <1>3
  <1>5. ASSUME NEW x, NEW y, Before(g, x, y) PROVE Before(order, x, y)
    <2>1. PICK a \in 1..n, b \in 1..n : a < b /\ g[a] = x /\ g[b] = y
      BY <1>1, <1>5 DEF Before
    <2>2. a \in 1..(b - 1)
      BY <1>1, <2>1
    <2>. QED  BY <1>4, <2>1, <2>2
  <1>. QED  BY <1>1, <1>4, <1>5 DEF g

\* An order behind the class it is for.
LEMMA ClassInFront ==
  ASSUME NEW S, NEW c \in S, NEW order \in Seq(S)
  PROVE  /\ <<c>> \o order \in Seq(S) /\ <<c>> \o order # <<>>
         /\ Range(<<c>> \o order) = {c} \cup Range(order)
         /\ \A x, y : Before(order, x, y) => Before(<<c>> \o order, x, y)
         /\ \A y \in Range(order) : Before(<<c>> \o order, c, y)
         /\ (IsInjective(order) /\ c \notin Range(order)) => IsInjective(<<c>> \o order)
  <1>. DEFINE longer == <<c>> \o order  n == Len(order)
  <1>1. /\ n \in Nat /\ DOMAIN order = 1..n /\ longer \in Seq(S) /\ DOMAIN longer = 1..(n + 1)
        /\ longer[1] = c /\ \A a \in 1..n : longer[a + 1] = order[a]
    <2>1. <<c>> \in Seq(S) /\ Len(<<c>>) = 1 /\ <<c>>[1] = c
      OBVIOUS
    <2>2. n \in Nat /\ DOMAIN order = 1..n
      BY LenProperties
    <2>3. /\ longer \in Seq(S) /\ Len(longer) = 1 + n
          /\ \A a \in 1..(1 + n) : longer[a] = IF a <= 1 THEN <<c>>[a] ELSE order[a - 1]
      BY <2>1, ConcatProperties
    <2>4. DOMAIN longer = 1..(n + 1)
      BY <2>2, <2>3, LenProperties
    <2>. HIDE DEF longer, n
    <2>5. longer[1] = c
      BY <2>1, <2>2, <2>3
    <2>6. ASSUME NEW a \in 1..n PROVE longer[a + 1] = order[a]
      <3>1. a + 1 \in 1..(1 + n) /\ ~(a + 1 <= 1) /\ (a + 1) - 1 = a
        BY <2>2
      <3>. QED  BY <3>1, <2>3
    <2>. QED  BY <2>2, <2>3, <2>4, <2>5, <2>6
  <1>. HIDE DEF longer, n
  <1>2. \A a \in 1..(n + 1) : a = 1 \/ \E b \in 1..n : a = b + 1
    <2>1. ASSUME NEW a \in 1..(n + 1), a # 1 PROVE a - 1 \in 1..n /\ a = (a - 1) + 1
      BY <1>1, <2>1
    <2>. QED  BY <2>1
  <1>3. \A b \in 1..n : b + 1 \in 1..(n + 1)
    BY <1>1
  <1>4. 1 \in 1..(n + 1)
    BY <1>1
  <1>5. Range(longer) = {c} \cup Range(order)
    <2>1. \A y : y \in Range(longer) <=> \E a \in 1..(n + 1) : y = longer[a]
      BY <1>1 DEF Range
    <2>2. \A y : y \in Range(order) <=> \E a \in 1..n : y = order[a]
      BY <1>1 DEF Range
    <2>3. ASSUME NEW y \in Range(longer) PROVE y = c \/ y \in Range(order)
      <3>1. PICK a \in 1..(n + 1) : y = longer[a]
        BY <2>1
      <3>2. CASE a = 1
        BY <1>1, <3>1, <3>2
      <3>3. CASE a # 1
        <4>1. PICK b \in 1..n : a = b + 1
          BY <1>2, <3>3
        <4>. QED  BY <1>1, <2>2, <3>1, <4>1
      <3>. QED  BY <3>2, <3>3
    <2>4. ASSUME NEW y, y = c \/ y \in Range(order) PROVE y \in Range(longer)
      <3>1. CASE y = c
        BY <1>1, <1>4, <2>1, <3>1
      <3>2. CASE y \in Range(order)
        <4>1. PICK a \in 1..n : y = order[a]
          BY <2>2, <3>2
        <4>2. a + 1 \in 1..(n + 1) /\ y = longer[a + 1]
          BY <1>1, <1>3, <4>1
        <4>. QED  BY <2>1, <4>2
      <3>. QED  BY <2>4, <3>1, <3>2
    <2>. QED  BY <2>3, <2>4
  <1>6. ASSUME NEW x, NEW y, Before(order, x, y) PROVE Before(longer, x, y)
    <2>1. PICK a \in 1..n, b \in 1..n : a < b /\ order[a] = x /\ order[b] = y
      BY <1>1, <1>6 DEF Before
    <2>2. a + 1 < b + 1 /\ longer[a + 1] = x /\ longer[b + 1] = y
      BY <1>1, <2>1
    <2>. QED  BY <1>1, <1>3, <2>2 DEF Before
  <1>7. ASSUME NEW a \in 1..n PROVE Before(longer, c, order[a])
    <2>1. 1 < a + 1 /\ longer[a + 1] = order[a] /\ a + 1 \in 1..(n + 1)
      BY <1>1, <1>3
    <2>. QED  BY <1>1, <1>4, <2>1 DEF Before
  <1>8. ASSUME IsInjective(order), c \notin Range(order) PROVE IsInjective(longer)
    <2>1. \A a \in 1..n : longer[a + 1] # c
      BY <1>1, <1>8 DEF Range
    <2>2. \A a, b \in 1..n : longer[a + 1] = longer[b + 1] => a = b
      BY <1>1, <1>8 DEF IsInjective
    <2>3. ASSUME NEW a \in 1..(n + 1), NEW b \in 1..(n + 1), longer[a] = longer[b]
          PROVE  a = b
      <3>1. CASE a = 1
        <4>1. b = 1
          BY <1>1, <1>2, <2>1, <2>3, <3>1
        <4>. QED  BY <3>1, <4>1
      <3>2. CASE b = 1
        <4>1. a = 1
          BY <1>1, <1>2, <2>1, <2>3, <3>2
        <4>. QED  BY <3>2, <4>1
      <3>3. CASE a # 1 /\ b # 1
        <4>1. PICK x \in 1..n, y \in 1..n : a = x + 1 /\ b = y + 1
          BY <1>2, <3>3
        <4>. QED  BY <2>2, <2>3, <4>1
      <3>. QED  BY <3>1, <3>2, <3>3
    <2>. QED  BY <1>1, <2>3 DEF IsInjective
  <1>9. longer # <<>>
    BY <1>1, <1>4
  <1>10. \A y \in Range(order) : Before(longer, c, y)
    BY <1>1, <1>7 DEF Range
  <1>. QED  BY <1>1, <1>5, <1>6, <1>8, <1>9, <1>10 DEF longer

\* What linearize returns for a class: it stands first, before all it was
\* given and its bases; who has its order in a list given has it here.
Ordered(order, call, bases, seen) ==
    /\ order \in Seq(Classes) /\ order # <<>> /\ IsInjective(order)
    /\ \A d \in Range(order) : d \in seen /\ (d = call.class \/ d < call.class)
    /\ call.class \in Range(order)
    /\ InOrder(bases, order, call.class)
    /\ \A d : \A i \in DOMAIN call.given :
          InOrder(bases, call.given[i], d) => InOrder(bases, order, d)

LEMMA OrderOfCall ==
  ASSUME NEW call \in Calls, NEW bases \in [Classes -> Seq(Classes)], NEW map \in [Classes -> Seq(Classes)],
         NEW seen, Acyclic(bases),
         CallInv(call, map, seen), Begun(call, bases, seen), Sound(call, seen),
         ~Expanding(call), NonEmpty(Append(call.left, map[call.class])) = {}
  PROVE  Ordered(<<call.class>> \o call.order, call, bases, seen)
  <1>. DEFINE order == <<call.class>> \o call.order
  <1>0. Classes \subseteq Nat
    BY MroAssumption
  <1>1. /\ call.class \in Classes /\ call.bases \in Seq(Classes) /\ call.order \in Seq(Classes)
        /\ call.given \in Seq(Seq(Classes)) /\ call.left \in Seq(Seq(Classes))
    BY DEF Calls
  <1>. DEFINE G == Given(call)  L == Append(call.left, map[call.class])  n == Len(call.given)
  <1>2. /\ G \in Seq(Seq(Classes)) /\ L \in Seq(Seq(Classes)) /\ Len(L) = Len(G)
        /\ n \in Nat /\ DOMAIN call.given = 1..n /\ DOMAIN G = 1..(n + 1)
        /\ \A i \in 1..n : G[i] = call.given[i]
        /\ G[n + 1] = call.bases
    <2>1. /\ G \in Seq(Seq(Classes)) /\ Len(G) = n + 1
          /\ \A i \in 1..n : G[i] = call.given[i]
          /\ G[n + 1] = call.bases
      BY <1>1, AppendProperties DEF Given
    <2>2. L \in Seq(Seq(Classes)) /\ Len(L) = Len(call.left) + 1
      <3>1. map[call.class] \in Seq(Classes)
        BY <1>1
      <3>. QED  BY <1>1, <3>1, AppendProperties
    <2>3. Len(call.left) = n
      BY DEF CallInv, Sound
    <2>4. n \in Nat /\ DOMAIN call.given = 1..n
      BY <1>1, LenProperties
    <2>5. DOMAIN G = 1..(n + 1)
      BY <2>1, LenProperties
    <2>. HIDE DEF G, L
    <2>. QED  BY <2>1, <2>2, <2>3, <2>4, <2>5
  <1>3. call.bases = bases[call.class] /\ IsInjective(call.bases)
        /\ \A b \in Range(call.bases) : b < call.class
    BY <1>1 DEF Begun, Acyclic
  <1>4. \A i \in DOMAIN G : IsInjective(G[i])
    <2>1. \A i \in 1..n : IsInjective(G[i])
      BY <1>2 DEF Sound
    <2>. HIDE DEF G, n
    <2>2. \A i \in 1..(n + 1) : i \in 1..n \/ i = n + 1
      BY <1>2
    <2>. QED  BY <1>2, <1>3, <2>1, <2>2
  <1>5. Kept(G, L, call.order) /\ NonEmpty(L) = {}
    BY <1>4 DEF CallInv, Sound
  <1>. HIDE DEF G, L
  <1>6. \A i \in DOMAIN G : /\ \A a \in DOMAIN G[i] : G[i][a] \in Range(call.order)
                            /\ \A x, y : Before(G[i], x, y) => Before(call.order, x, y)
    BY <1>1, <1>2, <1>5, EmptiedLists
  <1>7. /\ order \in Seq(Classes) /\ order # <<>>
        /\ Range(order) = {call.class} \cup Range(call.order)
        /\ \A x, y : Before(call.order, x, y) => Before(order, x, y)
        /\ \A y \in Range(call.order) : Before(order, call.class, y)
        /\ (IsInjective(call.order) /\ call.class \notin Range(call.order)) => IsInjective(order)
    BY <1>1, ClassInFront
  <1>. HIDE DEF order
  <1>8. IsInjective(order)
    <2>1. IsInjective(call.order)
      BY <1>5 DEF Kept
    <2>2. call.class \notin Range(call.order)
      <3>1. call.class \in Nat /\ \A d \in Range(call.order) : d < call.class
        BY <1>0, <1>1 DEF Sound
      <3>. QED  BY <3>1
    <2>. QED  BY <1>7, <2>1, <2>2
  <1>9. InOrder(bases, order, call.class)
    <2>. DEFINE own == bases[call.class]  m == Len(own)
    <2>1. own = G[n + 1] /\ n + 1 \in DOMAIN G /\ own \in Seq(Classes)
      BY <1>1, <1>2, <1>3
    <2>2. m \in Nat /\ DOMAIN own = 1..m
      BY <2>1, LenProperties
    <2>. HIDE DEF own, m
    <2>3. ASSUME NEW i \in 1..m
          PROVE  /\ Before(order, call.class, own[i])
                 /\ \A j \in 1..(i - 1) : Before(order, own[j], own[i])
      <3>1. Before(order, call.class, own[i])
        BY <1>6, <1>7, <2>1, <2>2
      <3>2. ASSUME NEW j \in 1..(i - 1) PROVE Before(order, own[j], own[i])
        <4>1. j \in 1..m /\ j < i
          BY <2>2
        <4>2. Before(own, own[j], own[i])
          BY <2>2, <4>1 DEF Before
        <4>. QED  BY <1>6, <1>7, <2>1, <4>2
      <3>. QED  BY <3>1, <3>2
    <2>. QED  BY <2>2, <2>3 DEF InOrder, own
  <1>10. ASSUME NEW i \in DOMAIN call.given, NEW d, InOrder(bases, call.given[i], d)
         PROVE  InOrder(bases, order, d)
    <2>1. i \in DOMAIN G /\ G[i] = call.given[i]
      <3>. HIDE DEF n
      <3>. QED  BY <1>2
    <2>2. \A x, y : Before(call.given[i], x, y) => Before(order, x, y)
      BY <1>6, <1>7, <2>1
    <2>. QED  BY <1>10, <2>2 DEF InOrder
  <1>11. \A d \in Range(order) : d \in seen /\ (d = call.class \/ d < call.class)
    BY <1>7 DEF Sound, Begun
  <1>12. call.class \in Range(order)
    BY <1>7
  <1>13. Ordered(order, call, bases, seen)
    BY <1>7, <1>8, <1>9, <1>10, <1>11, <1>12 DEF Ordered
  <1>. QED  BY <1>13 DEF order

\* What holds of a call or a class goes on while more classes are visited.
LEMMA MoreVisited ==
  ASSUME NEW call, NEW bases, NEW seen, NEW seen2, seen \subseteq seen2
  PROVE  /\ Begun(call, bases, seen) => Begun(call, bases, seen2)
         /\ Sound(call, seen) => Sound(call, seen2)
  BY DEF Begun, Sound

\* One call in the place of the innermost one, with what that one was given.
LEMMA RunReplace ==
  ASSUME MroTypeOK, stack # <<>>, RunInv(declared, heritage, stack, visited, warned),
         NEW call \in Calls, Replace(call), call.class = Top.class, call.bases = Top.bases,
         Begun(call, declared, visited'), declared' = declared,
         visited \subseteq visited', warned \subseteq warned',
         \A d \in Classes \ visited' : heritage'[d] = heritage[d],
         \A d \in visited' : d \notin visited => d \in Range(Top.bases) /\ declared[d] = <<>>,
         stack[1].class \notin warned' =>
             /\ Sound(call, visited')
             /\ \A i \in DOMAIN Top.given : i \in DOMAIN call.given /\ call.given[i] = Top.given[i]
  PROVE  RunInv(declared', heritage', stack', visited', warned')
  <1>. DEFINE n == Len(stack)  root == stack[1].class
  <1>1. /\ n \in Nat \ {0} /\ DOMAIN stack = 1..n /\ Top = stack[n] /\ stack \in Seq(Calls)
        /\ Len(stack) = n
    BY TopTyped DEF Top, MroTypeOK
  <1>2. /\ DOMAIN stack' = 1..n
        /\ stack'[n] = call /\ \A k \in 1..n : k # n => stack'[k] = stack[k]
    <2>1. /\ n \in 1..Len(stack) /\ stack' = [stack EXCEPT ![n] = call]
      BY <1>1 DEF Replace
    <2>2. /\ stack' \in Seq(Calls) /\ Len(stack') = n
          /\ \A k \in 1..n : stack'[k] = IF k = n THEN call ELSE stack[k]
      BY <1>1, <2>1, ExceptSeq
    <2>3. DOMAIN stack' = 1..n
      BY <2>2, LenProperties
    <2>. HIDE DEF n
    <2>4. n \in 1..n
      BY <1>1
    <2>. QED  BY <2>2, <2>3, <2>4
  <1>3. \A k \in 1..n : stack'[k].class = stack[k].class /\ stack'[k].bases = stack[k].bases
    BY <1>1, <1>2
  <1>. HIDE DEF n
  <1>4. 1 \in 1..n /\ n \in 1..n /\ stack'[1].class = root
    BY <1>1, <1>3
  <1>5. /\ \A k \in 1..n : Begun(stack[k], declared, visited)
        /\ \A k \in 1..n : k > 1 => stack[k].class = Visiting(stack[k - 1])
        /\ \A d \in Classes \ visited : heritage[d] = declared[d]
        /\ \A family \in SUBSET Classes :
              root \in family /\ Closed(declared, family) => visited \subseteq family
        /\ root \notin warned =>
              /\ \A k \in 1..n : Sound(stack[k], visited)
              /\ \A d \in visited : Placed(d, declared, stack)
    BY <1>1 DEF RunInv
  <1>6. \A k \in 1..n : Begun(stack'[k], declared, visited')
    BY <1>1, <1>2, <1>5, MoreVisited
  <1>7. \A k \in 1..n : k > 1 => stack'[k].class = Visiting(stack'[k - 1])
    <2>1. \A k \in 1..n : k > 1 => k - 1 \in 1..n /\ k - 1 # n
      BY <1>1
    <2>. QED  BY <2>1, <1>2, <1>3, <1>5
  <1>8. \A d \in Classes \ visited' : heritage'[d] = declared[d]
    BY <1>5
  <1>9. ASSUME NEW family \in SUBSET Classes, root \in family, Closed(declared, family)
        PROVE  visited' \subseteq family
    <2>1. visited \subseteq family
      BY <1>5, <1>9
    <2>2. Top.class \in visited /\ Top.bases = declared[Top.class]
      BY <1>1, <1>4, <1>5 DEF Begun
    <2>3. Range(Top.bases) \subseteq family
      BY <1>9, <2>1, <2>2 DEF Closed
    <2>. QED  BY <2>1, <2>3
  <1>10. ASSUME root \notin warned'
         PROVE  /\ \A k \in 1..n : Sound(stack'[k], visited')
                /\ \A d \in visited' : Placed(d, declared, stack')
    <2>1. root \notin warned
      BY <1>10
    <2>2. \A k \in 1..n : Sound(stack'[k], visited')
      BY <1>2, <1>5, <1>10, <2>1, MoreVisited
    <2>3. ASSUME NEW d \in visited' PROVE Placed(d, declared, stack')
      <3>1. CASE declared[d] = <<>>
        BY <3>1 DEF Placed
      <3>2. CASE d \in visited
        <4>1. Placed(d, declared, stack)
          BY <1>5, <2>1, <3>2
        <4>2. ASSUME NEW k \in 1..n, stack[k].class = d PROVE stack'[k].class = d
          BY <1>3, <4>2
        <4>3. ASSUME NEW k \in 1..n, NEW i \in DOMAIN stack[k].given,
                     InOrder(declared, stack[k].given[i], d)
              PROVE  i \in DOMAIN stack'[k].given /\ InOrder(declared, stack'[k].given[i], d)
          <5>1. CASE k = n
            BY <1>1, <1>2, <1>10, <4>3, <5>1
          <5>2. CASE k # n
            BY <1>2, <4>3, <5>2
          <5>. QED  BY <5>1, <5>2
        <4>. QED  BY <1>1, <1>2, <4>1, <4>2, <4>3 DEF Placed
      <3>. QED  BY <3>1, <3>2
    <2>. QED  BY <2>2, <2>3
  <1>. QED  BY <1>2, <1>4, <1>6, <1>7, <1>8, <1>9, <1>10 DEF RunInv

LEMMA RunMerge ==
  ASSUME MroTypeOK, Acyclic(declared), CallsInv(stack, heritage, visited),
         RunInv(declared, heritage, stack, visited, warned), MergeNext
  PROVE  RunInv(declared', heritage', stack', visited', warned')
  <1>1. /\ stack # <<>> /\ ~Expanding(Top) /\ ~Top.spill /\ UNCHANGED <<declared, visited, warned>>
        /\ Top \in Calls /\ Lists(Top) \in Seq(Seq(Classes)) /\ Given(Top) \in Seq(Seq(Classes))
        /\ Len(stack) \in DOMAIN stack
    BY TopTyped, CallTyped DEF MergeNext
  <1>2. CallInv(Top, heritage, visited) /\ Begun(Top, declared, visited)
        /\ (stack[1].class \notin warned => Sound(Top, visited))
    BY <1>1 DEF CallsInv, RunInv, Top
  <1>3. PICK i \in Free(Lists(Top)) :
            LET next == Head(Lists(Top)[i]) IN
            /\ Replace([Top EXCEPT !.order = Append(@, next),
                                   !.left = [j \in DOMAIN @ |-> Pop(@[j], next)]])
            /\ heritage' = [heritage EXCEPT ![Top.class] = Pop(@, next)]
    BY DEF MergeNext
  <1>. DEFINE next == Head(Lists(Top)[i])
              left == [j \in DOMAIN Top.left |-> Pop(Top.left[j], next)]
              call == [Top EXCEPT !.order = Append(@, next), !.left = left]
  <1>4. /\ next \in Classes
        /\ i \in DOMAIN Lists(Top) /\ Lists(Top)[i] \in Seq(Classes) /\ Lists(Top)[i] # <<>>
        /\ next = Lists(Top)[i][1]
    <2>1. i \in DOMAIN Lists(Top) /\ Lists(Top)[i] # <<>>
      BY DEF Free, NonEmpty
    <2>2. Lists(Top)[i] \in Seq(Classes)
      BY <1>1, <2>1, LenProperties, ElementOfSeq
    <2>. QED  BY <2>1, <2>2, HeadTailProperties
  <1>5. Replace(call) /\ heritage' = [heritage EXCEPT ![Top.class] = Pop(@, next)]
    BY <1>3
  <1>6. /\ Top.left \in Seq(Seq(Classes)) /\ Top.given \in Seq(Seq(Classes))
        /\ Top.order \in Seq(Classes) /\ Top.class \in Classes /\ Top.bases \in Seq(Classes)
        /\ heritage \in [Classes -> Seq(Classes)]
    BY <1>1 DEF Calls, MroTypeOK
  <1>. HIDE DEF next
  <1>7. left \in Seq(Seq(Classes)) /\ Append(Top.order, next) \in Seq(Classes)
    <2>1. left \in Seq(Seq(Classes))
      BY <1>6, PopAll
    <2>2. Append(Top.order, next) \in Seq(Classes)
      BY <1>4, <1>6, AppendProperties
    <2>. QED  BY <2>1, <2>2
  <1>. HIDE DEF left
  <1>8. /\ call \in Calls /\ call.class = Top.class /\ call.order = Append(Top.order, next)
        /\ call.given = Top.given /\ call.bases = Top.bases /\ call.spill = Top.spill
    BY <1>1, <1>7 DEF Calls
  <1>. HIDE DEF call
  <1>9. ASSUME Sound(Top, visited) PROVE next \in visited /\ next < Top.class
    <2>. DEFINE G == Given(Top)  L == Lists(Top)  n == Len(Top.given)
    <2>1. /\ n \in Nat /\ DOMAIN Top.given = 1..n /\ DOMAIN G = 1..(n + 1) /\ DOMAIN L = DOMAIN G
          /\ \A j \in 1..n : G[j] = Top.given[j]
          /\ G[n + 1] = Top.bases
      <3>1. n \in Nat /\ DOMAIN Top.given = 1..n
        BY <1>6, LenProperties
      <3>2. /\ Len(G) = n + 1 /\ \A j \in 1..n : G[j] = Top.given[j]
            /\ G[n + 1] = Top.bases
        BY <1>6, AppendProperties DEF Given
      <3>3. heritage[Top.class] \in Seq(Classes)
        BY <1>6
      <3>4. Len(L) = Len(Top.left) + 1 /\ Len(Top.left) = n
        BY <1>1, <1>2, <1>6, <3>3, AppendProperties DEF Lists, CallInv
      <3>5. DOMAIN G = 1..Len(G) /\ DOMAIN L = 1..Len(L)
        BY <1>1, LenProperties
      <3>. HIDE DEF n, G, L
      <3>. QED  BY <3>1, <3>2, <3>4, <3>5
    <2>2. \A j \in 1..n : /\ IsInjective(G[j])
                          /\ \A d \in Range(G[j]) : d \in visited /\ d < Top.class
      BY <1>9, <2>1 DEF Sound
    <2>3. /\ IsInjective(Top.bases)
          /\ \A d \in Range(Top.bases) : d \in visited /\ d < Top.class
      <3>1. Top.bases = declared[Top.class] /\ IsInjective(Top.bases)
            /\ \A d \in Range(Top.bases) : d < Top.class
        BY <1>2, <1>6 DEF Begun, Acyclic
      <3>2. Len(Top.given) = Len(Top.bases)
        <4>1. Len(Top.given) <= Len(Top.bases) /\ ~(Len(Top.given) < Len(Top.bases))
          BY <1>1, <1>2 DEF CallInv, Expanding
        <4>2. Len(Top.given) \in Nat /\ Len(Top.bases) \in Nat
          BY <1>6, LenProperties
        <4>. QED  BY <4>1, <4>2
      <3>3. \A j \in 1..Len(Top.bases) : Top.bases[j] \in visited
        BY <1>2, <3>2 DEF Begun
      <3>4. DOMAIN Top.bases = 1..Len(Top.bases)
        BY <1>6, LenProperties
      <3>5. \A d \in Range(Top.bases) : d \in visited
        BY <3>3, <3>4 DEF Range
      <3>. QED  BY <3>1, <3>5
    <2>. HIDE DEF n, G
    <2>4. \A j \in 1..(n + 1) : j \in 1..n \/ j = n + 1
      BY <2>1
    <2>5. \A j \in DOMAIN G : /\ IsInjective(G[j])
                              /\ \A d \in Range(G[j]) : d \in visited /\ d < Top.class
      BY <2>1, <2>2, <2>3, <2>4
    <2>6. Kept(G, L, Top.order)
      BY <1>1, <1>2, <2>5 DEF CallInv, Lists, G
    <2>7. i \in DOMAIN G /\ KeptList(G[i], L[i], Top.order) /\ G[i] \in Seq(Classes)
      <3>1. i \in DOMAIN G
        BY <1>4, <2>1
      <3>2. DOMAIN G = 1..Len(G)
        BY <1>1, LenProperties DEF G
      <3>. QED  BY <1>1, <2>6, <3>1, <3>2, ElementOfSeq DEF Kept, G
    <2>8. next \in Range(G[i])
      <3>. DEFINE g == G[i]  l == L[i]  ng == Len(g)  nl == Len(l)
      <3>1. ng \in Nat /\ nl \in Nat /\ nl # 0 /\ DOMAIN g = 1..ng
        BY <1>4, <2>7, LenProperties, EmptySeq
      <3>2. ng - nl >= 0 /\ l = SubSeq(g, ng - nl + 1, ng)
        BY <2>7 DEF KeptList
      <3>3. g \in Seq(Classes) /\ l \in Seq(Classes) /\ next = l[1]
        BY <1>4, <2>7
      <3>4. nl <= ng
        <4>. HIDE DEF ng, nl
        <4>. QED  BY <3>1, <3>2
      <3>. HIDE DEF g, l
      <3>5. \A j \in 1..nl : l[j] = g[ng - nl + j]
        BY <3>2, <3>3, <3>4, EndOfList
      <3>. HIDE DEF ng, nl
      <3>6. 1 \in 1..nl /\ ng - nl + 1 \in 1..ng
        BY <3>1, <3>4
      <3>7. next \in Range(g)
        BY <3>1, <3>3, <3>5, <3>6 DEF Range
      <3>. QED  BY <3>7 DEF g
    <2>. QED  BY <2>5, <2>7, <2>8
  <1>10. Sound(Top, visited) => Sound(call, visited)
    <2>1. ASSUME NEW d \in Range(Append(Top.order, next)) PROVE d \in Range(Top.order) \/ d = next
      <3>. DEFINE m == Len(Top.order)  s == Append(Top.order, next)
      <3>1. /\ m \in Nat /\ DOMAIN s = 1..(m + 1) /\ s[m + 1] = next
            /\ \A a \in 1..m : s[a] = Top.order[a]
            /\ DOMAIN Top.order = 1..m
        BY <1>4, <1>6, AppendProperties, LenProperties
      <3>. HIDE DEF m, s
      <3>2. PICK a \in 1..(m + 1) : d = s[a]
        BY <2>1, <3>1 DEF Range, s
      <3>3. a \in 1..m \/ a = m + 1
        BY <3>1
      <3>. QED  BY <3>1, <3>2, <3>3 DEF Range
    <2>. QED  BY <1>8, <1>9, <2>1 DEF Sound
  <1>11. Begun(call, declared, visited)
    BY <1>2, <1>8 DEF Begun
  <1>12. \A d \in Classes \ visited : heritage'[d] = heritage[d]
    <2>1. Top.class \in visited
      BY <1>2 DEF Begun
    <2>. QED  BY <1>5, <1>6, <2>1
  <1>. QED  BY <1>1, <1>2, <1>5, <1>8, <1>10, <1>11, <1>12, RunReplace

LEMMA RunSpill ==
  ASSUME MroTypeOK, CallsInv(stack, heritage, visited),
         RunInv(declared, heritage, stack, visited, warned), NoCandidate \/ Spill
  PROVE  RunInv(declared', heritage', stack', visited', warned')
  <1>1. /\ stack # <<>> /\ Top \in Calls /\ UNCHANGED <<declared, heritage, visited>>
        /\ Len(stack) \in DOMAIN stack
    BY TopTyped DEF NoCandidate, Spill
  <1>2. Begun(Top, declared, visited) /\ (stack[1].class \notin warned => Sound(Top, visited))
    BY <1>1 DEF RunInv, Top
  <1>3. PICK call : /\ Replace(call) /\ call \in Calls
                    /\ call.class = Top.class /\ call.given = Top.given
                    /\ call.bases = Top.bases
                    /\ warned \subseteq warned' /\ stack[1].class \in warned'
    <2>1. CASE NoCandidate
      <3>. DEFINE call == [Top EXCEPT !.left = Lists(Top), !.spill = TRUE]
      <3>1. Lists(Top) \in Seq(Seq(Classes))
        BY <1>1, CallTyped
      <3>2. call \in Calls /\ Replace(call) /\ warned' = warned \cup {stack[1].class}
        BY <1>1, <2>1, <3>1 DEF NoCandidate, Calls
      <3>3. call.class = Top.class /\ call.given = Top.given /\ call.bases = Top.bases
        BY <1>1 DEF Calls
      <3>. QED  BY <3>2, <3>3
    <2>2. CASE Spill
      <3>. DEFINE call == [Top EXCEPT !.order = @ \o Head(Top.left), !.left = Tail(@)]
      <3>1. Head(Top.left) \in Seq(Classes) /\ Tail(Top.left) \in Seq(Seq(Classes))
            /\ Top.order \in Seq(Classes)
        BY <1>1, <2>2, HeadTailProperties DEF Calls, Spill
      <3>2. Top.order \o Head(Top.left) \in Seq(Classes)
        BY <3>1, ConcatProperties
      <3>3. call \in Calls /\ Replace(call) /\ Top.spill /\ warned' = warned
        BY <1>1, <2>2, <3>1, <3>2 DEF Spill, Calls
      <3>4. call.class = Top.class /\ call.given = Top.given /\ call.bases = Top.bases
        BY <1>1 DEF Calls
      <3>5. stack[1].class \in warned
        BY <1>2, <3>3 DEF Sound
      <3>. QED  BY <3>3, <3>4, <3>5
    <2>. QED  BY <2>1, <2>2
  <1>4. Begun(call, declared, visited)
    BY <1>2, <1>3 DEF Begun
  <1>. QED  BY <1>1, <1>3, <1>4, RunReplace

LEMMA RunVisit ==
  ASSUME MroTypeOK, Acyclic(declared), CallsInv(stack, heritage, visited),
         RunInv(declared, heritage, stack, visited, warned), VisitBase
  PROVE  RunInv(declared', heritage', stack', visited', warned')
  <1>. DEFINE n == Len(stack)
              b == Top.bases[Len(Top.given) + 1]
  <1>1. /\ stack # <<>> /\ Expanding(Top) /\ UNCHANGED <<declared, heritage, warned>>
        /\ visited' = visited \cup {b}
        /\ IF b \in visited \/ heritage[b] = <<>>
           THEN Replace(Receive(Top, <<b>>)) ELSE stack' = Append(stack, Call(b))
    BY DEF VisitBase
  <1>2. /\ n \in Nat \ {0} /\ DOMAIN stack = 1..n /\ Top = stack[n] /\ stack \in Seq(Calls)
        /\ Len(stack) = n /\ Top \in Calls /\ n \in DOMAIN stack
    BY <1>1, TopTyped DEF Top, MroTypeOK
  <1>3. /\ CallInv(Top, heritage, visited) /\ Begun(Top, declared, visited)
        /\ (stack[1].class \notin warned => Sound(Top, visited))
    BY <1>2 DEF CallsInv, RunInv
  <1>4. b \in Classes /\ b \in Range(Top.bases)
    <2>1. Top.bases \in Seq(Classes) /\ Len(Top.bases) \in Nat /\ Len(Top.given) \in Nat
          /\ DOMAIN Top.bases = 1..Len(Top.bases)
      BY <1>2, LenProperties DEF Calls
    <2>2. Len(Top.given) + 1 \in 1..Len(Top.bases)
      BY <1>1, <2>1 DEF Expanding
    <2>. QED  BY <2>1, <2>2, ElementOfSeq DEF Range
  <1>5. Top.class \in Classes /\ Top.bases = declared[Top.class] /\ b < Top.class
    BY <1>2, <1>3, <1>4 DEF Calls, Begun, Acyclic
  <1>6. b = Top.bases[Len(Top.given) + 1]
    OBVIOUS
  <1>. HIDE DEF b
  <1>7. CASE b \in visited \/ heritage[b] = <<>>
    <2>. DEFINE call == Receive(Top, <<b>>)  m == Len(Top.given)
    <2>1. <<b>> \in Seq(Classes) /\ IsInjective(<<b>>) /\ Range(<<b>>) = {b}
      BY <1>4 DEF IsInjective, Range
    <2>2. /\ call \in Calls /\ call.class = Top.class /\ call.bases = Top.bases
          /\ call.given = Append(Top.given, <<b>>) /\ call.order = Top.order
          /\ call.spill = Top.spill
      <3>1. call \in Calls
        BY <1>2, <2>1, CallTyped
      <3>. QED  BY <1>2, <3>1 DEF Receive, Calls
    <2>3. /\ m \in Nat /\ DOMAIN Top.given = 1..m
          /\ Len(call.given) = m + 1 /\ DOMAIN call.given = 1..(m + 1)
          /\ \A i \in 1..m : call.given[i] = Top.given[i]
          /\ call.given[m + 1] = <<b>>
      <3>1. Top.given \in Seq(Seq(Classes)) /\ call.given \in Seq(Seq(Classes))
        BY <1>2, <2>2 DEF Calls
      <3>2. m \in Nat /\ DOMAIN Top.given = 1..m
        BY <3>1, LenProperties
      <3>3. /\ Len(call.given) = m + 1
            /\ \A i \in 1..m : call.given[i] = Top.given[i]
            /\ call.given[m + 1] = <<b>>
        <4>. HIDE DEF call
        <4>. QED  BY <2>1, <2>2, <3>1, AppendProperties
      <3>4. DOMAIN call.given = 1..Len(call.given)
        BY <3>1, LenProperties
      <3>. HIDE DEF m, call
      <3>. QED  BY <3>2, <3>3, <3>4
    <2>4. Replace(call)
      BY <1>1, <1>7
    <2>. HIDE DEF call, m
    <2>5. \A i \in 1..(m + 1) : i \in 1..m \/ i = m + 1
      BY <2>3
    <2>6. Begun(call, declared, visited')
      <3>1. b \in visited' /\ call.bases[m + 1] = b
        BY <1>1, <1>6, <2>2 DEF m
      <3>2. \A i \in 1..m : call.bases[i] \in visited
        BY <1>3, <2>2 DEF Begun, m
      <3>3. \A i \in 1..Len(call.given) : call.bases[i] \in visited'
        BY <1>1, <2>3, <2>5, <3>1, <3>2
      <3>4. call.class \in visited' /\ call.bases = declared[call.class]
        BY <1>1, <1>3, <2>2 DEF Begun
      <3>. QED  BY <3>3, <3>4 DEF Begun
    <2>7. ASSUME stack[1].class \notin warned
          PROVE  /\ Sound(call, visited')
                 /\ \A i \in DOMAIN Top.given : i \in DOMAIN call.given /\ call.given[i] = Top.given[i]
      <3>1. Sound(Top, visited')
        BY <1>1, <1>3, <2>7, MoreVisited
      <3>2. ASSUME NEW i \in DOMAIN call.given
            PROVE  /\ IsInjective(call.given[i])
                   /\ \A d \in Range(call.given[i]) : d \in visited' /\ d < call.class
        <4>1. CASE i \in 1..m
          BY <2>2, <2>3, <3>1, <4>1 DEF Sound
        <4>2. CASE i = m + 1
          BY <1>1, <1>5, <2>1, <2>2, <2>3, <4>2
        <4>. QED  BY <2>3, <2>5, <4>1, <4>2
      <3>3. Sound(call, visited')
        BY <2>2, <3>1, <3>2 DEF Sound
      <3>4. \A i \in 1..m : i \in 1..(m + 1)
        BY <2>3
      <3>. QED  BY <2>3, <3>3, <3>4
    <2>8. \A d \in visited' : d \notin visited => d \in Range(Top.bases) /\ declared[d] = <<>>
      <3>1. ASSUME b \notin visited PROVE declared[b] = <<>>
        BY <1>4, <1>7, <3>1 DEF RunInv
      <3>. QED  BY <1>1, <1>4, <3>1
    <2>. QED  BY <1>1, <2>2, <2>4, <2>6, <2>7, <2>8, RunReplace
  <1>8. CASE b \notin visited /\ heritage[b] # <<>>
    <2>. DEFINE call == Call(b)  root == stack[1].class
    <2>1. heritage[b] = declared[b]
      BY <1>4, <1>8 DEF RunInv
    <2>2. /\ call \in Calls /\ call.class = b /\ call.bases = declared[b]
          /\ call.given = <<>> /\ call.order = <<>> /\ ~call.spill
      BY <1>4, <2>1, CallTyped DEF Call
    <2>3. stack' = Append(stack, call)
      BY <1>1, <1>8
    <2>. HIDE DEF call
    <2>4. /\ stack' \in Seq(Calls) /\ Len(stack') = n + 1
          /\ stack'[n + 1] = call /\ \A k \in 1..n : stack'[k] = stack[k]
      BY <1>2, <2>2, <2>3, AppendProperties
    <2>5. DOMAIN stack' = 1..(n + 1)
      BY <2>4, LenProperties
    <2>6. /\ \A k \in 1..n : Begun(stack[k], declared, visited)
          /\ \A k \in 1..n : k > 1 => stack[k].class = Visiting(stack[k - 1])
          /\ \A d \in Classes \ visited : heritage[d] = declared[d]
          /\ \A family \in SUBSET Classes :
                root \in family /\ Closed(declared, family) => visited \subseteq family
          /\ root \notin warned =>
                /\ \A k \in 1..n : Sound(stack[k], visited)
                /\ \A d \in visited : Placed(d, declared, stack)
      BY <1>2 DEF RunInv
    <2>. HIDE DEF n
    <2>7. /\ \A k \in 1..(n + 1) : k \in 1..n \/ k = n + 1
          /\ \A k \in 1..n : k \in 1..(n + 1)
          /\ n + 1 \in 1..(n + 1) /\ 1 \in 1..n /\ stack'[1].class = root
      BY <1>2, <2>4
    <2>8. Begun(call, declared, visited') /\ Sound(call, visited')
      <3>1. Len(<<>>) = 0 /\ DOMAIN <<>> = {} /\ Range(<<>>) = {} /\ 1..0 = {}
        BY DEF Range
      <3>. QED  BY <1>1, <2>2, <3>1 DEF Begun, Sound
    <2>9. \A k \in 1..(n + 1) : Begun(stack'[k], declared, visited')
      BY <1>1, <2>4, <2>6, <2>7, <2>8, MoreVisited
    <2>10. ASSUME NEW k \in 1..(n + 1), k > 1
           PROVE  stack'[k].class = Visiting(stack'[k - 1])
      <3>1. CASE k = n + 1
        <4>1. k - 1 = n /\ n \in 1..n
          BY <1>2, <3>1
        <4>. QED  BY <1>2, <1>6, <2>2, <2>4, <3>1, <4>1 DEF Visiting
      <3>2. CASE k \in 1..n
        <4>1. k - 1 \in 1..n
          BY <1>2, <2>10, <3>2
        <4>. QED  BY <2>4, <2>6, <2>10, <3>2, <4>1
      <3>. QED  BY <2>7, <3>1, <3>2
    <2>11. \A d \in Classes \ visited' : heritage'[d] = declared[d]
      BY <1>1, <2>6
    <2>12. ASSUME NEW family \in SUBSET Classes, root \in family, Closed(declared, family)
           PROVE  visited' \subseteq family
      <3>1. visited \subseteq family /\ Top.class \in visited
        BY <1>3, <2>6, <2>12 DEF Begun
      <3>2. b \in family
        BY <1>4, <1>5, <2>12, <3>1 DEF Closed
      <3>. QED  BY <1>1, <3>1, <3>2
    <2>13. ASSUME root \notin warned
           PROVE  /\ \A k \in 1..(n + 1) : Sound(stack'[k], visited')
                  /\ \A d \in visited' : Placed(d, declared, stack')
      <3>1. \A k \in 1..(n + 1) : Sound(stack'[k], visited')
        BY <1>1, <2>4, <2>6, <2>7, <2>8, <2>13, MoreVisited
      <3>2. ASSUME NEW d \in visited' PROVE Placed(d, declared, stack')
        <4>1. CASE d = b
          BY <2>2, <2>4, <2>5, <2>7, <4>1 DEF Placed
        <4>2. CASE d \in visited
          <5>1. Placed(d, declared, stack)
            BY <2>6, <2>13, <4>2
          <5>. QED  BY <1>2, <2>4, <2>5, <2>7, <5>1 DEF Placed
        <4>. QED  BY <1>1, <4>1, <4>2
      <3>. QED  BY <3>1, <3>2
    <2>. QED  BY <1>1, <2>5, <2>7, <2>9, <2>10, <2>11, <2>12, <2>13 DEF RunInv
  <1>. QED  BY <1>7, <1>8

\* A call that may return: what it returns, if no warning was logged.
LEMMA ReturnedOrder ==
  ASSUME MroTypeOK, Acyclic(declared), CallsInv(stack, heritage, visited),
         RunInv(declared, heritage, stack, visited, warned), ReturnOrder,
         stack[1].class \notin warned
  PROVE  Ordered(<<Top.class>> \o Top.order, Top, declared, visited)
  <1>1. /\ stack # <<>> /\ Top \in Calls /\ ~Expanding(Top) /\ Len(stack) \in DOMAIN stack
    BY TopTyped DEF ReturnOrder
  <1>2. CallInv(Top, heritage, visited) /\ Begun(Top, declared, visited) /\ Sound(Top, visited)
    BY <1>1 DEF CallsInv, RunInv, Top
  <1>3. NonEmpty(Append(Top.left, heritage[Top.class])) = {}
    BY <1>2 DEF ReturnOrder, Sound, Lists
  <1>4. declared \in [Classes -> Seq(Classes)] /\ heritage \in [Classes -> Seq(Classes)]
    BY DEF MroTypeOK
  <1>. QED  BY <1>1, <1>2, <1>3, <1>4, OrderOfCall

LEMMA RunReturn ==
  ASSUME MroTypeOK, Acyclic(declared), CallsInv(stack, heritage, visited),
         RunInv(declared, heritage, stack, visited, warned), ReturnOrder, Len(stack) # 1
  PROVE  RunInv(declared', heritage', stack', visited', warned') /\ mro' = mro
         /\ stack' # <<>> /\ stack'[1].class = stack[1].class
  <1>. DEFINE n == Len(stack)  order == <<Top.class>> \o Top.order  root == stack[1].class
              l == n - 1
  <1>1. /\ stack # <<>> /\ Top \in Calls /\ UNCHANGED <<declared, heritage, visited, warned>>
        /\ n \in Nat \ {0} /\ DOMAIN stack = 1..n /\ stack \in Seq(Calls) /\ Top = stack[n]
        /\ Return(order) /\ Len(stack) = n
    BY TopTyped DEF ReturnOrder, MroTypeOK, Top
  <1>2. order \in Seq(Classes)
    <2>1. <<Top.class>> \in Seq(Classes) /\ Top.order \in Seq(Classes)
      BY <1>1 DEF Calls
    <2>. QED  BY <2>1, ConcatProperties
  <1>3. /\ stack' = [k \in 1..l |-> IF k = l THEN Receive(stack[k], order) ELSE stack[k]]
        /\ mro' = mro
    BY <1>1 DEF Return
  <1>4. n \in Nat /\ l \in Nat \ {0} /\ n = l + 1
    <2>1. n # 1
      OBVIOUS
    <2>. HIDE DEF n
    <2>. QED  BY <1>1, <2>1
  <1>5. \A k \in 1..n : stack[k] \in Calls
    BY <1>1, ElementOfSeq
  <1>6. root \notin warned =>
          /\ IsInjective(order)
          /\ \A d \in Range(order) : d \in visited /\ (d = Top.class \/ d < Top.class)
          /\ InOrder(declared, order, Top.class)
          /\ \A d : \A i \in DOMAIN Top.given :
                InOrder(declared, Top.given[i], d) => InOrder(declared, order, d)
    BY ReturnedOrder DEF Ordered
  <1>7. /\ \A k \in 1..n : Begun(stack[k], declared, visited)
        /\ \A k \in 1..n : k > 1 => stack[k].class = Visiting(stack[k - 1])
        /\ \A d \in Classes \ visited : heritage[d] = declared[d]
        /\ \A family \in SUBSET Classes :
              root \in family /\ Closed(declared, family) => visited \subseteq family
        /\ root \notin warned =>
              /\ \A k \in 1..n : Sound(stack[k], visited)
              /\ \A d \in visited : Placed(d, declared, stack)
    BY <1>1 DEF RunInv
  <1>8. CallInv(stack[l], heritage, visited) /\ Expanding(stack[l])
    <2>1. \A k \in 1..n : CallInv(stack[k], heritage, visited) /\ (k < n => Expanding(stack[k]))
      BY <1>1 DEF CallsInv
    <2>. HIDE DEF n, l
    <2>. QED  BY <1>4, <2>1
  <1>. HIDE DEF n, order, l
  <1>9. /\ l \in 1..n /\ n \in 1..n /\ l \in 1..l /\ 1 \in 1..l
        /\ \A k \in 1..l : k \in 1..n /\ (k > 1 => k - 1 \in 1..l /\ k - 1 # l)
        /\ \A k \in 1..n : k \in 1..l \/ k = n
        /\ n > 1 /\ n - 1 = l
    BY <1>4
  <1>. DEFINE call == Receive(stack[l], order)  old == stack[l]  m == Len(stack[l].given)
  <1>10. /\ call \in Calls /\ call.class = old.class /\ call.bases = old.bases
         /\ call.given = Append(old.given, order) /\ call.order = old.order
         /\ call.spill = old.spill
    <2>1. call \in Calls /\ old \in Calls
      BY <1>2, <1>5, <1>9, CallTyped
    <2>. QED  BY <2>1 DEF Receive, Calls
  <1>11. /\ DOMAIN stack' = 1..l /\ stack'[l] = call
         /\ \A k \in 1..l : k # l => stack'[k] = stack[k]
    BY <1>3, <1>9
  <1>12. /\ m \in Nat /\ DOMAIN old.given = 1..m
         /\ Len(call.given) = m + 1 /\ DOMAIN call.given = 1..(m + 1)
         /\ \A i \in 1..m : call.given[i] = old.given[i]
         /\ call.given[m + 1] = order
    <2>1. old.given \in Seq(Seq(Classes)) /\ call.given \in Seq(Seq(Classes))
      BY <1>5, <1>9, <1>10 DEF Calls
    <2>. QED  BY <1>2, <1>10, <2>1, AppendProperties, LenProperties
  <1>. HIDE DEF call, m
  <1>13. \A k \in 1..l : stack'[k].class = stack[k].class /\ stack'[k].bases = stack[k].bases
    BY <1>10, <1>11
  <1>14. \A i \in 1..(m + 1) : i \in 1..m \/ i = m + 1
    BY <1>12
  <1>15. Top.class = old.bases[m + 1] /\ Top.class < old.class
    <2>1. Top.class = old.bases[m + 1]
      BY <1>1, <1>7, <1>9 DEF Visiting, m
    <2>2. old.class \in Classes /\ old.bases = declared[old.class] /\ old.bases \in Seq(Classes)
      BY <1>5, <1>7, <1>9 DEF Calls, Begun
    <2>3. m + 1 \in DOMAIN old.bases
      <3>1. m < Len(old.bases)
        BY <1>8 DEF Expanding, m
      <3>2. Len(old.bases) \in Nat /\ DOMAIN old.bases = 1..Len(old.bases)
        BY <2>2, LenProperties
      <3>. QED  BY <1>12, <3>1, <3>2
    <2>. QED  BY <2>1, <2>2, <2>3 DEF Acyclic, Range
  <1>16. Top.class \in visited
    BY <1>1, <1>7, <1>9 DEF Begun
  <1>17. Begun(call, declared, visited)
    <2>1. \A i \in 1..m : old.bases[i] \in visited
      BY <1>7, <1>9 DEF Begun, m
    <2>2. \A i \in 1..Len(call.given) : call.bases[i] \in visited
      BY <1>10, <1>12, <1>14, <1>15, <1>16, <2>1
    <2>. QED  BY <1>7, <1>9, <1>10, <2>2 DEF Begun
  <1>18. ASSUME root \notin warned PROVE Sound(call, visited)
    <2>1. Sound(old, visited)
      BY <1>7, <1>9, <1>18
    <2>2. \A d \in Range(order) : d \in visited /\ d < old.class
      <3>1. Top.class \in Nat /\ old.class \in Nat /\ \A d \in Range(order) : d \in Nat
        <4>1. Top.class \in Classes /\ old.class \in Classes
          BY <1>1, <1>5, <1>9 DEF Calls
        <4>2. \A d \in Range(order) : d \in Classes
          BY <1>2, LenProperties, ElementOfSeq DEF Range
        <4>. QED  BY <4>1, <4>2, MroAssumption
      <3>. QED  BY <1>6, <1>15, <1>18, <3>1
    <2>3. ASSUME NEW i \in DOMAIN call.given
          PROVE  /\ IsInjective(call.given[i])
                 /\ \A d \in Range(call.given[i]) : d \in visited /\ d < call.class
      <3>1. CASE i \in 1..m
        BY <1>10, <1>12, <2>1, <3>1 DEF Sound
      <3>2. CASE i = m + 1
        BY <1>6, <1>10, <1>12, <1>18, <2>2, <3>2
      <3>. QED  BY <1>12, <1>14, <3>1, <3>2
    <2>. QED  BY <1>10, <2>1, <2>3 DEF Sound
  <1>19. ASSUME root \notin warned, NEW d \in visited PROVE Placed(d, declared, stack')
    <2>1. Placed(d, declared, stack)
      BY <1>7, <1>19
    <2>2. m + 1 \in DOMAIN call.given /\ l \in DOMAIN stack' /\ stack'[l].given[m + 1] = order
      BY <1>9, <1>11, <1>12
    <2>3. InOrder(declared, order, d) => Placed(d, declared, stack')
      BY <1>11, <2>2 DEF Placed
    <2>4. ASSUME NEW k \in 1..n, stack[k].class = d PROVE Placed(d, declared, stack')
      <3>1. CASE k = n
        BY <1>1, <1>6, <1>19, <2>3, <2>4, <3>1
      <3>2. CASE k \in 1..l
        BY <1>11, <1>13, <2>4, <3>2 DEF Placed
      <3>. QED  BY <1>9, <3>1, <3>2
    <2>5. ASSUME NEW k \in 1..n, NEW i \in DOMAIN stack[k].given,
                 InOrder(declared, stack[k].given[i], d)
          PROVE  Placed(d, declared, stack')
      <3>1. CASE k = n
        BY <1>1, <1>6, <1>19, <2>3, <2>5, <3>1
      <3>2. CASE k = l
        <4>1. i \in 1..m /\ i \in 1..(m + 1) /\ call.given[i] = old.given[i]
          BY <1>12, <2>5, <3>2
        <4>. QED  BY <1>11, <1>12, <2>2, <2>5, <3>2, <4>1 DEF Placed
      <3>3. CASE k \in 1..l /\ k # l
        BY <1>11, <2>5, <3>3 DEF Placed
      <3>. QED  BY <1>9, <3>1, <3>2, <3>3
    <2>. QED  BY <1>1, <2>1, <2>4, <2>5 DEF Placed
  <1>20. \A k \in 1..l : Begun(stack'[k], declared, visited)
    BY <1>7, <1>9, <1>11, <1>17
  <1>21. \A k \in 1..l : k > 1 => stack'[k].class = Visiting(stack'[k - 1])
    BY <1>7, <1>9, <1>11, <1>13
  <1>22. root \notin warned => \A k \in 1..l : Sound(stack'[k], visited)
    BY <1>7, <1>9, <1>11, <1>18
  <1>23. stack'[1].class = root /\ stack' # <<>>
    BY <1>9, <1>11, <1>13
  <1>. HIDE DEF root
  <1>24. RunInv(declared, heritage, stack', visited, warned)
    BY <1>7, <1>11, <1>19, <1>20, <1>21, <1>22, <1>23 DEF RunInv
  <1>. QED  BY <1>1, <1>3, <1>23, <1>24 DEF root

\* A class without bases.
LEMMA AloneIsLinear ==
  ASSUME MroTypeOK, NEW c \in Classes, declared[c] = <<>>
  PROVE  Linear(<<c>>, c)
  <1>1. IsInjective(<<c>>) /\ Range(<<c>>) = {c} /\ DOMAIN <<>> = {} /\ Range(<<>>) = {}
    BY DEF IsInjective, Range
  <1>2. Ancestors(c) = {c}
    <2>1. {c} \in SUBSET Classes /\ \A d \in {c} : Range(declared[d]) \subseteq {c}
      BY <1>1
    <2>. QED  BY <2>1 DEF Ancestors
  <1>3. Respects(<<c>>, c)
    BY <1>1 DEF Respects
  <1>. QED  BY <1>1, <1>2, <1>3 DEF Linear

\* The order of the class that compute_mro asked for.
LEMMA FirstReturns ==
  ASSUME MroTypeOK, Acyclic(declared), CallsInv(stack, heritage, visited),
         RunInv(declared, heritage, stack, visited, warned), ReturnOrder, Len(stack) = 1,
         stack[1].class \notin warned
  PROVE  Linear(<<Top.class>> \o Top.order, Top.class)
  <1>. DEFINE order == <<Top.class>> \o Top.order  c == Top.class
  <1>1. /\ Top \in Calls /\ c \in Classes /\ DOMAIN stack = {1} /\ Top = stack[1]
        /\ declared \in [Classes -> Seq(Classes)] /\ visited \subseteq Classes
    <2>1. /\ Top \in Calls /\ DOMAIN stack = 1..Len(stack) /\ 1..1 = {1}
          /\ declared \in [Classes -> Seq(Classes)] /\ visited \subseteq Classes
      BY TopTyped DEF ReturnOrder, MroTypeOK
    <2>2. c \in Classes
      BY <2>1 DEF Calls
    <2>. QED  BY <2>1, <2>2 DEF Top
  <1>2. /\ order \in Seq(Classes) /\ order # <<>> /\ IsInjective(order)
        /\ \A d \in Range(order) : d \in visited /\ (d = c \/ d < c)
        /\ c \in Range(order)
        /\ InOrder(declared, order, c)
        /\ \A d : \A i \in DOMAIN Top.given :
              InOrder(declared, Top.given[i], d) => InOrder(declared, order, d)
    BY ReturnedOrder DEF Ordered
  <1>. HIDE DEF order, c
  <1>3. /\ \A family \in SUBSET Classes : c \in family /\ Closed(declared, family) => visited \subseteq family
        /\ \A d \in visited : Placed(d, declared, stack)
    BY <1>1 DEF RunInv, c
  <1>4. ASSUME NEW d \in Range(order) PROVE InOrder(declared, order, d)
    <2>1. Placed(d, declared, stack)
      BY <1>2, <1>3
    <2>2. CASE declared[d] = <<>>
      <3>1. DOMAIN declared[d] = {}
        BY <2>2
      <3>. QED  BY <3>1 DEF InOrder
    <2>3. CASE stack[1].class = d
      BY <1>1, <1>2, <2>3 DEF c
    <2>4. CASE \E i \in DOMAIN stack[1].given : InOrder(declared, stack[1].given[i], d)
      BY <1>1, <1>2, <2>4
    <2>. QED  BY <1>1, <2>1, <2>2, <2>3, <2>4 DEF Placed
  <1>5. Closed(declared, Range(order))
    <2>1. ASSUME NEW d \in Range(order), NEW i \in DOMAIN declared[d]
          PROVE  declared[d][i] \in Range(order)
      <3>1. Before(order, d, declared[d][i])
        BY <1>4 DEF InOrder
      <3>. QED  BY <3>1 DEF Before, Range
    <2>. QED  BY <2>1 DEF Closed, Range
  <1>6. Range(order) \in SUBSET Classes
    BY <1>1, <1>2
  <1>7. Range(order) = Ancestors(c)
    <2>1. ASSUME NEW a \in Ancestors(c) PROVE a \in Range(order)
      BY <1>2, <1>5, <1>6, <2>1 DEF Ancestors, Closed
    <2>2. ASSUME NEW a \in Range(order) PROVE a \in Ancestors(c)
      <3>1. a \in visited /\ a \in Classes
        BY <1>2, <1>6
      <3>2. ASSUME NEW family \in SUBSET Classes, c \in family,
                   \A d \in family : Range(declared[d]) \subseteq family
            PROVE  a \in family
        BY <1>3, <3>1, <3>2 DEF Closed
      <3>. QED  BY <3>1, <3>2 DEF Ancestors
    <2>. QED  BY <2>1, <2>2
  <1>8. \A d \in Range(order) : Respects(order, d)
    BY <1>4 DEF Respects, InOrder
  <1>9. Linear(order, c)
    BY <1>2, <1>7, <1>8 DEF Linear
  <1>. QED  BY <1>9 DEF order, c

\* compute_mro takes the first class: the map is as the source declares it.
LEMMA RunBegins ==
  ASSUME MroTypeOK, NEW c \in Classes, heritage = declared, heritage[c] # <<>>, NEW bad
  PROVE  RunInv(declared, heritage, <<Call(c)>>, {c}, bad)
  <1>. DEFINE call == Call(c)  calls == <<call>>
  <1>1. /\ call.class = c /\ call.bases = declared[c] /\ call.given = <<>> /\ call.order = <<>>
        /\ ~call.spill
    BY DEF Call
  <1>. HIDE DEF call
  <1>2. DOMAIN calls = {1} /\ calls[1] = call
    OBVIOUS
  <1>. HIDE DEF calls
  <1>3. Begun(call, declared, {c}) /\ Sound(call, {c})
    <2>1. Len(<<>>) = 0 /\ DOMAIN <<>> = {} /\ Range(<<>>) = {} /\ 1..0 = {}
      BY DEF Range
    <2>. QED  BY <1>1, <2>1 DEF Begun, Sound
  <1>4. Placed(c, declared, calls)
    BY <1>1, <1>2 DEF Placed
  <1>5. RunInv(declared, heritage, calls, {c}, bad)
    BY <1>1, <1>2, <1>3, <1>4 DEF RunInv
  <1>. QED  BY <1>5 DEF calls, call

\* Linear speaks of the source alone.
LEMMA LinearStays ==
  ASSUME declared' = declared, NEW CONSTANT c, Linear(mro'[c], c)
  PROVE  Linear(mro[c], c)'
  <1>1. Ancestors(c)' = Ancestors(c)
    BY DEF Ancestors
  <1>2. ASSUME NEW d, Respects(mro'[c], d) PROVE Respects(mro[c], d)'
    BY <1>2 DEF Respects
  <1>. QED  BY <1>1, <1>2 DEF Linear

LEMMA FirstInvStep ==
  ASSUME MroTypeOK, MroTypeOK', CallsInv(stack, heritage, visited), FirstInv, [MroNext]_mroVars
  PROVE  FirstInv'
  <1>1. ASSUME NEW c \in Classes, AddClass(c) PROVE FirstInv'
    <2>1. /\ Computed = {} /\ stack = <<>> /\ stack' = <<>> /\ Computed' = {}
          /\ heritage' = declared' /\ First' = {}
      BY <1>1 DEF AddClass, callVars, Computed, First
    <2>2. PICK bases \in SUBSET {b \in Classes : b < c} :
              \E list \in SetToSeqs(bases) : declared' = [declared EXCEPT ![c] = list]
      BY <1>1 DEF AddClass
    <2>3. PICK list \in SetToSeqs(bases) : declared' = [declared EXCEPT ![c] = list]
      BY <2>2
    <2>4. IsInjective(list) /\ \A b \in Range(list) : b < c
      BY <2>2, <2>3 DEF SetToSeqs, Range, IsInjective
    <2>5. Acyclic(declared')
      <3>1. Acyclic(declared) /\ declared \in [Classes -> Seq(Classes)]
        BY DEF FirstInv, MroTypeOK
      <3>2. ASSUME NEW d \in Classes
            PROVE  IsInjective(declared'[d]) /\ \A b \in Range(declared'[d]) : b < d
        BY <2>3, <2>4, <3>1 DEF Acyclic
      <3>. QED  BY <3>2 DEF Acyclic
    <2>6. FirstIsLinear'
      BY <2>1 DEF FirstIsLinear
    <2>. QED  BY <2>1, <2>5, <2>6 DEF FirstInv
  <1>2. ASSUME UNCHANGED <<declared, mro>>, keys' = keys, warned \subseteq warned'
        PROVE  FirstIsLinear' /\ Computed' = Computed
    <2>1. Computed' = Computed /\ First' = First
      BY <1>2 DEF Computed, First
    <2>2. ASSUME NEW c \in First' \ warned' PROVE Linear(mro[c], c)'
      <3>1. Linear(mro'[c], c)
        BY <1>2, <2>1, <2>2 DEF FirstInv, FirstIsLinear
      <3>. QED  BY <1>2, <3>1, LinearStays
    <2>. QED  BY <2>1, <2>2 DEF FirstIsLinear
  \* The class that was computed next.
  <1>3. ASSUME NEW c \in Classes, NEW order \in Seq(Classes), order # <<>>, c \notin Computed,
               mro' = [mro EXCEPT ![c] = order], stack' = <<>>,
               UNCHANGED <<declared, keys, warned>>,
               Computed = {} => c = keys[1] /\ (c \notin warned => Linear(order, c))
        PROVE  FirstInv'
    <2>1. Computed' = Computed \cup {c}
      BY <1>3 DEF Computed, MroTypeOK
    <2>2. keys[1] \in Computed'
      BY <1>3, <2>1 DEF FirstInv
    <2>3. ASSUME NEW d \in First' \ warned' PROVE Linear(mro[d], d)'
      <3>1. d \in Computed' /\ d = keys[1] /\ d \notin warned
        BY <1>3, <2>3 DEF First
      <3>2. CASE Computed = {}
        <4>1. d = c /\ mro'[d] = order
          BY <1>3, <2>1, <3>1, <3>2 DEF MroTypeOK
        <4>2. Linear(mro'[d], d)
          BY <1>3, <3>1, <3>2, <4>1
        <4>. QED  BY <1>3, <4>2, LinearStays
      <3>3. CASE Computed # {}
        <4>1. d \in First /\ d # c
          BY <1>3, <3>1, <3>3 DEF FirstInv, First
        <4>2. mro'[d] = mro[d]
          BY <1>3, <4>1 DEF MroTypeOK, First, Computed
        <4>3. Linear(mro'[d], d)
          BY <3>1, <4>1, <4>2 DEF FirstInv, FirstIsLinear
        <4>. QED  BY <1>3, <4>3, LinearStays
      <3>. QED  BY <3>2, <3>3
    <2>4. FirstIsLinear'
      BY <2>3 DEF FirstIsLinear
    <2>. QED  BY <1>3, <2>1, <2>2, <2>4 DEF FirstInv
  \* The linearization that goes on.
  <1>4. ASSUME stack # <<>>, stack' # <<>>, stack'[1].class = stack[1].class,
               UNCHANGED <<declared, mro, keys>>, warned \subseteq warned',
               RunInv(declared, heritage, stack, visited, warned)
                   => RunInv(declared', heritage', stack', visited', warned')
        PROVE  FirstInv'
    BY <1>2, <1>4 DEF FirstInv
  <1>5. CASE ComputeNext
    <2>1. PICK i \in DOMAIN keys :
              /\ Computed = {keys[j] : j \in 1..(i - 1)}
              /\ visited' = {keys[i]}
              /\ IF heritage[keys[i]] = <<>>
                 THEN mro' = [mro EXCEPT ![keys[i]] = <<keys[i]>>] /\ UNCHANGED stack
                 ELSE stack' = <<Call(keys[i])>> /\ UNCHANGED mro
      BY <1>5 DEF ComputeNext
    <2>2. stack = <<>> /\ UNCHANGED <<declared, keys, heritage, warned>>
      BY <1>5 DEF ComputeNext
    <2>. DEFINE c == keys[i]
    <2>3. /\ c \in Classes /\ c \notin Computed /\ i \in Nat \ {0}
          /\ Computed = {} => c = keys[1]
      <3>1. keys \in Seq(Classes) /\ DOMAIN keys = 1..Len(keys) /\ Len(keys) \in Nat
            /\ IsInjective(keys)
        BY LenProperties DEF MroTypeOK
      <3>2. c \in Classes /\ i \in 1..Len(keys)
        BY <3>1, ElementOfSeq
      <3>3. \A j \in 1..(i - 1) : j \in 1..Len(keys) /\ j # i
        BY <3>1, <3>2
      <3>4. c \notin Computed
        BY <2>1, <3>1, <3>3 DEF IsInjective
      <3>5. ASSUME Computed = {} PROVE i = 1
        <4>1. i # 1 => 1 \in 1..(i - 1)
          BY <3>1, <3>2
        <4>. QED  BY <2>1, <3>5, <4>1
      <3>. QED  BY <3>1, <3>2, <3>4, <3>5
    <2>4. Computed = {} => heritage = declared
      BY <2>2 DEF FirstInv
    <2>5. CASE heritage[c] = <<>>
      <3>1. mro' = [mro EXCEPT ![c] = <<c>>] /\ stack' = <<>> /\ <<c>> \in Seq(Classes) /\ <<c>> # <<>>
        BY <2>1, <2>2, <2>3, <2>5
      <3>2. Computed = {} => Linear(<<c>>, c)
        BY <2>3, <2>4, <2>5, AloneIsLinear
      <3>. HIDE DEF c
      <3>. QED  BY <1>3, <2>2, <2>3, <3>1, <3>2
    <2>6. CASE heritage[c] # <<>>
      <3>1. stack' = <<Call(c)>> /\ mro' = mro
        BY <2>1, <2>6
      <3>2. stack' # <<>> /\ stack'[1].class = c
        BY <3>1 DEF Call
      <3>. HIDE DEF c
      <3>3. Computed = {} => RunInv(declared', heritage', stack', visited', warned')
        <4>1. visited' = {c}
          BY <2>1 DEF c
        <4>. QED  BY <2>2, <2>3, <2>4, <2>6, <3>1, <4>1, RunBegins
      <3>4. FirstIsLinear' /\ Computed' = Computed
        BY <1>2, <2>2, <3>1
      <3>. QED  BY <2>2, <2>3, <3>1, <3>2, <3>3, <3>4 DEF FirstInv
    <2>. QED  BY <2>5, <2>6
  <1>6. CASE VisitBase \/ MergeNext \/ NoCandidate \/ Spill
    <2>1. /\ stack # <<>> /\ UNCHANGED <<declared, mro, keys>> /\ warned \subseteq warned'
      BY <1>6 DEF VisitBase, MergeNext, NoCandidate, Spill
    <2>2. Acyclic(declared)
      BY DEF FirstInv
    <2>3. RunInv(declared, heritage, stack, visited, warned)
              => RunInv(declared', heritage', stack', visited', warned')
      BY <1>6, <2>2, RunVisit, RunMerge, RunSpill
    <2>4. stack' # <<>> /\ stack'[1].class = stack[1].class
      <3>. DEFINE n == Len(stack)
      <3>1. /\ n \in Nat \ {0} /\ DOMAIN stack = 1..n /\ stack \in Seq(Calls) /\ Len(stack) = n
            /\ Top = stack[n]
        BY <2>1, TopTyped DEF MroTypeOK, Top
      <3>2. ASSUME NEW call, stack' = Append(stack, call) PROVE stack' # <<>> /\ stack'[1].class = stack[1].class
        BY <3>1, <3>2
      <3>3. ASSUME NEW call, Replace(call), call.class = Top.class
            PROVE  stack' # <<>> /\ stack'[1].class = stack[1].class
        BY <3>1, <3>3 DEF Replace
      <3>4. Top \in Calls
        BY <2>1, TopTyped
      <3>5. CASE VisitBase
        <4>. DEFINE b == Top.bases[Len(Top.given) + 1]
        <4>1. Replace(Receive(Top, <<b>>)) \/ stack' = Append(stack, Call(b))
          BY <3>5 DEF VisitBase
        <4>2. Receive(Top, <<b>>).class = Top.class
          BY <3>4 DEF Receive, Calls
        <4>. HIDE DEF b
        <4>. QED  BY <3>2, <3>3, <4>1, <4>2
      <3>6. CASE MergeNext
        <4>1. PICK i \in Free(Lists(Top)) :
                  LET next == Head(Lists(Top)[i]) IN
                  Replace([Top EXCEPT !.order = Append(@, next),
                                      !.left = [j \in DOMAIN @ |-> Pop(@[j], next)]])
          BY <3>6 DEF MergeNext
        <4>. QED  BY <3>3, <3>4, <4>1 DEF Calls
      <3>7. CASE NoCandidate
        BY <3>3, <3>4, <3>7 DEF NoCandidate, Calls
      <3>8. CASE Spill
        BY <3>3, <3>4, <3>8 DEF Spill, Calls
      <3>. QED  BY <1>6, <3>5, <3>6, <3>7, <3>8
    <2>. QED  BY <1>4, <2>1, <2>3, <2>4
  <1>7. CASE ReturnOrder
    <2>. DEFINE order == <<Top.class>> \o Top.order
    <2>1. /\ stack # <<>> /\ Top \in Calls /\ Return(order) /\ UNCHANGED <<declared, keys, warned>>
          /\ Acyclic(declared) /\ 1 \in DOMAIN stack /\ Len(stack) \in Nat
      BY <1>7, TopTyped DEF ReturnOrder, FirstInv
    <2>2. CASE Len(stack) # 1
      <3>. DEFINE n == Len(stack)
      <3>1. /\ stack' = [i \in 1..(n - 1) |->
                            IF i = n - 1 THEN Receive(stack[i], order) ELSE stack[i]]
            /\ mro' = mro
        BY <2>1, <2>2 DEF Return
      <3>2. n # 1 /\ n \in Nat /\ 1 \in 1..n /\ stack[1] \in Calls
        <4>1. stack \in Seq(Calls) /\ DOMAIN stack = 1..n
          BY LenProperties DEF MroTypeOK
        <4>. QED  BY <2>1, <2>2, <4>1, ElementOfSeq
      <3>3. Receive(stack[1], order).class = stack[1].class
        BY <3>2 DEF Receive, Calls
      <3>. HIDE DEF n, order
      <3>4. 1 \in 1..(n - 1)
        BY <3>2
      <3>5. stack' # <<>> /\ stack'[1].class = stack[1].class
        <4>1. DOMAIN stack' = 1..(n - 1) /\ DOMAIN <<>> = {}
          BY <3>1
        <4>. QED  BY <3>1, <3>3, <3>4, <4>1
      <3>6. RunInv(declared, heritage, stack, visited, warned)
                => RunInv(declared', heritage', stack', visited', warned')
        BY <1>7, <2>1, <2>2, RunReturn
      <3>. QED  BY <1>4, <2>1, <3>1, <3>5, <3>6
    <2>3. CASE Len(stack) = 1
      <3>1. /\ stack' = <<>> /\ mro' = [mro EXCEPT ![Top.class] = order]
            /\ Top.class = stack[1].class /\ Top.class \in Classes
        BY <2>1, <2>3 DEF Return, Top, Calls
      <3>2. order \in Seq(Classes) /\ order # <<>>
        BY <2>1, ClassInFront DEF Calls
      <3>3. Top.class \notin Computed
        BY <2>1, <3>1 DEF FirstInv
      <3>4. ASSUME Computed = {}
            PROVE  Top.class = keys[1] /\ (Top.class \notin warned => Linear(order, Top.class))
        BY <1>7, <2>1, <2>3, <3>1, <3>4, FirstReturns DEF FirstInv
      <3>. HIDE DEF order
      <3>. QED  BY <1>3, <2>1, <3>1, <3>2, <3>3, <3>4
    <2>. QED  BY <2>2, <2>3
  <1>8. CASE UNCHANGED mroVars
    <2>1. FirstIsLinear' /\ Computed' = Computed
      BY <1>2, <1>8 DEF mroVars
    <2>. QED  BY <1>8, <2>1 DEF mroVars, FirstInv
  <1>. QED
    BY <1>1, <1>5, <1>6, <1>7, <1>8 DEF MroNext

(* The class compute_mro takes first gets a linear order, unless a warning *)
(* was logged for it, whatever the hierarchy: every ancestor is expanded   *)
(* once, and every later merge keeps its place (mro.py:58-68).             *)
THEOREM FirstGetsLinearOrder == MroSpec => []FirstIsLinear
  <1>1. MroInit => FirstInv
    <2>1. ASSUME MroInit PROVE Computed = {} /\ First = {} /\ Acyclic(declared)
      <3>1. IsInjective(<<>>) /\ Range(<<>>) = {}
        BY DEF IsInjective, Range
      <3>. QED  BY <2>1, <3>1 DEF MroInit, Computed, First, Acyclic
    <2>. QED  BY <2>1 DEF MroInit, FirstInv, FirstIsLinear
  <1>2. MroInit => CallsInv(stack, heritage, visited)
    BY DEF MroInit, CallsInv
  <1>3. MroTypeOK /\ MroTypeOK' /\ CallsInv(stack, heritage, visited) /\ FirstInv /\ [MroNext]_mroVars
            => CallsInv(stack, heritage, visited)' /\ FirstInv'
    BY CallsInvStep, FirstInvStep
  <1>4. FirstInv => FirstIsLinear
    BY DEF FirstInv
  <1>. QED
    BY <1>1, <1>2, <1>3, <1>4, MroTypeCorrect, PTL DEF MroSpec
=============================================================================
