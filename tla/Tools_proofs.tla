----------------------------- MODULE Tools_proofs -----------------------------
(***************************************************************************)
(* Theorems about SharedServer, for any number of launchers, Refactor, for *)
(* any paths, names and trees, and about the instance that checks the two  *)
(* together with Mro.                                                      *)
(***************************************************************************)
EXTENDS MCTools, Mro_proofs

-----------------------------------------------------------------------------
(* Type correctness.                                                       *)

\* The program points of a client.
Points == {"off", "attached", "leave", "gone"} \cup Ensuring \cup Waiting

\* A move of a client keeps the types of what it changes.
LEMMA GotoTyped ==
  ASSUME SharedServerTypeOK, NEW p \in Clients, NEW l \in Points, Goto(p, l)
  PROVE  /\ pc' \in [Clients -> Points]
         /\ existing' \in [Clients -> Nat]
  <1>1. pc' \in [Clients -> Points]
    BY DEF SharedServerTypeOK, Goto, Points
  <1>2. (IF l = "probe" THEN refs ELSE 0) \in Nat
    BY DEF SharedServerTypeOK
  <1>3. existing' \in [Clients -> Nat]
    BY <1>2 DEF SharedServerTypeOK, Goto
  <1>. QED
    BY <1>1, <1>3

(* Every variable of the launchers keeps its type.                         *)
THEOREM SharedServerTypeCorrect == SharedServerSpec => []SharedServerTypeOK
  <1>1. SharedServerInit => SharedServerTypeOK
    <2>. SUFFICES ASSUME SharedServerInit
                  PROVE  SharedServerTypeOK
      OBVIOUS
    <2>1. pc \in [Clients -> Points] /\ existing \in [Clients -> Nat]
      BY DEF SharedServerInit, Points
    <2>2. /\ lock \in Clients \cup {NoClient} /\ lockOld \in BOOLEAN /\ refs \in Nat
          /\ server \in [Clients -> {"none", "starting", "up", "stopping", "exited"}]
          /\ troubles \subseteq {"stale", "server"}
      BY DEF SharedServerInit
    <2>. QED
      BY <2>1, <2>2 DEF SharedServerTypeOK, Points
  <1>2. SharedServerTypeOK /\ [SharedServerNext]_sharedServerVars => SharedServerTypeOK'
    <2>. SUFFICES ASSUME SharedServerTypeOK, [SharedServerNext]_sharedServerVars
                  PROVE  SharedServerTypeOK'
      OBVIOUS
    <2>. DEFINE Server == [Clients -> {"none", "starting", "up", "stopping", "exited"}]
                Rest == /\ lock' \in Clients \cup {NoClient} /\ lockOld' \in BOOLEAN
                        /\ refs' \in Nat /\ server' \in Server
                        /\ troubles' \subseteq {"stale", "server"}
    <2>0. ASSUME NEW p \in Clients, NEW l \in Points, Goto(p, l), Rest
          PROVE  SharedServerTypeOK'
      BY <2>0, GotoTyped DEF SharedServerTypeOK, Points
    <2>1. ASSUME NEW p \in Clients, Launch(p) \/ Terminate(p) \/ Kill(p)
          PROVE  SharedServerTypeOK'
      <3>1. Rest
        BY <2>1 DEF Launch, Terminate, Kill, SharedServerTypeOK
      <3>2. Goto(p, "acquire") \/ Goto(p, "leaving") \/ Goto(p, "gone")
        BY <2>1 DEF Launch, Terminate, Kill
      <3>. QED
        BY <3>1, <3>2, <2>0 DEF Points, Waiting
    <2>2. ASSUME NEW p \in Clients, Acquire(p) \/ FindStale(p) \/ Break(p) \/ GiveUp(p)
          PROVE  SharedServerTypeOK'
      <3>1. Rest
        <4>1. CASE Acquire(p)
          BY <4>1 DEF Acquire, SharedServerTypeOK
        <4>2. CASE Break(p)
          BY <4>2 DEF Break, SharedServerTypeOK
        <4>3. CASE FindStale(p) \/ GiveUp(p)
          BY <4>3 DEF FindStale, GiveUp, SharedServerTypeOK
        <4>. QED
          BY <2>2, <4>1, <4>2, <4>3
      <3>2. \E l \in {"held", "leave", "gone"} \cup Waiting : Goto(p, l)
        BY <2>2 DEF Acquire, FindStale, Break, GiveUp, Waiting
      <3>. QED
        BY <3>1, <3>2, <2>0 DEF Points, Ensuring
    <2>3. ASSUME NEW p \in Clients, ReadState(p) \/ ProbeFails(p) \/ Spawn(p) \/ NotReady(p)
          PROVE  SharedServerTypeOK'
      <3>1. Rest
        <4>1. CASE ReadState(p) \/ NotReady(p)
          BY <4>1 DEF ReadState, NotReady, Release, SharedServerTypeOK
        <4>2. CASE ProbeFails(p)
          BY <4>2 DEF ProbeFails, Unheard, SharedServerTypeOK
        <4>3. CASE Spawn(p)
          BY <4>3 DEF Spawn, Unheard, SharedServerTypeOK
        <4>. QED
          BY <2>3, <4>1, <4>2, <4>3
      <3>2. \E l \in Ensuring \cup {"gone"} : Goto(p, l)
        BY <2>3 DEF ReadState, ProbeFails, Spawn, NotReady, Ensuring
      <3>. QED
        BY <3>1, <3>2, <2>0 DEF Points
    <2>4. ASSUME NEW p \in Clients, JoinExisting(p) \/ JoinPort(p) \/ Ready(p)
          PROVE  SharedServerTypeOK'
      <3>1. existing[p] + 1 \in Nat /\ refs \in Nat /\ 1 \in Nat
        BY DEF SharedServerTypeOK
      <3>2. PICK count \in Nat : Join(p, count)
        BY <2>4, <3>1 DEF JoinExisting, JoinPort, Ready
      <3>3. Rest
        BY <3>2 DEF Join, Release, SharedServerTypeOK
      <3>4. Goto(p, "attached")
        BY <3>2 DEF Join
      <3>. QED
        BY <3>3, <3>4, <2>0 DEF Points
    <2>5. ASSUME NEW p \in Clients, Leave(p)
          PROVE  SharedServerTypeOK'
      <3>1. Decremented \in Nat
        BY DEF Decremented, SharedServerTypeOK
      <3>2. Rest
        BY <2>5, <3>1 DEF Leave, Release, SharedServerTypeOK
      <3>. QED
        BY <2>5, <3>2, <2>0 DEF Leave, Points
    <2>6. ASSUME NEW s \in Clients, Bind(s) \/ Stopped(s) \/ ServerFails(s)
          PROVE  SharedServerTypeOK'
      BY <2>6 DEF Bind, Stopped, ServerFails, SharedServerTypeOK
    <2>7. CASE LockAges
      BY <2>7 DEF LockAges, SharedServerTypeOK
    <2>8. CASE UNCHANGED sharedServerVars
      BY <2>8 DEF sharedServerVars, SharedServerTypeOK
    <2>. QED
      BY <2>1, <2>2, <2>3, <2>4, <2>5, <2>6, <2>7, <2>8 DEF SharedServerNext, ClientStep
  <1>. QED
    BY <1>1, <1>2, PTL DEF SharedServerSpec

-----------------------------------------------------------------------------
(* The lock file.                                                          *)

\* The invariant is inductive beside the type: who is inside owns the file, so
\* nobody else enters and whoever leaves removes the own file.
LEMMA LockExcludesStep ==
  ASSUME SharedServerTypeOK, LockExcludes, [SharedServerNext]_sharedServerVars
  PROVE  LockExcludes'
  <1>. USE DEF SharedServerTypeOK, LockExcludes, Holders, Ensuring, Goto
  <1>1. ASSUME NEW p \in Clients, Acquire(p)
        PROVE  LockExcludes'
    BY <1>1, SharedServerAssumption DEF Acquire
  <1>2. ASSUME NEW p \in Clients, Launch(p) \/ FindStale(p) \/ GiveUp(p) \/ Terminate(p) \/ Kill(p)
        PROVE  LockExcludes'
    BY <1>2 DEF Launch, FindStale, GiveUp, Terminate, Kill
  <1>3. ASSUME NEW p \in Clients, Break(p)
        PROVE  LockExcludes'
    BY <1>3 DEF Break
  <1>4. ASSUME NEW p \in Clients, ReadState(p) \/ ProbeFails(p) \/ Spawn(p)
        PROVE  LockExcludes'
    BY <1>4 DEF ReadState, ProbeFails, Spawn, Unheard
  <1>5. ASSUME NEW p \in Clients,
               JoinExisting(p) \/ JoinPort(p) \/ Ready(p) \/ NotReady(p) \/ Leave(p)
        PROVE  LockExcludes'
    BY <1>5 DEF JoinExisting, JoinPort, Ready, NotReady, Leave, Join, Release
  <1>6. ASSUME NEW s \in Clients, Bind(s) \/ Stopped(s) \/ ServerFails(s)
        PROVE  LockExcludes'
    BY <1>6 DEF Bind, Stopped, ServerFails
  <1>7. CASE LockAges
    BY <1>7 DEF LockAges
  <1>8. CASE UNCHANGED sharedServerVars
    BY <1>8 DEF sharedServerVars
  <1>. QED
    BY <1>1, <1>2, <1>3, <1>4, <1>5, <1>6, <1>7, <1>8 DEF SharedServerNext, ClientStep

(* While no lock was broken as stale, whoever is inside owns the file.     *)
THEOREM LockFileExcludes == SharedServerSpec => []LockExcludes
  <1>1. SharedServerInit => LockExcludes
    BY DEF SharedServerInit, LockExcludes, Holders, Ensuring
  <1>. QED
    BY <1>1, SharedServerTypeCorrect, LockExcludesStep, PTL DEF SharedServerSpec

-----------------------------------------------------------------------------
(* The reference count.                                                    *)

\* Whom the count stands for: the attached, and those who were and wait for the
\* lock or are about to be subtracted.  A client that a signal took out of
\* ensureServer waits for its own lock file and was never counted.
Counted ==
    {p \in Clients : \/ pc[p] \in {"attached", "leave"}
                     \/ pc[p] \in {"leaving", "breakLeaving"} /\ lock # p}

\* While nothing went wrong the count covers them and their server is up; the
\* snapshot of a probe is current, and a client that has seen no server holds
\* the lock while nobody is counted.
CountInv ==
    troubles = {} =>
        /\ refs >= Cardinality(Counted)
        /\ Counted # {} => Up
        /\ \A p \in Clients :
              /\ pc[p] = "probe" => existing[p] = refs
              /\ pc[p] \in {"port", "await"} => Counted = {}
              /\ pc[p] = "await" => refs >= 1

LEMMA CountedFinite ==
  /\ IsFiniteSet(Counted) /\ Cardinality(Counted) \in Nat
  /\ Cardinality(Counted) = 0 <=> Counted = {}
  BY SharedServerAssumption, FS_Subset, FS_CardinalityType, FS_EmptySet DEF Counted

\* Steps that neither count anyone nor change the count.
LEMMA FewerCounted ==
  ASSUME SharedServerTypeOK, LockExcludes, CountInv,
         troubles' = {} => (troubles = {} /\ Counted' \subseteq Counted /\ refs' = refs
                            /\ (Up => Up')
                            /\ \A p \in Clients :
                                  /\ pc'[p] = "probe" => existing'[p] = refs'
                                  /\ pc'[p] \in {"port", "await"} =>
                                        Counted' = {} /\ (pc'[p] = "await" => refs' >= 1))
  PROVE  CountInv'
  <1>. SUFFICES ASSUME troubles' = {}
                PROVE  CountInv'
    BY DEF CountInv
  <1>1. Cardinality(Counted') <= Cardinality(Counted)
    BY CountedFinite, FS_Subset
  <1>2. Cardinality(Counted') \in Nat
    BY CountedFinite, FS_Subset, FS_CardinalityType
  <1>. QED
    BY <1>1, <1>2, CountedFinite DEF CountInv, SharedServerTypeOK

\* While no lock was broken there is one holder at most.
LEMMA OneHolder ==
  ASSUME LockExcludes, troubles = {}, NEW p \in Holders
  PROVE  /\ lock = p
         /\ \A q \in Clients : pc[q] \in {"held", "probe", "port", "await", "leave"} => q = p
  BY DEF LockExcludes, Holders, Ensuring

\* Steps in which nobody looks for the server, attaches or leaves.
LEMMA QuietStepsCount ==
  ASSUME SharedServerTypeOK, LockExcludes, CountInv, NEW p \in Clients,
         \/ Launch(p) \/ FindStale(p) \/ Break(p) \/ GiveUp(p) \/ Kill(p)
         \/ Acquire(p) \/ Bind(p) \/ Stopped(p) \/ ServerFails(p) \/ LockAges
         \/ UNCHANGED sharedServerVars
  PROVE  CountInv'
  <1>. USE DEF SharedServerTypeOK, CountInv, Counted, Goto
  <1>1. CASE Launch(p) \/ FindStale(p) \/ GiveUp(p) \/ Kill(p)
    <2>1. /\ troubles' = troubles /\ refs' = refs /\ Up' = Up
          /\ Counted' \subseteq Counted
      BY <1>1 DEF Launch, FindStale, GiveUp, Kill, Up
    <2>2. \A q \in Clients :
             pc'[q] \in {"probe", "port", "await"} => pc'[q] = pc[q] /\ existing'[q] = existing[q]
      BY <1>1 DEF Launch, FindStale, GiveUp, Kill
    <2>. QED
      BY <2>1, <2>2, FewerCounted
  <1>2. CASE Break(p) \/ ServerFails(p)
    BY <1>2 DEF Break, ServerFails
  <1>3. CASE Acquire(p)
    <2>1. /\ troubles' = troubles /\ refs' = refs /\ Up' = Up
          /\ Counted' \subseteq Counted
      BY <1>3, SharedServerAssumption DEF Acquire, Up
    <2>2. \A q \in Clients :
             pc'[q] \in {"probe", "port", "await"} => pc'[q] = pc[q] /\ existing'[q] = existing[q]
      BY <1>3 DEF Acquire
    <2>. QED
      BY <2>1, <2>2, FewerCounted
  <1>4. CASE Bind(p) \/ Stopped(p)
    <2>1. /\ troubles' = troubles /\ refs' = refs /\ Counted' = Counted
          /\ pc' = pc /\ existing' = existing
      BY <1>4 DEF Bind, Stopped
    <2>2. Up => Up'
      BY <1>4 DEF Bind, Stopped, Up
    <2>. QED
      BY <2>1, <2>2, FewerCounted
  <1>5. CASE LockAges \/ UNCHANGED sharedServerVars
    <2>1. /\ troubles' = troubles /\ refs' = refs /\ Counted' = Counted
          /\ pc' = pc /\ existing' = existing /\ Up' = Up
      BY <1>5 DEF LockAges, sharedServerVars, Up
    <2>. QED
      BY <2>1, FewerCounted
  <1>. QED
    BY <1>1, <1>2, <1>3, <1>4, <1>5

\* The holder looks for the server.
LEMMA ProbingCounts ==
  ASSUME SharedServerTypeOK, LockExcludes, CountInv, NEW p \in Clients,
         ReadState(p) \/ ProbeFails(p) \/ NotReady(p) \/ Spawn(p)
  PROVE  CountInv'
  <1>. SUFFICES ASSUME troubles' = {}
                PROVE  CountInv'
    BY DEF CountInv
  <1>0. /\ troubles = {} /\ p \in Holders
    BY DEF ReadState, ProbeFails, NotReady, Spawn, Unheard, Holders, Ensuring, SharedServerTypeOK
  <1>1. /\ lock = p
        /\ \A q \in Clients : pc[q] \in {"held", "probe", "port", "await", "leave"} => q = p
    BY <1>0, OneHolder
  <1>2. Counted' \subseteq Counted
    BY <1>1 DEF Counted, ReadState, ProbeFails, NotReady, Spawn, Goto, SharedServerTypeOK
  <1>3. \A q \in Clients \ {p} : pc'[q] = pc[q]
    BY DEF ReadState, ProbeFails, NotReady, Spawn, Goto, SharedServerTypeOK
  <1>4. CASE ReadState(p)
    <2>1. /\ refs' = refs /\ Up' = Up
      BY <1>4 DEF ReadState, Up
    <2>2. pc'[p] = (IF refs = 0 THEN "port" ELSE "probe")
      BY <1>4 DEF ReadState, Goto, SharedServerTypeOK
    <2>3. pc'[p] = "probe" => existing'[p] = refs
      BY <1>4, <2>2 DEF ReadState, Goto, SharedServerTypeOK
    <2>4. refs = 0 => Counted = {}
      BY <1>0, CountedFinite DEF CountInv, SharedServerTypeOK
    <2>. QED
      BY <1>0, <1>1, <1>2, <1>3, <2>1, <2>2, <2>3, <2>4, FewerCounted
  <1>5. CASE ProbeFails(p)
    <2>1. /\ refs' = refs /\ Up' = Up /\ pc'[p] = "port"
      BY <1>5 DEF ProbeFails, Up, Goto, SharedServerTypeOK
    <2>2. ~Up
      BY <1>5 DEF ProbeFails, Unheard
    <2>3. Counted = {}
      BY <1>0, <2>2 DEF CountInv
    <2>. QED
      BY <1>0, <1>1, <1>2, <1>3, <2>1, <2>3, FewerCounted
  <1>6. CASE NotReady(p)
    <2>1. /\ refs' = refs /\ Up' = Up /\ pc'[p] = "gone"
      BY <1>6 DEF NotReady, Up, Goto, SharedServerTypeOK
    <2>. QED
      BY <1>0, <1>1, <1>2, <1>3, <2>1, FewerCounted
  <1>7. CASE Spawn(p)
    <2>1. Counted' = {}
      BY <1>0, <1>2, <1>7 DEF Spawn, CountInv
    <2>2. Cardinality(Counted') = 0
      BY <2>1, FS_EmptySet
    <2>3. refs' = 1 /\ pc'[p] = "await"
      BY <1>7 DEF Spawn, Goto, SharedServerTypeOK
    <2>. QED
      BY <1>1, <1>3, <2>1, <2>2, <2>3 DEF CountInv
  <1>. QED
    BY <1>4, <1>5, <1>6, <1>7

\* The holder attaches itself and is counted.
LEMMA JoiningCounts ==
  ASSUME SharedServerTypeOK, LockExcludes, CountInv, NEW p \in Clients,
         JoinExisting(p) \/ JoinPort(p) \/ Ready(p)
  PROVE  CountInv'
  <1>. SUFFICES ASSUME troubles' = {}
                PROVE  CountInv'
    BY DEF CountInv
  <1>0. /\ troubles = {} /\ p \in Holders /\ Up /\ Up' = Up
    <2>1. troubles' = (IF Up THEN troubles ELSE troubles \cup {"server"}) /\ server' = server
      BY DEF JoinExisting, JoinPort, Ready, Join
    <2>2. troubles = {} /\ Up
      BY <2>1 DEF SharedServerTypeOK
    <2>3. Up' = Up
      BY <2>1 DEF Up
    <2>4. p \in Holders
      BY DEF JoinExisting, JoinPort, Ready, Holders, Ensuring
    <2>. QED
      BY <2>2, <2>3, <2>4
  <1>1. /\ lock = p
        /\ \A q \in Clients : pc[q] \in {"held", "probe", "port", "await", "leave"} => q = p
    BY <1>0, OneHolder
  <1>2. /\ \A q \in Clients \ {p} : pc'[q] = pc[q]
        /\ pc'[p] = "attached"
    BY DEF JoinExisting, JoinPort, Ready, Join, Goto, SharedServerTypeOK
  <1>3. Counted' \subseteq Counted \cup {p}
    BY <1>1, <1>2 DEF Counted
  <1>4. p \notin Counted
    BY <1>1 DEF Counted, JoinExisting, JoinPort, Ready
  <1>5. /\ IsFiniteSet(Counted \cup {p})
        /\ Cardinality(Counted \cup {p}) = Cardinality(Counted) + 1
    BY <1>4, CountedFinite, FS_AddElement
  <1>6. /\ Cardinality(Counted') <= Cardinality(Counted) + 1
        /\ Cardinality(Counted') \in Nat
    BY <1>3, <1>5, FS_Subset, FS_CardinalityType
  <1>7. refs' >= Cardinality(Counted) + 1
    <2>1. CASE JoinExisting(p)
      <3>1. refs' = refs + 1
        BY <1>0, <2>1 DEF JoinExisting, Join, CountInv
      <3>. QED
        BY <1>0, <3>1, CountedFinite DEF CountInv, SharedServerTypeOK
    <2>2. CASE JoinPort(p)
      <3>1. refs' = 1 /\ Counted = {}
        BY <1>0, <2>2 DEF JoinPort, Join, CountInv
      <3>. QED
        BY <3>1, CountedFinite
    <2>3. CASE Ready(p)
      <3>1. refs' = refs /\ refs >= 1 /\ Counted = {}
        BY <1>0, <2>3 DEF Ready, Join, CountInv
      <3>. QED
        BY <3>1, CountedFinite DEF SharedServerTypeOK
    <2>. QED
      BY <2>1, <2>2, <2>3
  <1>8. refs' \in Nat
    BY DEF JoinExisting, JoinPort, Ready, Join, SharedServerTypeOK
  <1>9. refs' >= Cardinality(Counted')
    BY <1>6, <1>7, <1>8, CountedFinite
  <1>. QED
    BY <1>0, <1>1, <1>2, <1>9 DEF CountInv

\* A client that leaves takes its own reference.
LEMMA LeavingCounts ==
  ASSUME SharedServerTypeOK, LockExcludes, CountInv, NEW p \in Clients, Leave(p)
  PROVE  CountInv'
  <1>. SUFFICES ASSUME troubles' = {}
                PROVE  CountInv'
    BY DEF CountInv
  <1>0. /\ troubles = {} /\ p \in Holders /\ p \in Counted
    BY DEF Leave, Holders, Counted
  <1>1. /\ lock = p
        /\ \A q \in Clients : pc[q] \in {"held", "probe", "port", "await", "leave"} => q = p
    BY <1>0, OneHolder
  <1>2. /\ \A q \in Clients \ {p} : pc'[q] = pc[q]
        /\ pc'[p] = "gone"
    BY DEF Leave, Goto, SharedServerTypeOK
  <1>3. Counted' \subseteq Counted \ {p}
    BY <1>1, <1>2 DEF Counted
  <1>4. /\ IsFiniteSet(Counted \ {p})
        /\ Cardinality(Counted \ {p}) = Cardinality(Counted) - 1
    BY <1>0, CountedFinite, FS_RemoveElement
  <1>5. /\ Cardinality(Counted') <= Cardinality(Counted) - 1
        /\ Cardinality(Counted') \in Nat
        /\ Cardinality(Counted') = 0 => Counted' = {}
    BY <1>3, <1>4, FS_Subset, FS_CardinalityType, FS_EmptySet
  <1>6. refs >= Cardinality(Counted) /\ refs > 0 /\ refs' = refs - 1
    <2>1. refs >= Cardinality(Counted)
      BY <1>0 DEF CountInv
    <2>2. refs > 0
      BY <1>5, <2>1, CountedFinite DEF SharedServerTypeOK
    <2>. QED
      BY <2>1, <2>2 DEF Leave, Decremented
  <1>7. refs' >= Cardinality(Counted')
    BY <1>5, <1>6, CountedFinite DEF SharedServerTypeOK
  <1>8. Counted' # {} => Up'
    <2>. SUFFICES ASSUME Counted' # {}
                  PROVE  Up'
      OBVIOUS
    <2>1. refs # 1
      BY <1>5, <1>6, CountedFinite DEF SharedServerTypeOK
    <2>2. server' = server
      BY <2>1 DEF Leave
    <2>3. Counted # {}
      BY <1>0
    <2>. QED
      BY <1>0, <2>2, <2>3 DEF CountInv, Up
  <1>. QED
    BY <1>1, <1>2, <1>7, <1>8 DEF CountInv

\* A signal takes a client out of the server's use, or out of ensureServer.
LEMMA TerminatingCounts ==
  ASSUME SharedServerTypeOK, LockExcludes, CountInv, NEW p \in Clients, Terminate(p)
  PROVE  CountInv'
  <1>. SUFFICES ASSUME troubles' = {}
                PROVE  CountInv'
    BY DEF CountInv
  <1>1. /\ troubles = {} /\ refs' = refs /\ Up' = Up /\ lock' = lock
    BY DEF Terminate, Up
  <1>2. /\ \A q \in Clients \ {p} : pc'[q] = pc[q] /\ existing'[q] = existing[q]
        /\ pc'[p] = "leaving"
    BY DEF Terminate, Goto, SharedServerTypeOK
  <1>3. pc[p] = "attached" \/ lock = p
    BY <1>1 DEF Terminate, LockExcludes, Holders, Ensuring
  <1>4. Counted' \subseteq Counted
    BY <1>1, <1>2, <1>3 DEF Counted
  <1>. QED
    BY <1>1, <1>2, <1>4, FewerCounted DEF CountInv

\* The count's invariant holds always.
LEMMA CountInvariant == SharedServerSpec => []CountInv
  <1>1. SharedServerInit => CountInv
    <2>1. SharedServerInit => Counted = {}
      BY DEF SharedServerInit, Counted
    <2>2. Cardinality({}) = 0
      BY FS_EmptySet
    <2>. QED
      BY <2>1, <2>2 DEF SharedServerInit, CountInv
  <1>2. ASSUME SharedServerTypeOK, LockExcludes, CountInv, [SharedServerNext]_sharedServerVars
        PROVE  CountInv'
    <2>1. ASSUME NEW p \in Clients, ClientStep(p)
          PROVE  CountInv'
      BY <1>2, <2>1, QuietStepsCount, ProbingCounts, JoiningCounts, LeavingCounts DEF ClientStep
    <2>2. ASSUME NEW p \in Clients,
                 \/ Launch(p) \/ Terminate(p) \/ Kill(p) \/ Bind(p) \/ Stopped(p)
                 \/ ServerFails(p)
          PROVE  CountInv'
      BY <1>2, <2>2, QuietStepsCount, TerminatingCounts
    <2>3. CASE LockAges \/ UNCHANGED sharedServerVars
      <3>1. CASE Clients = {}
        BY <1>2, <2>3, <3>1 DEF CountInv, Counted, LockAges, sharedServerVars
      <3>2. CASE Clients # {}
        BY <1>2, <2>3, <3>2, QuietStepsCount
      <3>. QED
        BY <3>1, <3>2
    <2>. QED
      BY <1>2, <2>1, <2>2, <2>3 DEF SharedServerNext
  <1>. QED
    BY <1>1, <1>2, SharedServerTypeCorrect, LockFileExcludes, PTL DEF SharedServerSpec

(* While no lock was broken, the server neither failed nor missed a probe  *)
(* and nobody joined one that was stopping, the count covers everyone      *)
(* attached and their server is up.                                        *)
THEOREM CountCovers == SharedServerSpec => []CountCoversAttached
  <1>1. SharedServerTypeOK /\ CountInv => CountCoversAttached
    <2>. SUFFICES ASSUME SharedServerTypeOK, CountInv, troubles = {}, Attached # {}
                  PROVE  Up /\ refs >= Cardinality(Attached)
      BY DEF CountCoversAttached
    <2>1. Attached \subseteq Counted
      BY DEF Attached, Counted
    <2>2. /\ Cardinality(Attached) <= Cardinality(Counted)
          /\ Cardinality(Attached) \in Nat
      BY <2>1, CountedFinite, FS_Subset, FS_CardinalityType
    <2>. QED
      BY <2>1, <2>2, CountedFinite DEF CountInv, SharedServerTypeOK
  <1>. QED
    BY <1>1, SharedServerTypeCorrect, CountInvariant, PTL

-----------------------------------------------------------------------------
(* The session.                                                            *)

\* One server answers the port, and a launcher that may still spawn one has
\* none: it does not lose sight of a server that runs.
OneServer ==
    /\ \A s, t \in Clients :
          server[s] \in {"up", "stopping"} /\ server[t] \in {"up", "stopping"} => s = t
    /\ \A p \in Clients :
          pc[p] \in {"off", "acquire", "break", "held", "probe", "port"} => server[p] = "none"

LEMMA OneServerStep ==
  ASSUME SharedServerTypeOK, OneServer, [SharedServerNext]_sharedServerVars
  PROVE  OneServer'
  <1>. USE DEF SharedServerTypeOK, OneServer, Goto
  <1>1. ASSUME NEW p \in Clients,
               \/ Launch(p) \/ Acquire(p) \/ FindStale(p) \/ Break(p) \/ GiveUp(p) \/ ReadState(p)
               \/ ProbeFails(p) \/ NotReady(p) \/ Terminate(p) \/ Kill(p)
        PROVE  OneServer'
    <2>1. server' = server
      BY <1>1 DEF Launch, Acquire, FindStale, Break, GiveUp, ReadState, ProbeFails, NotReady,
                  Terminate, Kill
    <2>2. /\ \A q \in Clients \ {p} : pc'[q] = pc[q]
          /\ pc'[p] \in {"acquire", "break", "held", "probe", "port"} =>
                pc[p] \in {"off", "acquire", "break", "held", "probe"}
      BY <1>1 DEF Launch, Acquire, FindStale, Break, GiveUp, ReadState, ProbeFails, NotReady,
                  Terminate, Kill
    <2>3. pc'[p] # "off"
      BY <1>1 DEF Launch, Acquire, FindStale, Break, GiveUp, ReadState, ProbeFails, NotReady,
                  Terminate, Kill
    <2>. QED
      BY <2>1, <2>2, <2>3
  <1>2. ASSUME NEW p \in Clients, JoinExisting(p) \/ JoinPort(p) \/ Ready(p)
        PROVE  OneServer'
    BY <1>2 DEF JoinExisting, JoinPort, Ready, Join
  <1>3. ASSUME NEW p \in Clients, Spawn(p) \/ Leave(p)
        PROVE  OneServer'
    BY <1>3 DEF Spawn, Leave
  <1>4. ASSUME NEW s \in Clients, Bind(s)
        PROVE  OneServer'
    BY <1>4 DEF Bind, Answering
  <1>5. ASSUME NEW s \in Clients, Stopped(s) \/ ServerFails(s)
        PROVE  OneServer'
    BY <1>5 DEF Stopped, ServerFails
  <1>6. CASE LockAges \/ UNCHANGED sharedServerVars
    BY <1>6 DEF LockAges, sharedServerVars
  <1>. QED
    BY <1>1, <1>2, <1>3, <1>4, <1>5, <1>6 DEF SharedServerNext, ClientStep

\* The server of the session.
Host == IF Up THEN CHOOSE s \in Clients : server[s] = "up" ELSE NoClient

LEMMA HostAnswers ==
  ASSUME OneServer
  PROVE  /\ \A s \in Clients : server[s] = "up" => Host = s
         /\ Host = NoClient <=> ~Up
  BY SharedServerAssumption DEF OneServer, Host, Up

LEMMA HostAnswersNext ==
  ASSUME OneServer'
  PROVE  /\ \A s \in Clients : server'[s] = "up" => Host' = s
         /\ Host' = NoClient <=> ~Up'
  BY SharedServerAssumption DEF OneServer, Host, Up

\* What is to be shown of a step: the abstract one, with Host for its server.
SessionStep ==
    \/ Attached' = Attached /\ Host' = Host
    \/ Host = NoClient /\ Attached = {} /\ Attached' = Attached /\ (\E s \in Clients : Host' = s)
    \/ Host # NoClient /\ Host' = Host /\ (\E u \in Clients : Attached' = Attached \cup {u})
    \/ Host' = Host /\ (\E u \in Attached : Attached' = Attached \ {u})
    \/ Attached = {} /\ Attached' = Attached /\ Host' = NoClient

LEMMA SessionStepIsStep ==
  ASSUME SessionStep
  PROVE  Session!Step
  <1>. USE DEF Session!Step, Session!Next, Session!Open, Session!Join, Session!Depart,
               Session!Close, Host, Attached
  <1>1. Attached \subseteq Clients
    OBVIOUS
  <1>. HIDE DEF Attached, Host
  <1>. QED
    BY <1>1 DEF SessionStep, Host

\* Steps that leave the servers alone.
LEMMA ClientsKeepSession ==
  ASSUME SharedServerTypeOK, OneServer, NEW p \in Clients,
         \/ Launch(p) \/ Acquire(p) \/ FindStale(p) \/ Break(p) \/ GiveUp(p) \/ ReadState(p)
         \/ ProbeFails(p) \/ NotReady(p) \/ Terminate(p) \/ Kill(p)
         \/ JoinExisting(p) \/ JoinPort(p) \/ Ready(p),
         troubles' = {}
  PROVE  SessionStep
  <1>. USE DEF SharedServerTypeOK, Goto, Attached
  <1>1. Host' = Host
    <2>1. server' = server
      BY DEF Launch, Acquire, FindStale, Break, GiveUp, ReadState, ProbeFails, NotReady,
             Terminate, Kill, JoinExisting, JoinPort, Ready, Join
    <2>. QED
      BY <2>1 DEF Host, Up
  <1>2. CASE \/ Launch(p) \/ Acquire(p) \/ FindStale(p) \/ Break(p) \/ GiveUp(p) \/ ReadState(p)
             \/ ProbeFails(p) \/ NotReady(p)
    <2>1. Attached' = Attached
      BY <1>2 DEF Launch, Acquire, FindStale, Break, GiveUp, ReadState, ProbeFails, NotReady
    <2>. QED
      BY <1>1, <2>1 DEF SessionStep
  <1>3. CASE Terminate(p) \/ Kill(p)
    <2>1. Attached' = Attached \ {p}
      BY <1>3 DEF Terminate, Kill
    <2>2. p \notin Attached => Attached' = Attached
      BY <2>1
    <2>. QED
      BY <1>1, <2>1, <2>2 DEF SessionStep
  <1>4. CASE JoinExisting(p) \/ JoinPort(p) \/ Ready(p)
    <2>1. Attached' = Attached \cup {p}
      BY <1>4 DEF JoinExisting, JoinPort, Ready, Join
    <2>2. Up
      BY <1>4 DEF JoinExisting, JoinPort, Ready, Join
    <2>3. Host # NoClient
      BY <2>2, HostAnswers
    <2>. QED
      BY <1>1, <2>1, <2>3 DEF SessionStep
  <1>. QED
    BY <1>2, <1>3, <1>4

\* A server that is spawned or bound, or has shut down.
LEMMA ServersKeepSession ==
  ASSUME SharedServerTypeOK, OneServer, OneServer', CountCoversAttached,
         NEW p \in Clients, Spawn(p) \/ Bind(p) \/ Stopped(p), troubles' = {}
  PROVE  SessionStep
  <1>1. Attached' = Attached
    BY DEF Spawn, Bind, Stopped, Goto, SharedServerTypeOK, Attached
  <1>2. \A s \in Clients : server[s] = "up" => server'[s] = "up"
    BY DEF Spawn, Bind, Stopped, OneServer, SharedServerTypeOK
  <1>3. CASE Up
    <2>1. PICK s \in Clients : server[s] = "up"
      BY <1>3 DEF Up
    <2>2. Host = s /\ Host' = s
      BY <1>2, <2>1, HostAnswers, HostAnswersNext
    <2>. QED
      BY <1>1, <2>2 DEF SessionStep
  <1>4. CASE ~Up
    <2>1. troubles = {}
      BY DEF Spawn, Bind, Stopped, Unheard, SharedServerTypeOK
    <2>2. Attached = {} /\ Host = NoClient
      BY <1>4, <2>1, HostAnswers DEF CountCoversAttached
    <2>3. CASE Up'
      <3>1. PICK s \in Clients : server'[s] = "up"
        BY <2>3 DEF Up
      <3>2. Host' = s
        BY <3>1, HostAnswersNext
      <3>. QED
        BY <1>1, <2>2, <3>2 DEF SessionStep
    <2>4. CASE ~Up'
      <3>1. Host' = NoClient
        BY <2>4, HostAnswersNext
      <3>. QED
        BY <1>1, <2>2, <3>1 DEF SessionStep
    <2>. QED
      BY <2>3, <2>4
  <1>. QED
    BY <1>3, <1>4

\* Whoever leaves stops the server only as the last one.
LEMMA LeavingKeepsSession ==
  ASSUME SharedServerTypeOK, OneServer, OneServer', LockExcludes, CountInv,
         NEW p \in Clients, Leave(p), troubles' = {}
  PROVE  SessionStep
  <1>1. Attached' = Attached
    BY DEF Leave, Goto, SharedServerTypeOK, Attached
  <1>2. troubles = {}
    BY DEF Leave
  <1>3. CASE server' = server
    <2>1. Host' = Host
      BY <1>3 DEF Host, Up
    <2>. QED
      BY <1>1, <2>1 DEF SessionStep
  <1>4. CASE server' # server
    <2>1. /\ refs = 1
          /\ server' = [server EXCEPT ![p] = IF server[p] = "up" THEN "stopping" ELSE "exited"]
      BY <1>4 DEF Leave
    <2>2. Cardinality(Counted) <= 1 /\ p \in Counted
      BY <1>2, <2>1 DEF CountInv, Leave, Counted
    <2>3. /\ IsFiniteSet(Counted \ {p})
          /\ Cardinality(Counted \ {p}) = Cardinality(Counted) - 1
      BY <2>2, CountedFinite, FS_RemoveElement
    <2>4. Counted \ {p} = {}
      <3>1. Cardinality(Counted \ {p}) \in Nat
        BY <2>3, FS_CardinalityType
      <3>2. Cardinality(Counted \ {p}) = 0
        BY <2>2, <2>3, <3>1, CountedFinite
      <3>. QED
        BY <2>3, <3>2, FS_EmptySet
    <2>5. Attached = {}
      BY <2>4 DEF Attached, Counted, Leave
    <2>6. CASE Up'
      <3>1. PICK s \in Clients : server'[s] = "up"
        BY <2>6 DEF Up
      <3>2. server[s] = "up"
        BY <2>1, <3>1 DEF SharedServerTypeOK
      <3>3. Host = s /\ Host' = s
        BY <3>1, <3>2, HostAnswers, HostAnswersNext
      <3>. QED
        BY <1>1, <3>3 DEF SessionStep
    <2>7. CASE ~Up'
      BY <1>1, <2>5, <2>7, HostAnswersNext DEF SessionStep
    <2>. QED
      BY <2>6, <2>7
  <1>. QED
    BY <1>3, <1>4

\* Every step is one of the session, or trouble.
LEMMA SharedServerKeepsSession ==
  ASSUME SharedServerTypeOK, OneServer, OneServer', LockExcludes, CountInv, CountCoversAttached,
         [SharedServerNext]_sharedServerVars, troubles' = {}
  PROVE  Session!Step
  <1>1. ASSUME NEW p \in Clients, \/ ClientStep(p) \/ Launch(p) \/ Terminate(p) \/ Kill(p)
                               \/ Bind(p) \/ Stopped(p)
        PROVE  SessionStep
    BY <1>1, ClientsKeepSession, ServersKeepSession, LeavingKeepsSession DEF ClientStep
  <1>2. ASSUME NEW p \in Clients, ServerFails(p)
        PROVE  FALSE
    BY <1>2 DEF ServerFails
  <1>3. ASSUME LockAges \/ UNCHANGED sharedServerVars
        PROVE  SessionStep
    <2>1. server' = server /\ pc' = pc
      BY <1>3 DEF LockAges, sharedServerVars
    <2>2. Attached' = Attached /\ Host' = Host
      BY <2>1 DEF Attached, Host, Up
    <2>. QED
      BY <2>2 DEF SessionStep
  <1>4. SessionStep
    BY <1>1, <1>2, <1>3 DEF SharedServerNext
  <1>. QED
    BY <1>4, SessionStepIsStep

(* The launchers keep a session as long as no lock was broken, the server  *)
(* neither failed nor missed a probe, and nobody joined a stopping one.    *)
THEOREM LaunchersImplementSession == SharedServerSpec => ImplementsSession
  <1>1. SharedServerInit => OneServer
    BY DEF SharedServerInit, OneServer
  <1>2. SharedServerSpec => []OneServer
    BY <1>1, OneServerStep, SharedServerTypeCorrect, PTL DEF SharedServerSpec
  <1>3. /\ SharedServerTypeOK /\ OneServer /\ OneServer' /\ LockExcludes /\ CountInv
        /\ CountCoversAttached /\ [SharedServerNext]_sharedServerVars
        => [troubles' = {} => Session!Step]_sharedServerVars
    BY SharedServerKeepsSession
  <1>. QED
    BY <1>2, <1>3, SharedServerTypeCorrect, LockFileExcludes, CountInvariant, CountCovers, PTL
       DEF SharedServerSpec, ImplementsSession

(* A behaviour without such trouble is one of ServerSession.               *)
THEOREM UntroubledIsSession ==
  SharedServerSpec /\ [](troubles = {}) => Session!Spec
  <1>1. SharedServerInit => Session!Init
    BY DEF SharedServerInit, Session!Init, Attached, Up
  <1>2. /\ troubles = {} /\ (troubles = {})'
        /\ [troubles' = {} => Session!Step]_sharedServerVars
        => [Session!Step]_<<Attached, Host>>
    <2>1. UNCHANGED sharedServerVars => UNCHANGED <<Attached, Host>>
      BY DEF sharedServerVars, Attached, Host, Up
    <2>. QED
      BY <2>1
  <1>. QED
    BY <1>1, <1>2, LaunchersImplementSession, PTL
       DEF SharedServerSpec, ImplementsSession, Session!Spec, Host

(* Refactorings: type correctness. *)

Refactorings ==
    [kind : {"rename", "move", "renameFile"},
     at : {"write", "paste", "commit", "reindex", "done", "killed"},
     src : Paths, dst : Paths, old : Names, new : Names, text : Text,
     todo : SUBSET Paths, touched : SUBSET Paths,
     srcLast : BOOLEAN, sound : BOOLEAN, whole : BOOLEAN]

JobTyped ==
    /\ job = [kind |-> "none", at |-> "done"] \/ job \in Refactorings
    /\ job.at = "paste" => job.kind = "move"

RefTyped == RefactorTypeOK /\ JobTyped

\* A use, and one with another name or place.
LEMMA UseParts ==
    ASSUME NEW u \in Use
    PROVE  /\ u.from \in Paths \cup {Nowhere} /\ u.name \in Names
           /\ u.call \in BOOLEAN /\ u.known \subseteq {"move", "renameFile"}
           /\ \A n \in Names :
                 /\ [u EXCEPT !.name = n] \in Use
                 /\ [u EXCEPT !.name = n].from = u.from /\ [u EXCEPT !.name = n].name = n
                 /\ [u EXCEPT !.name = n].call = u.call /\ [u EXCEPT !.name = n].known = u.known
           /\ \A p \in Paths \cup {Nowhere} :
                 /\ [u EXCEPT !.from = p] \in Use
                 /\ [u EXCEPT !.from = p].from = p /\ [u EXCEPT !.from = p].name = u.name
                 /\ [u EXCEPT !.from = p].call = u.call /\ [u EXCEPT !.from = p].known = u.known
<1>1. /\ u.from \in Paths \cup {Nowhere} /\ u.name \in Names
      /\ u.call \in BOOLEAN /\ u.known \subseteq {"move", "renameFile"}
  BY DEF Use
<1>2. ASSUME NEW n \in Names
      PROVE  /\ [u EXCEPT !.name = n] \in Use
             /\ [u EXCEPT !.name = n].from = u.from /\ [u EXCEPT !.name = n].name = n
             /\ [u EXCEPT !.name = n].call = u.call /\ [u EXCEPT !.name = n].known = u.known
  BY DEF Use
<1>3. ASSUME NEW p \in Paths \cup {Nowhere}
      PROVE  /\ [u EXCEPT !.from = p] \in Use
             /\ [u EXCEPT !.from = p].from = p /\ [u EXCEPT !.from = p].name = u.name
             /\ [u EXCEPT !.from = p].call = u.call /\ [u EXCEPT !.from = p].known = u.known
  BY DEF Use
<1> QED  BY <1>1, <1>2, <1>3

\* What the files of a tree hold.
LEMMA TreeTexts ==
    ASSUME NEW t, IsTree(t)
    PROVE  /\ \A f \in DOMAIN t : f \in Paths /\ t[f] \in Text
           /\ \A f \in DOMAIN t : t[f].defs \subseteq Names /\ t[f].uses \subseteq Use
BY DEF IsTree, Text

\* A tree with one text replaced.
LEMMA TreeUpdate ==
    ASSUME NEW t, IsTree(t), NEW f \in DOMAIN t, NEW x \in Text
    PROVE  IsTree([t EXCEPT ![f] = x]) /\ DOMAIN [t EXCEPT ![f] = x] = DOMAIN t
BY DEF IsTree

\* Symbols and calls of a tree are typed.
LEMMA TablesOfTree ==
    ASSUME NEW t, IsTree(t)
    PROVE  SymbolsOf(t) \subseteq Paths \X Names /\ CallsOf(t) \subseteq Paths \X Paths \X Names
<1>1. \A f \in DOMAIN t : f \in Paths /\ t[f].defs \subseteq Names
  BY TreeTexts
<1>2. SymbolsOf(t) \subseteq Paths \X Names
  BY <1>1 DEF SymbolsOf
<1>3. CallsOf(t) \subseteq Paths \X Paths \X Names
  BY <1>1 DEF CallsOf
<1> QED  BY <1>2, <1>3

\* A text, and one with other names or uses.
LEMMA TextParts ==
    ASSUME NEW x \in Text
    PROVE  /\ x.defs \subseteq Names /\ x.uses \subseteq Use
           /\ \A d \in SUBSET Names : /\ [x EXCEPT !.defs = d] \in Text
                                      /\ [x EXCEPT !.defs = d].defs = d
                                      /\ [x EXCEPT !.defs = d].uses = x.uses
           /\ \A s \in SUBSET Use : /\ [x EXCEPT !.uses = s] \in Text
                                    /\ [x EXCEPT !.uses = s].defs = x.defs
                                    /\ [x EXCEPT !.uses = s].uses = s
BY DEF Text

\* What becomes of a use in a file that is redirected.
LEMMA RedirectIs ==
    ASSUME NEW u \in Use, NEW f, NEW kind, NEW src, NEW dst \in Paths
    PROVE  /\ Redirect(f, u, kind, src, dst) \in Use
           /\ Redirect(f, u, kind, src, dst).name = u.name
           /\ Redirect(f, u, kind, src, dst).call = u.call
           /\ Redirect(f, u, kind, src, dst).known = u.known
           /\ Redirect(f, u, kind, src, dst).from =
                 IF u.from = f \/ kind \notin u.known THEN u.from
                 ELSE IF u.from = src THEN dst
                 ELSE IF kind = "renameFile" /\ <<u.from, src>> \in Longer THEN Nowhere
                 ELSE u.from
<1>1. dst \in Paths \cup {Nowhere} /\ Nowhere \in Paths \cup {Nowhere}
  OBVIOUS
<1> QED  BY <1>1, UseParts DEF Redirect

\* Every text the refactorings make is one.
LEMMA NewTexts ==
    ASSUME job \in Refactorings, NEW x \in Text, NEW f
    PROVE  /\ RenamedText(x) \in Text
           /\ RenamedText(x).defs = {Renamed(n) : n \in x.defs}
           /\ RenamedText(x).uses = {[u EXCEPT !.name = Renamed(u.name)] : u \in x.uses}
           /\ RedirectedText(f, x) \in Text
           /\ RedirectedText(f, x).defs = x.defs
           /\ RedirectedText(f, x).uses =
                 {Redirect(f, u, job.kind, job.src, job.dst) : u \in x.uses}
<1>1. x.defs \subseteq Names /\ x.uses \subseteq Use /\ job.new \in Names /\ job.dst \in Paths
  BY TextParts DEF Refactorings
<1>2. /\ {Renamed(n) : n \in x.defs} \in SUBSET Names
      /\ {[u EXCEPT !.name = Renamed(u.name)] : u \in x.uses} \in SUBSET Use
  <2>1. \A n \in Names : Renamed(n) \in Names
    BY <1>1 DEF Renamed
  <2>2. \A u \in Use : [u EXCEPT !.name = Renamed(u.name)] \in Use
    BY <2>1, UseParts
  <2> QED  BY <1>1, <2>1, <2>2
<1>3. {Redirect(f, u, job.kind, job.src, job.dst) : u \in x.uses} \in SUBSET Use
  <2>1. \A u \in Use : Redirect(f, u, job.kind, job.src, job.dst) \in Use
    BY <1>1, RedirectIs
  <2> QED  BY <1>1, <2>1
<1>4. /\ RenamedText(x) \in Text
      /\ RenamedText(x).defs = {Renamed(n) : n \in x.defs}
      /\ RenamedText(x).uses = {[u EXCEPT !.name = Renamed(u.name)] : u \in x.uses}
  BY <1>2 DEF RenamedText, Text
<1>5. /\ RedirectedText(f, x) \in Text /\ RedirectedText(f, x).defs = x.defs
      /\ RedirectedText(f, x).uses = {Redirect(f, u, job.kind, job.src, job.dst) : u \in x.uses}
  BY <1>3, TextParts DEF RedirectedText, Redirected
<1> QED  BY <1>4, <1>5

\* What becomes of a use in a file that is renamed.
Moved(u, src, dst, lost) ==
    IF u.from = src THEN [u EXCEPT !.from = dst]
    ELSE IF u \in lost THEN [u EXCEPT !.from = Nowhere]
    ELSE u

LEMMA MovedIs ==
    ASSUME NEW u \in Use, NEW src, NEW dst \in Paths, NEW lost
    PROVE  /\ Moved(u, src, dst, lost) \in Use
           /\ Moved(u, src, dst, lost).name = u.name
           /\ Moved(u, src, dst, lost).known = u.known
           /\ Moved(u, src, dst, lost).from = IF u.from = src THEN dst
                                              ELSE IF u \in lost THEN Nowhere ELSE u.from
<1>1. dst \in Paths \cup {Nowhere} /\ Nowhere \in Paths \cup {Nowhere}
  OBVIOUS
<1> QED  BY <1>1, UseParts DEF Moved

\* The text of a renamed file.
LEMMA DisplacedIs ==
    ASSUME NEW x \in Text, NEW src, NEW dst \in Paths, NEW lost
    PROVE  /\ Displaced(x, src, dst, lost) \in Text
           /\ Displaced(x, src, dst, lost).defs = x.defs
           /\ Displaced(x, src, dst, lost).uses = {Moved(u, src, dst, lost) : u \in x.uses}
<1>1. {Moved(u, src, dst, lost) : u \in x.uses} \in SUBSET Use
  BY TextParts, MovedIs
<1>2. Displaced(x, src, dst, lost) = [x EXCEPT !.uses = {Moved(u, src, dst, lost) : u \in x.uses}]
  BY DEF Displaced, Moved
<1> QED  BY <1>1, <1>2, TextParts

\* A refactoring that begins.
LEMMA BeginTyped ==
    ASSUME RefTyped,
           NEW kind \in {"rename", "move", "renameFile"}, NEW at \in {"write", "paste"},
           at = "paste" => kind = "move",
           NEW src \in Paths, NEW dst \in Paths, NEW old \in Names, NEW new \in Names,
           NEW text \in Text, NEW fits \in BOOLEAN,
           NEW todo \in SUBSET Paths, NEW touched \in SUBSET Paths,
           Begin(kind, at, src, dst, old, new, text, todo, touched, fits)
    PROVE  /\ JobTyped' /\ changes' \in 0..MaxChanges
           /\ job' \in Refactorings
           /\ job'.kind = kind /\ job'.at = at /\ job'.src = src /\ job'.dst = dst
           /\ job'.old = old /\ job'.new = new /\ job'.text = text /\ job'.todo = todo
<1> DEFINE again == job.at = "killed" /\ job.kind = "rename" /\ kind = "rename"
                    /\ <<job.src, job.old, job.new>> = <<src, old, new>>
           sensible == fits /\ Resolved(tree)
           soundNow == sensible /\ UsersCall(src, old) /\ ~edited
           wholeNow == IF again THEN job.whole ELSE sensible /\ IndexExact
           last == <<src, src, old>> \notin calls
<1>1. job' = [kind |-> kind, at |-> at, src |-> src, dst |-> dst, old |-> old, new |-> new, text |-> text,
              todo |-> todo, touched |-> touched, srcLast |-> last,
              sound |-> soundNow, whole |-> wholeNow]
  BY DEF Begin
<1>2. wholeNow \in BOOLEAN
  <2>1. CASE again
    <3>1. job \in Refactorings
      BY <2>1 DEF RefTyped, JobTyped
    <3>2. job.whole \in BOOLEAN
      BY <3>1 DEF Refactorings
    <3> QED  BY <3>2, <2>1
  <2>2. CASE ~again
    BY <2>2
  <2> QED  BY <2>1, <2>2
<1>3. soundNow \in BOOLEAN /\ last \in BOOLEAN
  OBVIOUS
<1>4. changes' \in 0..MaxChanges
  BY RefactorAssumption DEF Begin, Change, RefTyped, RefactorTypeOK
<1> HIDE DEF wholeNow, soundNow, last
<1>5. job' \in Refactorings
  BY <1>1, <1>2, <1>3 DEF Refactorings
<1> QED  BY <1>1, <1>4, <1>5 DEF JobTyped

\* The jobs the model calls typed are.
LEMMA JobParts ==
    ASSUME JobTyped
    PROVE  /\ job.kind \in {"none", "rename", "move", "renameFile"}
           /\ job.at \in {"write", "paste", "commit", "reindex", "done", "killed"}
           /\ job.kind = "none" => job.at = "done"
           /\ job.kind # "none" \/ job.at # "done" =>
                 /\ job \in Refactorings
                 /\ {job.src, job.dst} \subseteq Paths /\ {job.old, job.new} \subseteq Names
                 /\ job.text \in Text /\ job.todo \subseteq Paths /\ job.touched \subseteq Paths
                 /\ {job.srcLast, job.sound, job.whole} \subseteq BOOLEAN
BY DEF JobTyped, Refactorings

\* The steps that begin a refactoring keep everything typed.
LEMMA BeginningTyped ==
    ASSUME RefTyped, NEW src \in Paths, NEW dst \in Paths, NEW old \in Names, NEW new \in Names,
           BeginRename(src, old, new) \/ BeginMove(src, old, dst) \/ BeginRenameFile(src, dst)
    PROVE  RefTyped'
<1>0. IsTree(tree) /\ IsTree(rows) /\ DOMAIN tree \subseteq Paths /\ DOMAIN rows \subseteq Paths
  BY DEF RefTyped, RefactorTypeOK, IsTree
<1>t. ASSUME IsTree(tree)', JobTyped', changes' \in 0..MaxChanges, UNCHANGED refactorTables,
             UNCHANGED edited
      PROVE  RefTyped'
  <2>1. JobTyped'  BY <1>t
  <2>2. /\ job'.kind \in {"none", "rename", "move", "renameFile"}
        /\ job'.at \in {"write", "paste", "commit", "reindex", "done", "killed"}
        /\ job'.kind # "none" =>
              /\ {job'.src, job'.dst} \subseteq Paths /\ {job'.old, job'.new} \subseteq Names
              /\ job'.text \in Text /\ job'.todo \subseteq Paths /\ job'.touched \subseteq Paths
              /\ {job'.srcLast, job'.sound, job'.whole} \subseteq BOOLEAN
    BY <2>1 DEF JobTyped, Refactorings
  <2> QED  BY <2>2, <1>t DEF RefTyped, RefactorTypeOK, refactorTables, IsTree
<1>1. CASE BeginRename(src, old, new)
  <2> DEFINE planned == {f \in (Callers(src, old) \cup {src}) \cap DOMAIN tree :
                            old \in NamesIn(tree[f]) /\ old # new}
             fits == DefinedOnce(src, old) /\ \A f \in DOMAIN tree : new \notin NamesIn(tree[f])
  <2>1. planned \in SUBSET Paths /\ fits \in BOOLEAN /\ NoText \in Text
    BY <1>0 DEF NoText, Text
  <2> HIDE DEF planned, fits
  <2>2. Begin("rename", "write", src, src, old, new, NoText, planned, planned, fits)
    BY <1>1 DEF BeginRename, planned, fits
  <2>3. JobTyped' /\ changes' \in 0..MaxChanges
    BY <2>1, <2>2, BeginTyped
  <2>4. IsTree(tree)'
    BY <1>0, <1>1 DEF BeginRename, IsTree
  <2> QED  BY <2>3, <2>4, <1>1, <1>t DEF BeginRename
<1>2. CASE BeginMove(src, old, dst)
  <2> DEFINE callers == Callers(src, old)
             text == IF dst \in DOMAIN tree THEN tree[dst] ELSE NoText
             fits == DefinedOnce(src, old) /\ src # dst
  <2>1. callers \in SUBSET Paths /\ callers \cup {src, dst} \in SUBSET Paths
    BY <1>0 DEF Callers
  <2>a. text \in Text /\ fits \in BOOLEAN
    BY <1>0, TreeTexts DEF NoText, Text
  <2>2. Begin("move", "paste", src, dst, old, old, text, callers, callers \cup {src, dst}, fits)
    BY <1>2 DEF BeginMove
  <2> HIDE DEF callers, text, fits
  <2>3. JobTyped' /\ changes' \in 0..MaxChanges
    BY <2>1, <2>a, <2>2, BeginTyped
  <2>4. IsTree(tree)'
    <3>1. src \in DOMAIN tree /\ [tree[src] EXCEPT !.defs = @ \ {old}] \in Text
      BY <1>0, <1>2, TreeTexts DEF BeginMove, Text
    <3>2. tree' = [tree EXCEPT ![src] = [tree[src] EXCEPT !.defs = @ \ {old}]]
      BY <1>2 DEF BeginMove
    <3> HIDE DEF IsTree, Text
    <3> QED  BY <3>1, <3>2, <1>0, TreeUpdate
  <2> QED  BY <2>3, <2>4, <1>2, <1>t DEF BeginMove
<1>3. CASE BeginRenameFile(src, dst)
  <2> DEFINE planned == {f \in Importers(src) :
                            Redirected(f, tree[f].uses, "renameFile", src, dst) # tree[f].uses}
             anyName == CHOOSE n \in Names : TRUE
  <2>1. /\ planned \in SUBSET Paths /\ planned \cup {dst} \in SUBSET Paths /\ anyName \in Names
        /\ NoText \in Text
    BY <1>0, RefactorAssumption DEF Importers, NoText, Text
  <2>2. Begin("renameFile", "write", src, dst, anyName, anyName, NoText, planned,
              planned \cup {dst}, TRUE)
    BY <1>3 DEF BeginRenameFile
  <2> HIDE DEF planned, anyName
  <2>3. JobTyped' /\ changes' \in 0..MaxChanges
    BY <2>1, <2>2, BeginTyped
  <2>4. IsTree(tree)'
    <3> DEFINE there == ((DOMAIN tree) \ {src}) \cup {dst}
    <3>1. PICK lost : tree' = [f \in there |-> IF f = dst THEN Displaced(tree[src], src, dst, lost)
                                                          ELSE tree[f]]
      BY <1>3 DEF BeginRenameFile
    <3>2. Displaced(tree[src], src, dst, lost) \in Text
      BY <1>3, <1>0, TreeTexts, DisplacedIs DEF BeginRenameFile
    <3>3. \A f \in there : f # dst => tree[f] \in Text
      BY <1>0, TreeTexts
    <3>4. there \subseteq Paths
      BY <1>0
    <3> HIDE DEF there
    <3> QED  BY <3>1, <3>2, <3>3, <3>4 DEF IsTree
  <2> QED  BY <2>3, <2>4, <1>3, <1>t DEF BeginRenameFile
<1> QED  BY <1>1, <1>2, <1>3

\* Every step keeps the refactorings typed.
LEMMA RefNextTyped ==
    ASSUME RefTyped, [RefactorNext]_refactorVars
    PROVE  RefTyped'
<1>0. /\ IsTree(tree) /\ IsTree(rows)
      /\ symbols \subseteq Paths \X Names
      /\ calls \subseteq Paths \X Paths \X Names
      /\ changes \in 0..MaxChanges /\ edited \in BOOLEAN
      /\ JobTyped
  BY DEF RefTyped, RefactorTypeOK
<1>j. ASSUME JobTyped', IsTree(tree)', IsTree(rows)',
             symbols' \subseteq Paths \X Names, calls' \subseteq Paths \X Paths \X Names,
             changes' \in 0..MaxChanges, edited' \in BOOLEAN
      PROVE  RefTyped'
  <2>1. /\ job'.kind \in {"none", "rename", "move", "renameFile"}
        /\ job'.at \in {"write", "paste", "commit", "reindex", "done", "killed"}
        /\ job'.kind # "none" =>
              /\ {job'.src, job'.dst} \subseteq Paths /\ {job'.old, job'.new} \subseteq Names
              /\ job'.text \in Text /\ job'.todo \subseteq Paths /\ job'.touched \subseteq Paths
              /\ {job'.srcLast, job'.sound, job'.whole} \subseteq BOOLEAN
    BY <1>j DEF JobTyped, Refactorings
  <2> QED  BY <2>1, <1>j DEF RefTyped, RefactorTypeOK
<1>k. ASSUME JobTyped', UNCHANGED <<tree, refactorTables, changes>>, edited' \in BOOLEAN
      PROVE  RefTyped'
  BY <1>k, <1>0, <1>j DEF refactorTables, IsTree
<1>1. CASE BuildIndex
  <2>1. SymbolsOf(tree) \subseteq Paths \X Names /\ CallsOf(tree) \subseteq Paths \X Paths \X Names
    BY <1>0, TablesOfTree
  <2>2. JobTyped' /\ IsTree(tree)' /\ IsTree(rows)'
    BY <1>0, <1>1 DEF BuildIndex, JobTyped, IsTree
  <2> QED  BY <2>1, <2>2, <1>0, <1>1, <1>j DEF BuildIndex
<1>2. CASE KillRefactoring
  <2>1. job \in Refactorings
    BY <1>0, <1>2, JobParts DEF KillRefactoring
  <2>2. JobTyped'
    <3> DEFINE w == job.whole /\ job.kind = "rename" /\ job.srcLast
    <3>1. w \in BOOLEAN
      OBVIOUS
    <3>2. job' = [job EXCEPT !.at = "killed", !.sound = FALSE, !.whole = w]
      BY <1>2, <2>1 DEF KillRefactoring, Refactorings
    <3> HIDE DEF w
    <3> QED  BY <3>1, <3>2, <2>1 DEF JobTyped, Refactorings
  <2> QED  BY <2>2, <1>2, <1>k DEF KillRefactoring
<1>3. CASE Paste
  <2>1. job \in Refactorings
    BY <1>0, <1>3, JobParts DEF Paste
  <2>2. JobTyped'
    <3>1. NoText \in Text
      BY DEF NoText, Text
    <3> QED  BY <3>1, <2>1, <1>3 DEF Paste, JobTyped, Refactorings
  <2>3. IsTree(tree)'
    <3> DEFINE dst == job.dst
               new == [job.text EXCEPT !.defs = @ \cup {job.old}]
    <3>2. dst \in Paths /\ job.old \in Names /\ job.text \in Text
      BY <2>1 DEF Refactorings
    <3>3. tree' = [f \in (DOMAIN tree) \cup {dst} |-> IF f = dst THEN new ELSE tree[f]]
      BY <1>3 DEF Paste
    <3>4. new \in Text
      BY <3>2 DEF Text
    <3> HIDE DEF dst, new
    <3> QED  BY <3>2, <3>3, <3>4, <1>0, TreeTexts DEF IsTree
  <2> QED  BY <2>2, <2>3, <1>0, <1>3, <1>j DEF Paste, refactorTables
<1>4. CASE CommitToGit
  <2>1. JobTyped'
    BY <1>0, <1>4, JobParts DEF CommitToGit, JobTyped, Refactorings
  <2> QED  BY <2>1, <1>0, <1>4, <1>k DEF CommitToGit
<1>5. CASE BeginReindex
  <2>1. JobTyped'
    BY <1>0, <1>5, JobParts DEF BeginReindex, JobTyped, Refactorings
  <2> QED  BY <2>1, <1>0, <1>5, <1>k DEF BeginReindex
<1>6. CASE FinishRefactoring
  <2>1. JobTyped'
    BY <1>0, <1>6, JobParts DEF FinishRefactoring, JobTyped, Refactorings
  <2> QED  BY <2>1, <1>0, <1>6, <1>k DEF FinishRefactoring
<1>7. ASSUME NEW f \in DOMAIN tree, EditUse(f)  PROVE RefTyped'
  <2>1. PICK s \in SymbolsOf(tree), call \in BOOLEAN, known \in ImportForms :
           LET u == [from |-> s[1], name |-> s[2], call |-> call, known |-> known]
           IN  tree' = [tree EXCEPT ![f].uses = IF u \in tree[f].uses THEN tree[f].uses \ {u}
                                                                      ELSE tree[f].uses \cup {u}]
    BY <1>7 DEF EditUse
  <2> DEFINE u == [from |-> s[1], name |-> s[2], call |-> call, known |-> known]
             uses == IF u \in tree[f].uses THEN tree[f].uses \ {u} ELSE tree[f].uses \cup {u}
  <2>2. s \in Paths \X Names /\ tree[f] \in Text /\ tree[f].uses \subseteq Use
    BY <1>0, TablesOfTree, TreeTexts
  <2>3. u \in Use
    BY <2>2, RefactorAssumption DEF Use
  <2>a. uses \in SUBSET Use
    <3> HIDE DEF u
    <3> QED  BY <2>2, <2>3
  <2>b. tree' = [tree EXCEPT ![f] = [tree[f] EXCEPT !.uses = uses]]
    BY <2>1, <1>0 DEF IsTree
  <2> HIDE DEF uses
  <2>4. IsTree(tree)'
    <3>1. [tree[f] EXCEPT !.uses = uses] \in Text
      BY <2>2, <2>a, TextParts
    <3> QED  BY <3>1, <2>b, <1>0, TreeUpdate
  <2>5. changes' \in 0..MaxChanges /\ edited' \in BOOLEAN
    BY <1>0, <1>7, RefactorAssumption DEF EditUse, Change, Disturb
  <2>6. JobTyped'
    BY <1>0, <1>7 DEF EditUse, Disturb, JobTyped, Refactorings
  <2> QED  BY <2>4, <2>5, <2>6, <1>0, <1>7, <1>j DEF EditUse, refactorTables
<1>8. ASSUME NEW f \in DOMAIN tree, WriteFile(f)  PROVE RefTyped'
  <2>1. job \in Refactorings
    BY <1>0, <1>8, JobParts DEF WriteFile
  <2>2. PICK x \in Text : tree' = [tree EXCEPT ![f] = x]
    <3>1. tree[f] \in Text
      BY <1>0, TreeTexts
    <3>2. RenamedText(tree[f]) \in Text /\ RedirectedText(f, tree[f]) \in Text
      BY <3>1, <2>1, NewTexts
    <3> QED  BY <3>2, <1>8 DEF WriteFile
  <2>3. IsTree(tree)'
    BY <2>2, <1>0, TreeUpdate
  <2>4. JobTyped'
    BY <2>1, <1>0, <1>8 DEF WriteFile, JobTyped, Refactorings
  <2> QED  BY <2>3, <2>4, <1>0, <1>8, <1>j DEF WriteFile, refactorTables
<1>9. ASSUME NEW f \in Paths, ReindexFile(f)  PROVE RefTyped'
  <2>1. job \in Refactorings
    BY <1>0, <1>9, JobParts DEF ReindexFile
  <2>2. JobTyped'
    BY <2>1, <1>9 DEF ReindexFile, JobTyped, Refactorings
  <2>3. symbols' \subseteq Paths \X Names /\ calls' \subseteq Paths \X Paths \X Names
    <3> DEFINE others == {s \in symbols : s[1] # f}
               rest == {c \in calls : c[1] # f /\ c[2] # f}
               entered == {s[2] : s \in symbols'}
    <3>1. CASE f \in (DOMAIN tree) \cap DOMAIN rows
      <4>1. /\ symbols' = others \/ symbols' = others \cup ({f} \X tree[f].defs)
            /\ \/ calls' = rest
               \/ \E named \in SUBSET entered : \E home \in [named -> Paths] :
                     calls' = rest \cup {<<f, home[n], n>> : n \in named}
        BY <3>1, <1>9 DEF ReindexFile
      <4>2. symbols' \subseteq Paths \X Names
        <5>1. tree[f].defs \subseteq Names
          BY <3>1, <1>0, TreeTexts
        <5> QED  BY <5>1, <4>1, <1>0
      <4>3. entered \subseteq Names
        BY <4>2
      <4>4. rest \subseteq Paths \X Paths \X Names
        BY <1>0
      <4> HIDE DEF rest, entered
      <4> QED  BY <4>1, <4>2, <4>3, <4>4
    <3>2. CASE f \notin (DOMAIN tree) \cap DOMAIN rows
      BY <3>2, <1>0, <1>9 DEF ReindexFile
    <3> QED  BY <3>1, <3>2
  <2>4. IsTree(tree)' /\ IsTree(rows)' /\ changes' = changes /\ edited' = edited
    BY <1>0, <1>9 DEF ReindexFile, IsTree
  <2> QED  BY <2>2, <2>3, <2>4, <1>0, <1>j
<1>10. ASSUME NEW src \in Paths, NEW old \in Names, NEW new \in Names, BeginRename(src, old, new)
       PROVE  RefTyped'
  BY <1>10, BeginningTyped
<1>11. ASSUME NEW src \in Paths, NEW dst \in Paths,
              BeginRenameFile(src, dst) \/ \E n \in Names : BeginMove(src, n, dst)
       PROVE  RefTyped'
  <2>1. PICK n \in Names : BeginRenameFile(src, dst) \/ BeginMove(src, n, dst)
    BY <1>11, RefactorAssumption
  <2> QED  BY <2>1, BeginningTyped
<1>12. CASE UNCHANGED refactorVars
  BY <1>12, <1>0, <1>j DEF refactorVars, JobTyped, IsTree
<1> QED  BY <1>1, <1>2, <1>3, <1>4, <1>5, <1>6, <1>7, <1>8, <1>9, <1>10, <1>11, <1>12 DEF RefactorNext

\* The initial state is typed.
LEMMA RefInitTyped == RefactorInit => RefTyped
<1> SUFFICES ASSUME RefactorInit  PROVE RefTyped
  OBVIOUS
<1>1. IsTree(tree) /\ IsTree(rows)
  BY RefactorAssumption DEF RefactorInit
<1>2. symbols \subseteq Paths \X Names /\ calls \subseteq Paths \X Paths \X Names
  BY <1>1, TablesOfTree DEF RefactorInit
<1>3. job = [kind |-> "none", at |-> "done"] /\ changes \in 0..MaxChanges /\ edited = FALSE
  BY RefactorAssumption DEF RefactorInit
<1> QED  BY <1>1, <1>2, <1>3 DEF RefTyped, RefactorTypeOK, JobTyped

\* Type correctness of the working tree, the tables and the refactoring that
\* runs (coderefactor/services/refactor.py), for any paths and names.
THEOREM RefactorTypeCorrect == RefactorSpec => []RefactorTypeOK
<1>1. RefTyped /\ [RefactorNext]_refactorVars => RefTyped'
  BY RefNextTyped
<1>2. RefTyped => RefactorTypeOK
  BY DEF RefTyped
<1> QED  BY <1>1, <1>2, RefInitTyped, PTL DEF RefactorSpec

-----------------------------------------------------------------------------
(* Refactorings reach the files that the index knows.  Of a refactoring    *)
(* asked for with an exact index the files still to be written are the     *)
(* only ones whose calls, or known imports, name the symbol by its old     *)
(* name or place.  Of a rename that writes the file of the symbol last,    *)
(* the call edges still lead to all of them, also after a kill and an      *)
(* index run in between: that is what finishes it.                         *)

\* A use in the course of a rename: of the symbol by its old name, in a file that
\* is still to be written or only mentions the symbol; of the symbol by its new
\* name; or of something else, which is found.
RenameUse(f, u) ==
    \/ /\ Of(u, job.src, job.old)
       /\ \/ f \in job.todo
          \/ f # job.src /\ \A v \in tree[f].uses : v.call => ~Of(v, job.src, job.old)
    \/ Of(u, job.src, job.new)
    \/ u.name \notin {job.old, job.new} /\ Finds(tree, u)

\* What is left of a rename.
RenameOK ==
    (job.kind = "rename" /\ job.whole) =>
        /\ job.old # job.new
        /\ job.src \in DOMAIN tree
        /\ job.todo \subseteq DOMAIN tree
        /\ job.at \in {"commit", "reindex", "done"} => job.todo = {}
        /\ \A f \in DOMAIN tree : job.old \in tree[f].defs => f = job.src /\ f \in job.todo
        /\ \A f \in DOMAIN tree : \A u \in tree[f].uses : RenameUse(f, u)
        /\ \A f \in DOMAIN tree : \A u, v \in tree[f].uses :
              u.name # job.old \/ v.name # job.new
        /\ IF job.src \in job.todo THEN job.old \in tree[job.src].defs
                                   ELSE job.new \in tree[job.src].defs
        /\ job.srcLast /\ job.todo # {} => job.src \in job.todo
        /\ job.at = "killed" => job.srcLast
        /\ job.srcLast /\ job.at \in {"write", "commit", "killed"} =>
              \A f \in DOMAIN tree : \A u \in tree[f].uses :
                 Of(u, job.src, job.old) =>
                    /\ u.call => <<f, job.src, job.old>> \in calls
                    /\ <<f, job.src, job.old>> \in calls => f \in job.todo

\* A use in the course of the rename of a file: it is found; or would be in the new
\* place, and its file is still to be written; or it is not rewritten, or wrongly.
RenameFileUse(f, u) ==
    \/ Finds(tree, u)
    \/ /\ u.from = job.src /\ "renameFile" \in u.known
       /\ f \in job.todo /\ f # job.dst /\ u.name \in tree[job.dst].defs
    \/ u.from = job.src /\ "renameFile" \notin u.known
    \/ /\ u.from = Nowhere
       /\ IF "renameFile" \in u.known THEN \E q \in Paths : <<q, job.src>> \in Longer
                                      ELSE f = job.dst

RenameFileOK ==
    (job.kind = "renameFile" /\ job.whole) =>
        /\ job.src \notin DOMAIN tree /\ job.dst \in DOMAIN tree
        /\ job.at \in {"commit", "reindex", "done"} => job.todo = {}
        /\ \A f \in DOMAIN tree : \A u \in tree[f].uses : RenameFileUse(f, u)

\* Of a move: who calls the element in the old place, by a known import, is still
\* to be written.
MoveOK ==
    (job.kind = "move" /\ job.whole) =>
        /\ job.src # job.dst
        /\ job.src \in DOMAIN tree
        /\ job.old \notin tree[job.src].defs
        /\ job.at = "paste" => job.text = IF job.dst \in DOMAIN tree THEN tree[job.dst] ELSE NoText
        /\ job.at # "paste" => job.dst \in DOMAIN tree /\ job.old \in tree[job.dst].defs
        /\ job.at \in {"commit", "reindex", "done"} => job.todo = {}
        /\ \A f \in (DOMAIN tree) \ {job.src} : \A u \in tree[f].uses :
              Of(u, job.src, job.old) /\ u.call /\ "move" \in u.known => f \in job.todo

RefInv == RenameOK /\ RenameFileOK /\ MoveOK

\* The call edges of a tree.
LEMMA CallEdges ==
    ASSUME NEW t, IsTree(t), NEW f \in DOMAIN t, NEW g \in DOMAIN t, NEW n \in Names
    PROVE  <<f, g, n>> \in CallsOf(t) <=>
              n \in t[g].defs /\ \E u \in t[f].uses : u.call /\ u.name = n
BY DEF CallsOf, Called

\* A rename that begins, and was not killed before.
LEMMA BeginFirstRenameOK ==
    ASSUME RefTyped, NEW src \in Paths, NEW old \in Names, NEW new \in Names,
           BeginRename(src, old, new),
           ~(job.at = "killed" /\ job.kind = "rename"
             /\ <<job.src, job.old, job.new>> = <<src, old, new>>),
           job'.kind = "rename", job'.at = "write", job'.src = src,
           job'.old = old, job'.new = new, job'.whole,
           job'.todo = {f \in (Callers(src, old) \cup {src}) \cap DOMAIN tree :
                           old \in NamesIn(tree[f]) /\ old # new}
    PROVE  RenameOK'
<1> DEFINE planned == {f \in (Callers(src, old) \cup {src}) \cap DOMAIN tree :
                          old \in NamesIn(tree[f]) /\ old # new}
           fits == DefinedOnce(src, old) /\ \A f \in DOMAIN tree : new \notin NamesIn(tree[f])
<1>0. IsTree(tree) /\ DOMAIN tree \subseteq Paths /\ UNCHANGED <<tree, calls>>
      /\ Callers(src, old) = {f \in DOMAIN tree : <<f, src, old>> \in calls}
  BY DEF RefTyped, RefactorTypeOK, IsTree, BeginRename, refactorTables, Callers
<1>1. fits /\ Resolved(tree) /\ IndexExact
  BY DEF BeginRename, Begin
<1>2. /\ calls = CallsOf(tree)
      /\ \A f \in DOMAIN tree : \A u \in tree[f].uses : Finds(tree, u)
      /\ \A f \in DOMAIN tree : old \in tree[f].defs <=> f = src
      /\ src \in DOMAIN tree
  BY <1>1 DEF IndexExact, Resolved, DefinedOnce
<1>3. /\ \A f \in DOMAIN tree : \A u \in tree[f].uses : u.name # new
      /\ old # new /\ planned \subseteq DOMAIN tree /\ src \in planned
  BY <1>1, <1>2 DEF NamesIn
<1>4. ASSUME NEW f \in DOMAIN tree, NEW u \in tree[f].uses, u.name = old
      PROVE  /\ Of(u, src, old)
             /\ f \in planned \/ (f # src /\ \A v \in tree[f].uses : v.call => ~Of(v, src, old))
             /\ u.call => <<f, src, old>> \in calls
             /\ <<f, src, old>> \in calls => f \in planned
  <2>1. Of(u, src, old)
    BY <1>2, <1>4 DEF Finds, Of
  <2>2. old \in NamesIn(tree[f])
    BY <1>4 DEF NamesIn
  <2>3. <<f, src, old>> \in calls => f \in planned
    BY <2>2, <1>0, <1>3
  <2>4. ASSUME NEW v \in tree[f].uses, v.call, v.name = old  PROVE <<f, src, old>> \in calls
    BY <2>4, <1>0, <1>2, CallEdges
  <2>5. f \in planned \/ (f # src /\ \A v \in tree[f].uses : v.call => ~Of(v, src, old))
    BY <2>3, <2>4, <1>3 DEF Of
  <2>6. u.call => <<f, src, old>> \in calls
    BY <2>4, <1>4
  <2> QED  BY <2>1, <2>3, <2>5, <2>6
<1>5. \A f \in DOMAIN tree : \A u \in tree[f].uses : RenameUse(f, u)'
  <2> SUFFICES ASSUME NEW f \in DOMAIN tree, NEW u \in tree[f].uses  PROVE RenameUse(f, u)'
    OBVIOUS
  <2>1. CASE u.name = old
    BY <2>1, <1>0, <1>4 DEF RenameUse
  <2>2. CASE u.name # old
    BY <2>2, <1>0, <1>2, <1>3 DEF RenameUse, Finds
  <2> QED  BY <2>1, <2>2
<1>6. \A f \in DOMAIN tree : \A u \in tree[f].uses :
         Of(u, src, old) => /\ u.call => <<f, src, old>> \in calls
                            /\ <<f, src, old>> \in calls => f \in planned
  BY <1>4 DEF Of
<1> QED  BY <1>0, <1>2, <1>3, <1>5, <1>6 DEF RenameOK

\* A rename that is asked for again.
LEMMA BeginRenameAgainOK ==
    ASSUME RefTyped, RenameOK, NEW src \in Paths, NEW old \in Names, NEW new \in Names,
           BeginRename(src, old, new),
           job.at = "killed", job.kind = "rename", job.whole,
           job.src = src, job.old = old, job.new = new,
           job'.kind = "rename", job'.at = "write", job'.src = src,
           job'.old = old, job'.new = new,
           job'.todo = {f \in (Callers(src, old) \cup {src}) \cap DOMAIN tree :
                           old \in NamesIn(tree[f]) /\ old # new}
    PROVE  RenameOK'
<1> DEFINE planned == {f \in (Callers(src, old) \cup {src}) \cap DOMAIN tree :
                          old \in NamesIn(tree[f]) /\ old # new}
<1>0. IsTree(tree) /\ UNCHANGED <<tree, calls>>
      /\ Callers(src, old) = {f \in DOMAIN tree : <<f, src, old>> \in calls}
  BY DEF RefTyped, RefactorTypeOK, BeginRename, refactorTables, Callers
<1>1. /\ old # new /\ src \in DOMAIN tree /\ job.srcLast
      /\ \A f \in DOMAIN tree : old \in tree[f].defs => f = src /\ f \in job.todo
      /\ \A f \in DOMAIN tree : \A u, v \in tree[f].uses : u.name # old \/ v.name # new
      /\ IF src \in job.todo THEN old \in tree[src].defs ELSE new \in tree[src].defs
      /\ job.todo # {} => src \in job.todo
      /\ \A f \in DOMAIN tree : \A u \in tree[f].uses :
            Of(u, src, old) => /\ u.call => <<f, src, old>> \in calls
                               /\ <<f, src, old>> \in calls => f \in job.todo
  BY DEF RenameOK
<1>2. \A f \in DOMAIN tree : \A u \in tree[f].uses :
         \/ Of(u, src, old) /\ (f \in job.todo \/ f # src)
         \/ Of(u, src, new)
         \/ u.name \notin {old, new} /\ Finds(tree, u)
  BY DEF RenameOK, RenameUse
<1>3. \A f \in DOMAIN tree : old \in NamesIn(tree[f]) <=>
         old \in tree[f].defs \/ \E u \in tree[f].uses : Of(u, src, old)
  <2> SUFFICES ASSUME NEW f \in DOMAIN tree
               PROVE  old \in NamesIn(tree[f]) <=>
                         old \in tree[f].defs \/ \E u \in tree[f].uses : Of(u, src, old)
    OBVIOUS
  <2>1. \A u \in tree[f].uses : u.name = old <=> Of(u, src, old)
    BY <1>1, <1>2 DEF Of
  <2> QED  BY <2>1 DEF NamesIn
<1>4. planned \subseteq DOMAIN tree
  OBVIOUS
<1>5. ASSUME NEW f \in DOMAIN tree, NEW u \in tree[f].uses, Of(u, src, old)
      PROVE  /\ <<f, src, old>> \in calls => f \in planned
             /\ f \in planned \/ (f # src /\ \A v \in tree[f].uses : v.call => ~Of(v, src, old))
  <2>1. old \in NamesIn(tree[f])
    BY <1>3, <1>5
  <2>2. (<<f, src, old>> \in calls \/ f = src) => f \in planned
    BY <2>1, <1>0, <1>1
  <2>3. ASSUME f \notin planned, NEW v \in tree[f].uses, v.call  PROVE ~Of(v, src, old)
    BY <2>2, <2>3, <1>1
  <2> QED  BY <2>2, <2>3
<1>6. src \in planned <=> src \in job.todo
  <2>1. src \in planned <=> old \in NamesIn(tree[src])
    BY <1>1
  <2>2. old \in tree[src].defs <=> src \in job.todo
    <3>1. src \in job.todo => old \in tree[src].defs
      BY <1>1
    <3> QED  BY <3>1, <1>1
  <2>3. ASSUME NEW u \in tree[src].uses, Of(u, src, old)  PROVE src \in job.todo
    BY <2>3, <1>1, <1>2 DEF Of
  <2> QED  BY <2>1, <2>2, <2>3, <1>1, <1>3
<1>7. ASSUME planned # {}  PROVE src \in planned
  <2>1. PICK f \in planned : f \in DOMAIN tree /\ old \in NamesIn(tree[f])
                             /\ (f = src \/ <<f, src, old>> \in calls)
    BY <1>7, <1>0
  <2>2. CASE old \in tree[f].defs
    BY <2>1, <2>2, <1>1
  <2>3. CASE \E u \in tree[f].uses : Of(u, src, old)
    BY <2>1, <2>3, <1>1, <1>6
  <2> QED  BY <2>1, <2>2, <2>3, <1>3
<1>8. \A f \in DOMAIN tree : \A u \in tree[f].uses : RenameUse(f, u)'
  <2> SUFFICES ASSUME NEW f \in DOMAIN tree, NEW u \in tree[f].uses  PROVE RenameUse(f, u)'
    OBVIOUS
  <2>1. CASE Of(u, src, old)
    BY <2>1, <1>0, <1>5 DEF RenameUse
  <2>2. CASE ~Of(u, src, old)
    BY <2>2, <1>0, <1>2 DEF RenameUse
  <2> QED  BY <2>1, <2>2
<1>9. \A f \in DOMAIN tree : old \in tree[f].defs => f = src /\ f \in planned
  BY <1>1, <1>6
<1>10. \A f \in DOMAIN tree : \A u \in tree[f].uses :
         Of(u, src, old) => /\ u.call => <<f, src, old>> \in calls
                            /\ <<f, src, old>> \in calls => f \in planned
  BY <1>1, <1>5
<1>11. IF src \in planned THEN old \in tree[src].defs ELSE new \in tree[src].defs
  BY <1>1, <1>6
<1> QED  BY <1>0, <1>1, <1>4, <1>7, <1>8, <1>9, <1>10, <1>11 DEF RenameOK

\* A rename that begins, for the first time or again.
LEMMA BeginRenameOK ==
    ASSUME RefTyped, RefInv, NEW src \in Paths, NEW old \in Names, NEW new \in Names,
           BeginRename(src, old, new)
    PROVE  RefInv'
<1> DEFINE planned == {f \in (Callers(src, old) \cup {src}) \cap DOMAIN tree :
                          old \in NamesIn(tree[f]) /\ old # new}
           fits == DefinedOnce(src, old) /\ \A f \in DOMAIN tree : new \notin NamesIn(tree[f])
           again == job.at = "killed" /\ job.kind = "rename"
                    /\ <<job.src, job.old, job.new>> = <<src, old, new>>
<1>1. planned \in SUBSET Paths /\ fits \in BOOLEAN /\ NoText \in Text
  BY DEF RefTyped, RefactorTypeOK, IsTree, NoText, Text
<1>2. Begin("rename", "write", src, src, old, new, NoText, planned, planned, fits)
  BY DEF BeginRename
<1>3. again => job'.whole = job.whole
  BY <1>2 DEF Begin
<1> HIDE DEF planned, fits
<1>4. /\ job'.kind = "rename" /\ job'.at = "write" /\ job'.src = src
      /\ job'.old = old /\ job'.new = new /\ job'.todo = planned
  BY <1>1, <1>2, BeginTyped
<1>5. CASE again /\ job'.whole
  <2>1. RenameOK'
    BY <1>3, <1>4, <1>5, BeginRenameAgainOK DEF planned, RefInv
  <2> QED  BY <2>1, <1>4 DEF RefInv, RenameFileOK, MoveOK
<1>6. CASE ~again /\ job'.whole
  <2>1. ~(job.at = "killed" /\ job.kind = "rename"
          /\ <<job.src, job.old, job.new>> = <<src, old, new>>)
    BY <1>6
  <2>2. job'.todo = {f \in (Callers(src, old) \cup {src}) \cap DOMAIN tree :
                        old \in NamesIn(tree[f]) /\ old # new}
    BY <1>4 DEF planned
  <2>3. job'.whole
    BY <1>6
  <2> HIDE DEF again
  <2>4. RenameOK'
    BY <2>1, <2>2, <2>3, <1>4, BeginFirstRenameOK
  <2> QED  BY <2>4, <1>4 DEF RefInv, RenameFileOK, MoveOK
<1> QED  BY <1>4, <1>5, <1>6 DEF RefInv, RenameOK, RenameFileOK, MoveOK

\* A move that begins.
LEMMA BeginMoveOK ==
    ASSUME RefTyped, NEW src \in Paths, NEW dst \in Paths, NEW name \in Names,
           BeginMove(src, name, dst)
    PROVE  RefInv'
<1> DEFINE callers == Callers(src, name)
           text == IF dst \in DOMAIN tree THEN tree[dst] ELSE NoText
           fits == DefinedOnce(src, name) /\ src # dst
<1>0. /\ IsTree(tree) /\ src \in DOMAIN tree /\ DOMAIN tree \subseteq Paths
      /\ callers \in SUBSET Paths /\ callers \cup {src, dst} \in SUBSET Paths
      /\ name \in tree[src].defs /\ fits \in BOOLEAN
      /\ tree' = [tree EXCEPT ![src].defs = @ \ {name}]
  BY DEF RefTyped, RefactorTypeOK, IsTree, BeginMove, Callers
<1>a. text \in Text
  BY <1>0, TreeTexts DEF NoText, Text
<1>1. Begin("move", "paste", src, dst, name, name, text, callers, callers \cup {src, dst}, fits)
  BY DEF BeginMove
<1>3. job'.whole => fits /\ IndexExact
  BY <1>1 DEF Begin
<1> HIDE DEF callers, fits
<1>2. /\ job'.kind = "move" /\ job'.at = "paste" /\ job'.src = src /\ job'.dst = dst
      /\ job'.old = name /\ job'.text = text /\ job'.todo = callers
  <2> HIDE DEF text
  <2> QED  BY <1>0, <1>a, <1>1, BeginTyped
<1>4. tree[src] \in Text
  BY <1>0, TreeTexts
<1>5. /\ DOMAIN tree' = DOMAIN tree /\ \A f \in (DOMAIN tree) \ {src} : tree'[f] = tree[f]
      /\ name \notin tree'[src].defs
  BY <1>0, <1>4 DEF IsTree, Text
<1>6. ASSUME IndexExact, NEW f \in DOMAIN tree, NEW u \in tree[f].uses, u.call, u.name = name
      PROVE  f \in callers
  <2>1. <<f, src, name>> \in CallsOf(tree)
    BY <1>0, <1>6, CallEdges
  <2> QED  BY <2>1, <1>6 DEF IndexExact, callers, Callers
<1>7. CASE job'.whole
  <2>1. src # dst
    BY <1>3, <1>7 DEF fits
  <2>2. text = IF dst \in DOMAIN tree' THEN tree'[dst] ELSE NoText
    BY <2>1, <1>5
  <2>3. \A f \in (DOMAIN tree) \ {src} : \A u \in tree[f].uses :
           Of(u, src, name) /\ u.call => f \in callers
    BY <1>3, <1>6, <1>7 DEF Of
  <2> HIDE DEF text
  <2> QED  BY <2>1, <2>2, <2>3, <1>0, <1>2, <1>5 DEF RefInv, RenameOK, RenameFileOK, MoveOK
<1>8. CASE ~job'.whole
  BY <1>8 DEF RefInv, RenameOK, RenameFileOK, MoveOK
<1> QED  BY <1>7, <1>8

\* The rename of a file that begins.
LEMMA BeginRenameFileOK ==
    ASSUME RefTyped, NEW src \in Paths, NEW dst \in Paths, BeginRenameFile(src, dst)
    PROVE  RefInv'
<1> DEFINE planned == {f \in Importers(src) :
                          Redirected(f, tree[f].uses, "renameFile", src, dst) # tree[f].uses}
           anyName == CHOOSE n \in Names : TRUE
           there == ((DOMAIN tree) \ {src}) \cup {dst}
<1>0. /\ IsTree(tree) /\ DOMAIN tree \subseteq Paths /\ IsTree(rows)
      /\ src \in DOMAIN tree /\ dst \notin DOMAIN tree
  BY DEF RefTyped, RefactorTypeOK, IsTree, BeginRenameFile
<1>1. /\ planned \in SUBSET Paths /\ planned \cup {dst} \in SUBSET Paths /\ anyName \in Names
      /\ NoText \in Text
  BY <1>0, RefactorAssumption DEF Importers, NoText, Text, IsTree
<1>2. Begin("renameFile", "write", src, dst, anyName, anyName, NoText, planned,
            planned \cup {dst}, TRUE)
  BY DEF BeginRenameFile
<1>3. job'.whole => IndexExact /\ Resolved(tree)
  BY <1>2 DEF Begin
<1> HIDE DEF planned, anyName
<1>4. /\ job'.kind = "renameFile" /\ job'.at = "write" /\ job'.src = src /\ job'.dst = dst
      /\ job'.todo = planned
  BY <1>1, <1>2, BeginTyped
<1>5. CASE ~job'.whole
  BY <1>5 DEF RefInv, RenameOK, RenameFileOK, MoveOK
<1>6. CASE job'.whole
  <2>0. /\ rows = tree
        /\ \A f \in DOMAIN tree : \A u \in tree[f].uses : Finds(tree, u) /\ u \in Use
    BY <1>0, <1>3, <1>6, TreeTexts DEF IndexExact, Resolved
  <2>1. PICK lost \in SUBSET {u \in tree[src].uses : "renameFile" \notin u.known} :
           tree' = [f \in there |-> IF f = dst THEN Displaced(tree[src], src, dst, lost)
                                               ELSE tree[f]]
    BY DEF BeginRenameFile
  <2>2. /\ DOMAIN tree' = there
        /\ tree'[dst].defs = tree[src].defs
        /\ tree'[dst].uses = {Moved(u, src, dst, lost) : u \in tree[src].uses}
        /\ \A f \in (DOMAIN tree) \ {src} : tree'[f] = tree[f]
    <3>1. tree[src] \in Text
      BY <1>0, TreeTexts
    <3>2. tree'[dst] = Displaced(tree[src], src, dst, lost)
      BY <2>1
    <3> QED  BY <2>1, <3>1, <3>2, <1>0, DisplacedIs
  <2>3. ASSUME NEW u, u.from # src, Finds(tree, u)  PROVE Finds(tree', u)
    BY <2>2, <2>3, <1>0 DEF Finds
  <2>4. ASSUME NEW v \in tree'[dst].uses  PROVE RenameFileUse(dst, v)'
    <3>1. PICK u \in tree[src].uses : v = Moved(u, src, dst, lost)
      BY <2>2, <2>4
    <3>2. u \in Use /\ Finds(tree, u)
      BY <2>0, <1>0
    <3>3. /\ v.name = u.name /\ v.known = u.known
          /\ v.from = IF u.from = src THEN dst ELSE IF u \in lost THEN Nowhere ELSE u.from
      BY <3>1, <3>2, MovedIs
    <3>4. CASE u.from = src
      BY <3>2, <3>3, <3>4, <2>2 DEF RenameFileUse, Finds
    <3>5. CASE u.from # src /\ u \in lost
      BY <3>3, <3>5, <2>1, <1>4 DEF RenameFileUse
    <3>6. CASE u.from # src /\ u \notin lost
      <4>1. v = u
        BY <3>1, <3>6 DEF Moved
      <4> QED  BY <4>1, <3>2, <3>6, <2>3 DEF RenameFileUse
    <3> QED  BY <3>4, <3>5, <3>6
  <2>5. ASSUME NEW f \in (DOMAIN tree) \ {src}, NEW u \in tree[f].uses
        PROVE  RenameFileUse(f, u)'
    <3>1. Finds(tree, u) /\ u \in Use
      BY <2>0
    <3>2. CASE u.from # src
      BY <3>1, <3>2, <2>3 DEF RenameFileUse
    <3>3. CASE u.from = src /\ "renameFile" \notin u.known
      BY <3>3, <1>4 DEF RenameFileUse
    <3>4. CASE u.from = src /\ "renameFile" \in u.known
      <4>1. f \in Importers(src)
        BY <3>4, <2>0 DEF Importers
      <4>2. Redirect(f, u, "renameFile", src, dst).from = dst
        BY <3>1, <3>4, <2>5, UseParts DEF Redirect
      <4>3. \A v \in tree[f].uses : v.from # dst
        BY <2>0, <1>0 DEF Finds
      <4>4. Redirect(f, u, "renameFile", src, dst)
               \in Redirected(f, tree[f].uses, "renameFile", src, dst)
        BY DEF Redirected
      <4>5. f \in planned
        BY <4>1, <4>2, <4>3, <4>4 DEF planned
      <4>6. f # dst /\ u.name \in tree'[dst].defs
        BY <3>1, <3>4, <2>2, <1>0 DEF Finds
      <4> QED  BY <4>5, <4>6, <3>4, <1>4 DEF RenameFileUse
    <3> QED  BY <3>2, <3>3, <3>4
  <2>6. \A f \in DOMAIN tree' : \A u \in tree'[f].uses : RenameFileUse(f, u)'
    BY <2>2, <2>4, <2>5
  <2>7. src \notin DOMAIN tree' /\ dst \in DOMAIN tree'
    BY <2>2, <1>0
  <2> QED  BY <2>6, <2>7, <1>4 DEF RefInv, RenameOK, RenameFileOK, MoveOK
<1> QED  BY <1>5, <1>6

\* A file is written: by a rename ...
LEMMA WriteRenamedOK ==
    ASSUME RefTyped, RenameOK, NEW f \in DOMAIN tree, WriteFile(f), job.kind = "rename"
    PROVE  RenameOK'
<1>0. /\ IsTree(tree) /\ job \in Refactorings
      /\ job.at = "write" /\ f \in job.todo /\ calls' = calls
      /\ tree' = [tree EXCEPT ![f] = RenamedText(tree[f])]
      /\ job.srcLast => (f # job.src \/ job.todo = {f})
  BY JobParts DEF RefTyped, RefactorTypeOK, WriteFile, InTurn, refactorTables
<1>1. /\ job'.kind = "rename" /\ job'.whole = job.whole /\ job'.at = "write"
      /\ job'.src = job.src /\ job'.old = job.old /\ job'.new = job.new
      /\ job'.srcLast = job.srcLast /\ job'.todo = job.todo \ {f}
      /\ job.new \in Names
  BY <1>0 DEF WriteFile, Refactorings
<1>2. /\ DOMAIN tree' = DOMAIN tree /\ \A g \in (DOMAIN tree) \ {f} : tree'[g] = tree[g]
      /\ tree'[f].defs = {Renamed(n) : n \in tree[f].defs}
      /\ tree'[f].uses = {[u EXCEPT !.name = Renamed(u.name)] : u \in tree[f].uses}
      /\ tree[f].uses \subseteq Use
  <2>1. tree[f] \in Text /\ tree[f].uses \subseteq Use
    BY <1>0, TreeTexts
  <2>2. tree'[f] = RenamedText(tree[f]) /\ DOMAIN tree' = DOMAIN tree
        /\ \A g \in (DOMAIN tree) \ {f} : tree'[g] = tree[g]
    BY <1>0 DEF IsTree
  <2> QED  BY <2>1, <2>2, <1>0, NewTexts
<1> SUFFICES ASSUME job.whole  PROVE RenameOK'
  BY <1>1 DEF RenameOK
<1>3. /\ job.old # job.new /\ job.src \in DOMAIN tree /\ job.todo \subseteq DOMAIN tree
      /\ \A g \in DOMAIN tree : job.old \in tree[g].defs => g = job.src /\ g \in job.todo
      /\ \A g \in DOMAIN tree : \A u \in tree[g].uses : RenameUse(g, u)
      /\ \A g \in DOMAIN tree : \A u, v \in tree[g].uses :
            u.name # job.old \/ v.name # job.new
      /\ IF job.src \in job.todo THEN job.old \in tree[job.src].defs
                                 ELSE job.new \in tree[job.src].defs
      /\ job.srcLast /\ job.todo # {} => job.src \in job.todo
      /\ job.srcLast => \A g \in DOMAIN tree : \A u \in tree[g].uses :
            Of(u, job.src, job.old) =>
               /\ u.call => <<g, job.src, job.old>> \in calls
               /\ <<g, job.src, job.old>> \in calls => g \in job.todo
  BY <1>0 DEF RenameOK
<1>4. /\ \A n : Renamed(n) # job.old
      /\ \A n : n \notin {job.old, job.new} => Renamed(n) = n
      /\ Renamed(job.old) = job.new /\ Renamed(job.new) = job.new
      /\ \A n \in Names : Renamed(n) \in Names
  BY <1>1, <1>3 DEF Renamed
<1>5. ASSUME NEW u, u.name \notin {job.old, job.new}, Finds(tree, u)  PROVE Finds(tree', u)
  BY <1>2, <1>4, <1>5 DEF Finds
<1>6. ASSUME NEW v \in tree'[f].uses
      PROVE  RenameUse(f, v)' /\ v.name # job.old
  <2>1. PICK u \in tree[f].uses : v = [u EXCEPT !.name = Renamed(u.name)]
    BY <1>2, <1>6
  <2>2. v.from = u.from /\ v.name = Renamed(u.name) /\ u \in Use /\ u.name \in Names
    BY <2>1, <1>2, <1>4, UseParts
  <2>3. RenameUse(f, u)
    BY <1>3
  <2>4. CASE u.name \in {job.old, job.new}
    <3>1. Of(v, job.src, job.new)
      BY <2>2, <2>3, <2>4, <1>4 DEF RenameUse, Of
    <3> QED  BY <3>1, <1>1, <1>3 DEF RenameUse, Of
  <2>5. CASE u.name \notin {job.old, job.new}
    <3>1. v.name = u.name /\ Finds(tree, u)
      BY <2>2, <2>3, <2>5, <1>4 DEF RenameUse, Of
    <3>2. Finds(tree, v)
      BY <3>1, <2>2 DEF Finds
    <3>3. Finds(tree', v)
      BY <3>1, <3>2, <2>5, <1>5
    <3> QED  BY <3>1, <3>3, <2>5, <1>1 DEF RenameUse
  <2> QED  BY <2>4, <2>5
<1>7. ASSUME NEW g \in (DOMAIN tree) \ {f}, NEW u \in tree[g].uses
      PROVE  RenameUse(g, u)'
  <2>1. RenameUse(g, u)
    BY <1>3
  <2>2. CASE u.name \in {job.old, job.new}
    BY <2>1, <2>2, <1>1, <1>2, <1>7 DEF RenameUse
  <2>3. CASE u.name \notin {job.old, job.new}
    <3>1. Finds(tree, u)
      BY <2>1, <2>3 DEF RenameUse, Of
    <3> QED  BY <3>1, <2>3, <1>1, <1>5 DEF RenameUse
  <2> QED  BY <2>2, <2>3
<1>8. ASSUME NEW g \in DOMAIN tree
      PROVE  /\ job.old \in tree'[g].defs => g = job.src /\ g \in job.todo \ {f}
             /\ \A u \in tree'[g].uses : RenameUse(g, u)'
             /\ \A u, v \in tree'[g].uses : u.name # job.old \/ v.name # job.new
  <2>1. CASE g = f
    BY <2>1, <1>2, <1>4, <1>6
  <2>2. CASE g # f
    BY <2>2, <1>2, <1>3, <1>7
  <2> QED  BY <2>1, <2>2
<1>9. IF job.src \in job.todo \ {f} THEN job.old \in tree'[job.src].defs
                                    ELSE job.new \in tree'[job.src].defs
  BY <1>0, <1>2, <1>3, <1>4
<1>10. ASSUME job.srcLast, NEW g \in DOMAIN tree, NEW u \in tree'[g].uses,
              Of(u, job.src, job.old)
       PROVE  /\ u.call => <<g, job.src, job.old>> \in calls
              /\ <<g, job.src, job.old>> \in calls => g \in job.todo \ {f}
  <2>1. g # f
    BY <1>6, <1>10 DEF Of
  <2>2. u \in tree[g].uses
    BY <2>1, <1>2, <1>10
  <2> QED  BY <2>1, <2>2, <1>3, <1>10
<1>11. job.srcLast /\ job.todo \ {f} # {} => job.src \in job.todo \ {f}
  BY <1>0, <1>3
<1> QED  BY <1>0, <1>1, <1>2, <1>3, <1>8, <1>9, <1>10, <1>11 DEF RenameOK

\* ... or by a move or the rename of a file.
LEMMA WriteRedirectedOK ==
    ASSUME RefTyped, RefInv, NEW f \in DOMAIN tree, WriteFile(f), job.kind # "rename"
    PROVE  RefInv'
<1>0. /\ IsTree(tree) /\ job \in Refactorings
      /\ job.at = "write" /\ f \in job.todo
      /\ tree' = [tree EXCEPT ![f] = RedirectedText(f, tree[f])]
  BY JobParts DEF RefTyped, RefactorTypeOK, WriteFile
<1>1. /\ job'.kind = job.kind /\ job'.whole = job.whole /\ job'.at = "write"
      /\ job'.src = job.src /\ job'.dst = job.dst /\ job'.old = job.old
      /\ job'.todo = job.todo \ {f}
      /\ job.src \in Paths /\ job.dst \in Paths
      /\ job.kind \in {"move", "renameFile"} /\ job.whole \in BOOLEAN
  BY <1>0 DEF WriteFile, Refactorings
<1>2. tree[f] \in Text /\ tree[f].uses \subseteq Use
  BY <1>0, TreeTexts
<1>3. /\ DOMAIN tree' = DOMAIN tree /\ \A g \in (DOMAIN tree) \ {f} : tree'[g] = tree[g]
      /\ tree'[f].uses = {Redirect(f, u, job.kind, job.src, job.dst) : u \in tree[f].uses}
      /\ \A g \in DOMAIN tree : tree'[g].defs = tree[g].defs
  <2>1. tree'[f] = RedirectedText(f, tree[f]) /\ DOMAIN tree' = DOMAIN tree
        /\ \A g \in (DOMAIN tree) \ {f} : tree'[g] = tree[g]
    BY <1>0 DEF IsTree
  <2> QED  BY <2>1, <1>0, <1>2, NewTexts
<1>d. \A u : Finds(tree', u) <=> Finds(tree, u)
  BY <1>3 DEF Finds
<1>u. ASSUME NEW v \in tree'[f].uses
      PROVE  \E u \in tree[f].uses :
                /\ v.name = u.name /\ v.call = u.call /\ v.known = u.known
                /\ v.from = IF u.from = f \/ job.kind \notin u.known THEN u.from
                            ELSE IF u.from = job.src THEN job.dst
                            ELSE IF job.kind = "renameFile" /\ <<u.from, job.src>> \in Longer
                                 THEN Nowhere
                            ELSE u.from
  <2>1. PICK u \in tree[f].uses : v = Redirect(f, u, job.kind, job.src, job.dst)
    BY <1>3, <1>u
  <2> QED  BY <2>1, <1>1, <1>2, RedirectIs
<1>4. CASE job.kind = "renameFile" /\ job.whole
  <2>1. /\ job.src \notin DOMAIN tree /\ job.dst \in DOMAIN tree
        /\ \A g \in DOMAIN tree : \A u \in tree[g].uses : RenameFileUse(g, u)
    BY <1>4 DEF RefInv, RenameFileOK
  <2>2. ASSUME NEW v \in tree'[f].uses  PROVE RenameFileUse(f, v)'
    <3>1. PICK u \in tree[f].uses :
             /\ v.name = u.name /\ v.known = u.known
             /\ v.from = IF u.from = f \/ "renameFile" \notin u.known THEN u.from
                         ELSE IF u.from = job.src THEN job.dst
                         ELSE IF <<u.from, job.src>> \in Longer THEN Nowhere
                         ELSE u.from
      BY <2>2, <1>u, <1>4
    <3>2. RenameFileUse(f, u)
      BY <2>1
    <3>3. CASE Finds(tree, u)
      <4>1. u.from # job.src /\ u.from \in Paths
        BY <3>3, <2>1, <1>0 DEF Finds, IsTree
      <4>2. CASE v.from = u.from
        <5>1. Finds(tree, v)
          BY <4>2, <3>1, <3>3 DEF Finds
        <5> QED  BY <5>1, <1>d DEF RenameFileUse
      <4>3. CASE v.from # u.from
        BY <4>1, <4>3, <3>1, <1>1 DEF RenameFileUse
      <4> QED  BY <4>2, <4>3
    <3>4. CASE u.from = job.src /\ "renameFile" \in u.known /\ u.name \in tree[job.dst].defs
      <4>1. v.from = job.dst
        BY <3>1, <3>4, <2>1
      <4>2. Finds(tree, v)
        BY <4>1, <3>1, <3>4, <2>1 DEF Finds
      <4> QED  BY <4>2, <1>d DEF RenameFileUse
    <3>5. CASE u.from = job.src /\ "renameFile" \notin u.known
      BY <3>1, <3>5, <1>1 DEF RenameFileUse
    <3>6. CASE /\ u.from = Nowhere
               /\ IF "renameFile" \in u.known THEN \E q \in Paths : <<q, job.src>> \in Longer
                                              ELSE f = job.dst
      <4>1. v.from = Nowhere
        BY <3>1, <3>6, <1>1, RefactorAssumption
      <4> QED  BY <4>1, <3>1, <3>6, <1>1 DEF RenameFileUse
    <3> QED  BY <3>2, <3>3, <3>4, <3>5, <3>6 DEF RenameFileUse
  <2>3. ASSUME NEW g \in (DOMAIN tree) \ {f}, NEW u \in tree[g].uses
        PROVE  RenameFileUse(g, u)'
    <3>1. RenameFileUse(g, u) /\ g # f
      BY <2>1, <2>3
    <3> QED  BY <3>1, <2>1, <1>1, <1>3, <1>d DEF RenameFileUse
  <2>4. RenameFileOK'
    BY <2>1, <2>2, <2>3, <1>1, <1>3 DEF RenameFileOK
  <2> QED  BY <2>4, <1>1, <1>4 DEF RefInv, RenameOK, MoveOK
<1>5. CASE job.kind = "move" /\ job.whole
  <2>1. /\ job.src # job.dst /\ job.src \in DOMAIN tree /\ job.old \notin tree[job.src].defs
        /\ job.dst \in DOMAIN tree /\ job.old \in tree[job.dst].defs
        /\ \A g \in (DOMAIN tree) \ {job.src} : \A u \in tree[g].uses :
              Of(u, job.src, job.old) /\ u.call /\ "move" \in u.known => g \in job.todo
    BY <1>0, <1>5 DEF RefInv, MoveOK
  <2>2. ASSUME f # job.src, NEW v \in tree'[f].uses, "move" \in v.known
        PROVE  v.from # job.src
    BY <2>1, <2>2, <1>u, <1>5
  <2>3. \A g \in (DOMAIN tree) \ {job.src} : \A u \in tree'[g].uses :
           Of(u, job.src, job.old) /\ u.call /\ "move" \in u.known => g \in job.todo \ {f}
    BY <2>1, <2>2, <1>3 DEF Of
  <2>4. MoveOK'
    BY <2>1, <2>3, <1>1, <1>3 DEF MoveOK
  <2> QED  BY <2>4, <1>1, <1>5 DEF RefInv, RenameOK, RenameFileOK
<1>6. CASE ~job.whole
  BY <1>1, <1>6 DEF RefInv, RenameOK, RenameFileOK, MoveOK
<1> QED  BY <1>1, <1>4, <1>5, <1>6

\* A refactoring that gives up what was known of it.
LEMMA NotWholeOK ==
    ASSUME job'.kind # "none" => ~job'.whole
    PROVE  RefInv'
BY DEF RefInv, RenameOK, RenameFileOK, MoveOK

\* The element is pasted.
LEMMA PasteOK ==
    ASSUME RefTyped, RefInv, Paste
    PROVE  RefInv'
<1>0. IsTree(tree) /\ job \in Refactorings /\ job.kind = "move" /\ job.at = "paste"
  BY JobParts DEF RefTyped, RefactorTypeOK, Paste, JobTyped
<1>1. /\ job'.kind = "move" /\ job'.whole = job.whole /\ job'.at = "write"
      /\ job'.src = job.src /\ job'.dst = job.dst /\ job'.old = job.old /\ job'.todo = job.todo
      /\ job.text \in Text /\ job.old \in Names
  BY <1>0 DEF Paste, Refactorings
<1> SUFFICES ASSUME job.whole  PROVE MoveOK'
  BY <1>1 DEF RefInv, RenameOK, RenameFileOK, MoveOK
<1>2. /\ job.src # job.dst /\ job.src \in DOMAIN tree /\ job.old \notin tree[job.src].defs
      /\ job.text = IF job.dst \in DOMAIN tree THEN tree[job.dst] ELSE NoText
      /\ \A g \in (DOMAIN tree) \ {job.src} : \A u \in tree[g].uses :
            Of(u, job.src, job.old) /\ u.call /\ "move" \in u.known => g \in job.todo
  BY <1>0 DEF RefInv, MoveOK
<1>3. job.text.uses = {} \/ (job.dst \in DOMAIN tree /\ job.text = tree[job.dst])
  BY <1>2 DEF NoText
<1>4. tree' = [f \in (DOMAIN tree) \cup {job.dst} |->
                 IF f = job.dst THEN [job.text EXCEPT !.defs = @ \cup {job.old}] ELSE tree[f]]
  BY DEF Paste
<1>5. /\ DOMAIN tree' = (DOMAIN tree) \cup {job.dst}
      /\ \A f \in (DOMAIN tree) \ {job.dst} : tree'[f] = tree[f]
      /\ job.old \in tree'[job.dst].defs /\ tree'[job.dst].uses = job.text.uses
  BY <1>1, <1>4 DEF Text
<1> QED  BY <1>1, <1>2, <1>3, <1>5 DEF MoveOK

\* The index is built anew.
LEMMA BuildOK ==
    ASSUME RefTyped, RefInv, BuildIndex
    PROVE  RefInv'
<1>0. IsTree(tree) /\ UNCHANGED <<tree, job>> /\ calls' = CallsOf(tree)
  BY DEF RefTyped, RefactorTypeOK, BuildIndex
<1>1. RenameFileOK' /\ MoveOK'
  BY <1>0 DEF RefInv, RenameFileOK, RenameFileUse, MoveOK
<1>2. CASE job.kind = "rename" /\ job.whole
  <2>1. /\ job.old # job.new /\ job.src \in DOMAIN tree
        /\ \A f \in DOMAIN tree : \A u \in tree[f].uses : RenameUse(f, u)
        /\ job.src \in job.todo => job.old \in tree[job.src].defs
        /\ job.srcLast /\ job.todo # {} => job.src \in job.todo
        /\ job.old \in Names
    <3>1. job.old \in Names
      BY <1>2, JobParts DEF RefTyped
    <3> QED  BY <3>1, <1>2 DEF RefInv, RenameOK
  <2>2. ASSUME job.srcLast, NEW f \in DOMAIN tree, NEW u \in tree[f].uses,
               Of(u, job.src, job.old), u.call
        PROVE  f \in job.todo /\ <<f, job.src, job.old>> \in CallsOf(tree)
    <3>1. f \in job.todo
      BY <2>1, <2>2 DEF RenameUse, Of
    <3>2. job.old \in tree[job.src].defs
      BY <3>1, <2>1, <2>2
    <3> QED  BY <3>1, <3>2, <2>1, <2>2, <1>0, CallEdges DEF Of
  <2>3. ASSUME job.srcLast, NEW f \in DOMAIN tree, <<f, job.src, job.old>> \in CallsOf(tree)
        PROVE  f \in job.todo
    <3>1. PICK v \in tree[f].uses : v.call /\ v.name = job.old
      BY <2>1, <2>3, <1>0, CallEdges
    <3>2. Of(v, job.src, job.old)
      BY <3>1, <2>1 DEF RenameUse, Of
    <3> QED  BY <3>1, <3>2, <2>2, <2>3
  <2>4. RenameOK'
    BY <2>2, <2>3, <1>0, <1>2 DEF RefInv, RenameOK, RenameUse
  <2> QED  BY <2>4, <1>1 DEF RefInv
<1>3. CASE ~(job.kind = "rename" /\ job.whole)
  BY <1>0, <1>1, <1>3 DEF RefInv, RenameOK
<1> QED  BY <1>2, <1>3

\* The process is killed.
LEMMA KillOK ==
    ASSUME RefTyped, RefInv, KillRefactoring
    PROVE  RefInv'
<1>0. job \in Refactorings /\ job.at \in {"write", "paste", "commit"} /\ UNCHANGED <<tree, calls>>
      /\ (job.at = "paste" => job.kind = "move")
  BY JobParts DEF RefTyped, KillRefactoring, JobTyped, refactorTables
<1>1. /\ job'.kind = job.kind /\ job'.at = "killed" /\ job'.src = job.src /\ job'.dst = job.dst
      /\ job'.old = job.old /\ job'.new = job.new /\ job'.todo = job.todo
      /\ job'.srcLast = job.srcLast
      /\ job'.whole = (job.whole /\ job.kind = "rename" /\ job.srcLast)
  BY <1>0 DEF KillRefactoring, Refactorings
<1>2. CASE job'.whole
  <2>1. job.kind = "rename" /\ job.whole /\ job.srcLast /\ job.at \in {"write", "commit"}
    BY <1>0, <1>1, <1>2
  <2>2. RenameOK'
    BY <2>1, <1>0, <1>1 DEF RefInv, RenameOK, RenameUse
  <2> QED  BY <2>1, <2>2, <1>1 DEF RefInv, RenameFileOK, MoveOK
<1>3. CASE ~job'.whole
  BY <1>3, NotWholeOK
<1> QED  BY <1>2, <1>3

\* Every step keeps what is left of a refactoring in order.
LEMMA RefNextKeeps ==
    ASSUME RefTyped, RefInv, [RefactorNext]_refactorVars
    PROVE  RefInv'
<1>0. JobTyped
  BY DEF RefTyped
<1>m. ASSUME job \in Refactorings, UNCHANGED tree,
             NEW at \in {"commit", "reindex", "done"}, NEW touched,
             job' = [job EXCEPT !.at = at, !.touched = touched],
             job.todo = {} \/ job.at \in {"commit", "reindex", "done"},
             job.at # "paste",
             at = "commit" => calls' = calls /\ job.at = "write"
      PROVE  RefInv'
  <2>1. /\ job'.kind = job.kind /\ job'.at = at /\ job'.src = job.src /\ job'.dst = job.dst
        /\ job'.old = job.old /\ job'.new = job.new /\ job'.todo = job.todo
        /\ job'.srcLast = job.srcLast /\ job'.whole = job.whole
    BY <1>m DEF Refactorings
  <2>2. job.kind # "none" /\ job.whole => job.todo = {}
    BY <1>m DEF RefInv, RenameOK, RenameFileOK, MoveOK, Refactorings
  <2>3. RenameOK'
    <3> SUFFICES ASSUME job.kind = "rename", job.whole  PROVE RenameOK'
      BY <2>1 DEF RenameOK
    <3>1. job.todo = {} /\ RenameOK
      BY <2>2 DEF RefInv
    <3>2. \A f, u : RenameUse(f, u)' <=> RenameUse(f, u)
      BY <2>1, <1>m DEF RenameUse
    <3>3. at = "commit" => calls' = calls /\ job.at = "write"
      BY <1>m
    <3> QED  BY <2>1, <3>1, <3>2, <3>3, <1>m DEF RenameOK
  <2>4. RenameFileOK' /\ MoveOK'
    BY <2>1, <2>2, <1>m DEF RefInv, RenameFileOK, RenameFileUse, MoveOK
  <2> QED  BY <2>3, <2>4 DEF RefInv
<1>1. CASE CommitToGit
  <2>1. job \in Refactorings /\ job.at = "write" /\ job.todo = {}
    BY <1>0, <1>1, JobParts DEF CommitToGit
  <2>2. job' = [job EXCEPT !.at = "commit", !.touched = job.touched] /\ UNCHANGED <<tree, calls>>
    BY <2>1, <1>1 DEF CommitToGit, Refactorings, refactorTables
  <2> QED  BY <2>1, <2>2, <1>m
<1>2. CASE BeginReindex
  <2>1. job \in Refactorings /\ job.at = "commit"
    BY <1>0, <1>2, JobParts DEF BeginReindex
  <2>2. job' = [job EXCEPT !.at = "reindex", !.touched = job.touched] /\ UNCHANGED tree
    BY <2>1, <1>2 DEF BeginReindex, Refactorings
  <2> QED  BY <2>1, <2>2, <1>m
<1>3. ASSUME NEW f \in Paths, ReindexFile(f)  PROVE RefInv'
  <2>1. job \in Refactorings /\ job.at = "reindex"
    BY <1>0, <1>3, JobParts DEF ReindexFile
  <2>2. job' = [job EXCEPT !.at = "reindex", !.touched = job.touched \ {f}] /\ UNCHANGED tree
    BY <2>1, <1>3 DEF ReindexFile, Refactorings
  <2> QED  BY <2>1, <2>2, <1>m
<1>4. CASE FinishRefactoring
  <2>1. job \in Refactorings /\ job.at = "reindex"
    BY <1>0, <1>4, JobParts DEF FinishRefactoring
  <2>2. job' = [job EXCEPT !.at = "done", !.touched = job.touched] /\ UNCHANGED tree
    BY <2>1, <1>4 DEF FinishRefactoring, Refactorings
  <2> QED  BY <2>1, <2>2, <1>m
<1>5. ASSUME NEW f \in DOMAIN tree, EditUse(f)  PROVE RefInv'
  <2>1. job'.kind # "none" => ~job'.whole
    BY <1>0, <1>5 DEF EditUse, Disturb, JobTyped, Refactorings
  <2> QED  BY <2>1, NotWholeOK
<1>6. ASSUME NEW f \in DOMAIN tree, WriteFile(f)  PROVE RefInv'
  <2>1. CASE job.kind = "rename"
    <3>1. job'.kind = "rename"
      BY <2>1, <1>0, <1>6 DEF WriteFile, JobTyped, Refactorings
    <3> QED  BY <3>1, <2>1, <1>6, WriteRenamedOK DEF RefInv, RenameFileOK, MoveOK
  <2> QED  BY <2>1, <1>6, WriteRedirectedOK
<1>7. ASSUME NEW src \in Paths, NEW dst \in Paths,
             BeginRenameFile(src, dst) \/ \E n \in Names : BeginMove(src, n, dst)
      PROVE  RefInv'
  BY <1>7, BeginRenameFileOK, BeginMoveOK
<1>8. ASSUME NEW src \in Paths, NEW old \in Names, NEW new \in Names, BeginRename(src, old, new)
      PROVE  RefInv'
  BY <1>8, BeginRenameOK
<1>9. CASE UNCHANGED refactorVars
  BY <1>9 DEF refactorVars, RefInv, RenameOK, RenameFileOK, MoveOK, RenameUse, RenameFileUse
<1> QED  BY <1>1, <1>2, <1>3, <1>4, <1>5, <1>6, <1>7, <1>8, <1>9, BuildOK, KillOK, PasteOK
         DEF RefactorNext

\* A refactoring asked for with an exact index reaches the callers that the index
\* knows, and the imports in a form that the patterns know; a rename of a symbol
\* also when it is killed and asked for again, with an index run in between or
\* without (refactor.py), for any paths, names, trees and forms of imports.
THEOREM RefactoringsReach == RefactorSpec => []RefactoringsReachKnown
<1> DEFINE IInv == RefTyped /\ RefInv
<1>1. RefactorInit => IInv
  <2>1. RefactorInit => RefInv
    BY DEF RefactorInit, RefInv, RenameOK, RenameFileOK, MoveOK
  <2> QED  BY <2>1, RefInitTyped
<1>2. IInv /\ [RefactorNext]_refactorVars => IInv'
  BY RefNextTyped, RefNextKeeps
<1>3. ASSUME IInv  PROVE RefactoringsReachKnown
  <2>1. RenameReachesCallers
    <3> SUFFICES ASSUME job.at = "done", job.kind = "rename", job.whole,
                        NEW f \in DOMAIN tree, NEW u \in tree[f].uses, ~Finds(tree, u)
                 PROVE  /\ Of(u, job.src, job.old) /\ f # job.src
                        /\ \A v \in tree[f].uses :
                              v.call => ~Of(v, job.src, job.old) /\ ~Of(v, job.src, job.new)
      BY DEF RenameReachesCallers
    <3>1. /\ job.todo = {} /\ job.src \in DOMAIN tree /\ job.new \in tree[job.src].defs
          /\ RenameUse(f, u)
          /\ \A v \in tree[f].uses : u.name # job.old \/ v.name # job.new
      BY <1>3 DEF RefInv, RenameOK
    <3>2. ~Of(u, job.src, job.new)
      BY <3>1 DEF Of, Finds
    <3> QED  BY <3>1, <3>2 DEF RenameUse, Of
  <2>2. RenameFileReachesImporters
    BY <1>3 DEF RefInv, RenameFileOK, RenameFileUse, RenameFileReachesImporters
  <2>3. MoveReachesCallers
    BY <1>3 DEF RefInv, MoveOK, MoveReachesCallers
  <2> QED  BY <2>1, <2>2, <2>3 DEF RefactoringsReachKnown
<1> QED  BY <1>1, <1>2, <1>3, PTL DEF RefactorSpec

-----------------------------------------------------------------------------
(* The instance.                                                           *)

(* A behaviour of the instance is one of each of its components, so what   *)
(* is proved of a component holds in the instance that is model-checked.   *)
THEOREM ToolsCompose == Spec => SharedServerSpec /\ MroSpec /\ RefactorSpec
  <1>1. Init => SharedServerInit /\ MroInit /\ RefactorInit
    BY DEF Init
  <1>2. [Next]_vars => /\ [SharedServerNext]_sharedServerVars
                       /\ [MroNext]_mroVars
                       /\ [RefactorNext]_refactorVars
    BY DEF Next, NextOf, vars
  <1>. QED
    BY <1>1, <1>2, PTL DEF Spec, SharedServerSpec, MroSpec, RefactorSpec

(* Every variable of the instance keeps its type.                          *)
THEOREM ToolsTypeCorrect == Spec => []TypeOK
  <1>1. SharedServerTypeOK /\ MroTypeOK /\ RefactorTypeOK => TypeOK
    BY DEF TypeOK
  <1>. QED
    BY <1>1, ToolsCompose, SharedServerTypeCorrect, MroTypeCorrect, RefactorTypeCorrect, PTL
=============================================================================
