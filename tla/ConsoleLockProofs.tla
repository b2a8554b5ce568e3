------------------------- MODULE ConsoleLockProofs --------------------------
(***************************************************************************)
(* Theorems about ConsoleLock, for any nodes and any number of requests.   *)
(***************************************************************************)
EXTENDS ConsoleLock, TLAPS

\* Type correctness: every variable of ConsoleLock keeps its type.
THEOREM TypeCorrect == Spec => []TypeOK
<1> USE ConstantsAssumption DEF Users, ConsolePCs, VerifyPCs, Free
<1>1. Init => TypeOK
  BY DEF Init, TypeOK
<1>2. TypeOK /\ [Next]_vars => TypeOK'
  <2> SUFFICES ASSUME TypeOK, [Next]_vars PROVE TypeOK'
    OBVIOUS
  <2> USE DEF TypeOK, Goto, lockVars
  <2>1. ASSUME NEW c \in Consoles, NEW n \in Nodes, ConsoleTryLock(c, n) PROVE TypeOK'
    <3>1. CASE TryLock(c, n, "console") /\ Goto(c, "upgrade")
      BY <2>1, <3>1 DEF ConsoleTryLock, TryLock
    <3>2. CASE TryLockFails(n) /\ Goto(c, "done")
      BY <2>1, <3>2 DEF ConsoleTryLock, TryLockFails
    <3> QED
      BY <2>1, <3>1, <3>2 DEF ConsoleTryLock
  <2>2. ASSUME NEW c \in Consoles, ConsoleStep(c) \/ WebSocketDies(c) \/ NodeHangsUp(c)
        PROVE  TypeOK'
    <3>1. CASE ConsoleUpgrade(c)
      BY <3>1 DEF ConsoleUpgrade
    <3>2. CASE ConsoleRegister(c)
      BY <3>2 DEF ConsoleRegister, SetPreempt
    <3>3. CASE ConsoleDial(c)
      BY <3>3 DEF ConsoleDial
    <3>4. CASE ConsoleBridgeEnds(c)
      BY <3>4 DEF ConsoleBridgeEnds
    <3>5. CASE ConsoleCloseTCP(c)
      BY <3>5 DEF ConsoleCloseTCP
    <3>6. CASE ConsoleCloseWS(c)
      BY <3>6 DEF ConsoleCloseWS
    <3>7. CASE ConsoleUnlock(c)
      BY <3>7 DEF ConsoleUnlock, Unlock
    <3>8. CASE WebSocketDies(c)
      BY <3>8 DEF WebSocketDies
    <3>9. CASE NodeHangsUp(c)
      BY <3>9 DEF NodeHangsUp
    <3> QED
      BY <2>2, <3>1, <3>2, <3>3, <3>4, <3>5, <3>6, <3>7, <3>8, <3>9 DEF ConsoleStep
  <2>3. ASSUME NEW v \in Verifies, NEW n \in Nodes, VerifyTryLock(v, n) PROVE TypeOK'
    <3>1. CASE TryLock(v, n, "verify") /\ Goto(v, "dial")
      BY <2>3, <3>1 DEF VerifyTryLock, TryLock
    <3>2. CASE TryLockFails(n)
      BY <2>3, <3>2 DEF VerifyTryLock, TryLockFails
    <3> QED
      BY <2>3, <3>1, <3>2 DEF VerifyTryLock
  <2>4. ASSUME NEW v \in Verifies, VerifyStep(v) PROVE TypeOK'
    <3>1. CASE VerifyForceRelease(v)
      <4>1. node[v] \in Nodes
        BY <3>1 DEF VerifyForceRelease
      <4>2. CASE ForceRelease(v, "console") /\ Goto(v, "preempt")
        <5>1. victim' \in [Verifies -> Consoles \cup {None}]
          BY <4>1, <4>2 DEF ForceRelease
        <5>2. locks' \in [Nodes -> [holder : {"none", "console", "verify"}, token : Nat,
                                    preempt : Consoles \cup {None}]]
          BY <4>2 DEF ForceRelease
        <5>3. nextToken' \in Nat /\ token' \in [Users -> Nat]
          BY <4>2 DEF ForceRelease
        <5>4. /\ pc' \in [Users -> ConsolePCs \cup VerifyPCs]
              /\ \A c \in Consoles : pc'[c] \in ConsolePCs
              /\ \A w \in Verifies : pc'[w] \in VerifyPCs
          BY <4>2
        <5>5. \A p \in Users : pc'[p] # "ready" => node'[p] \in Nodes
          BY <3>1, <4>1, <4>2 DEF VerifyForceRelease
        <5> QED
          BY <3>1, <5>1, <5>2, <5>3, <5>4, <5>5 DEF VerifyForceRelease
      <4>3. CASE Goto(v, "retry") /\ UNCHANGED <<lockVars, victim>>
        BY <3>1, <4>3 DEF VerifyForceRelease
      <4> QED
        BY <3>1, <4>2, <4>3 DEF VerifyForceRelease
    <3>2. CASE VerifyPreempt(v)
      BY <3>2 DEF VerifyPreempt
    <3>3. CASE VerifyRetry(v)
      <4>1. CASE TryLock(v, node[v], "verify") /\ Goto(v, "dial")
        BY <3>3, <4>1 DEF VerifyRetry, TryLock
      <4>2. CASE TryLockFails(node[v]) /\ Goto(v, "done")
        BY <3>3, <4>2 DEF VerifyRetry, TryLockFails
      <4> QED
        BY <3>3, <4>1, <4>2 DEF VerifyRetry
    <3>4. CASE VerifyDial(v)
      <4>1. left[v] - 1 \in Nat
        BY <3>4 DEF VerifyDial
      <4>2. left' \in [Verifies -> Nat]
        BY <3>4, <4>1 DEF VerifyDial
      <4>3. CASE tcp' = [tcp EXCEPT ![v] = TRUE] /\ Goto(v, "converse")
        BY <3>4, <4>2, <4>3 DEF VerifyDial
      <4>4. CASE UNCHANGED <<tcp, pc>>
        BY <3>4, <4>2, <4>4 DEF VerifyDial
      <4> QED
        BY <3>4, <4>3, <4>4 DEF VerifyDial
    <3>5. CASE VerifyHangUp(v)
      BY <3>5 DEF VerifyHangUp
    <3>6. CASE VerifyUnlock(v)
      <4>1. node[v] \in Nodes
        BY <3>6 DEF VerifyUnlock
      <4>2. locks' \in [Nodes -> [holder : {"none", "console", "verify"}, token : Nat,
                                  preempt : Consoles \cup {None}]]
        BY <3>6, <4>1 DEF VerifyUnlock, Unlock
      <4>3. nextToken' \in Nat /\ token' \in [Users -> Nat]
        BY <3>6 DEF VerifyUnlock, Unlock
      <4> QED
        BY <3>6, <4>1, <4>2, <4>3 DEF VerifyUnlock
    <3> QED
      BY <2>4, <3>1, <3>2, <3>3, <3>4, <3>5, <3>6 DEF VerifyStep
  <2>5. CASE UNCHANGED vars
    BY <2>5 DEF vars
  <2> QED
    BY <2>1, <2>2, <2>3, <2>4, <2>5 DEF Next, ClientStep
<1> QED
  BY <1>1, <1>2, PTL DEF Spec
-----------------------------------------------------------------------------
(***************************************************************************)
(* Tokens, entries and connections.                                        *)
(***************************************************************************)

\* A verification never loses its entry; without preemption nobody does, and
\* the control points of preemption are not reached.
KeepInv ==
    /\ VerifyKeepsLock
    /\ ~ Preemption => \A p \in Users : /\ Holding(p) => Owns(p)
                                        /\ pc[p] \notin {"force", "preempt", "retry"}

IInv == TypeOK /\ TokensUnique /\ EntriesHeld /\ KeepInv

\* A step that neither takes nor gives up an entry keeps the invariant; it may
\* register a callback.
LEMMA QuietStep ==
  ASSUME IInv, TypeOK',
         UNCHANGED <<nextToken, token>>,
         \A n \in Nodes : /\ locks'[n].token = locks[n].token
                          /\ locks'[n].holder = locks[n].holder
                          /\ locks'[n] # Free => locks[n] # Free,
         \A p \in Users : /\ Holding(p)' <=> Holding(p)
                          /\ Holding(p) => node'[p] = node[p],
         ~ Preemption => \A p \in Users : pc'[p] \notin {"force", "preempt", "retry"}
  PROVE  IInv'
<1>1. TokensUnique'
  BY DEF IInv, TokensUnique
<1>2. EntriesHeld'
  BY DEF IInv, EntriesHeld
<1>3. KeepInv'
  <2>1. ASSUME NEW p \in Users, Holding(p), Owns(p) PROVE Owns(p)'
    <3>1. node[p] \in Nodes
      BY <2>1 DEF IInv, TypeOK, Holding
    <3> QED
      BY <2>1, <3>1 DEF Owns
  <2> QED
    BY <2>1 DEF IInv, KeepInv, VerifyKeepsLock, Users
<1> QED
  BY <1>1, <1>2, <1>3 DEF IInv

\* A successful TryLock.
LEMMA AcquireStep ==
  ASSUME IInv, TypeOK',
         NEW u \in Users, NEW n \in Nodes,
         TryLock(u, n, IF u \in Consoles THEN "console" ELSE "verify"),
         ~ Holding(u), Holding(u)', node'[u] = n,
         \A p \in Users \ {u} : (Holding(p)' <=> Holding(p)) /\ node'[p] = node[p],
         ~ Preemption => \A p \in Users : pc'[p] \notin {"force", "preempt", "retry"}
  PROVE  IInv'
<1> USE DEF Free
<1>1. /\ token'[u] = nextToken + 1 /\ nextToken' = nextToken + 1
      /\ \A p \in Users \ {u} : token'[p] = token[p]
      /\ locks'[n].token = nextToken + 1
      /\ locks'[n].holder = IF u \in Consoles THEN "console" ELSE "verify"
      /\ \A m \in Nodes \ {n} : locks'[m] = locks[m]
      /\ nextToken \in Nat /\ token \in [Users -> Nat]
  BY DEF IInv, TypeOK, TryLock
<1>2. \A p \in Users : Holding(p) => node[p] # n \/ ~ Owns(p)
  BY DEF IInv, TokensUnique, Owns, TryLock
<1>3. TokensUnique'
  BY <1>1 DEF IInv, TokensUnique
<1>4. EntriesHeld'
  BY <1>1 DEF IInv, EntriesHeld
<1>5. KeepInv'
  <2>1. ASSUME NEW p \in Users \ {u}, Holding(p), Owns(p) PROVE Owns(p)'
    <3>1. node[p] \in Nodes
      BY <2>1 DEF IInv, TypeOK, Holding
    <3> QED
      BY <1>1, <1>2, <2>1, <3>1 DEF Owns
  <2>2. Owns(u)'
    BY <1>1 DEF Owns
  <2> QED
    BY <2>1, <2>2 DEF IInv, KeepInv, VerifyKeepsLock, Users
<1> QED
  BY <1>3, <1>4, <1>5 DEF IInv

\* The unlock of a request, stale or not.
LEMMA ReleaseStep ==
  ASSUME IInv, TypeOK',
         NEW u \in Users, Unlock(u), Holding(u), ~ Holding(u)',
         UNCHANGED node,
         \A p \in Users \ {u} : Holding(p)' <=> Holding(p),
         ~ Preemption => \A p \in Users : pc'[p] \notin {"force", "preempt", "retry"}
  PROVE  IInv'
<1> USE DEF Free
<1>1. node[u] \in Nodes
  BY DEF IInv, TypeOK, Holding
<1>2. /\ UNCHANGED <<nextToken, token>>
      /\ \A n \in Nodes : locks'[n] # Free => locks'[n] = locks[n]
      /\ \A n \in Nodes : locks'[n] # locks[n] => n = node[u] /\ locks[n].token = token[u]
      /\ locks'[node[u]].token # token[u]
  BY <1>1 DEF IInv, TypeOK, Unlock, TokensUnique
<1>3. TokensUnique'
  BY <1>2 DEF IInv, TokensUnique
<1>4. EntriesHeld'
  <2> SUFFICES ASSUME NEW n \in Nodes, locks'[n] # Free
               PROVE  /\ locks'[n].token > 0
                      /\ \E p \in Users :
                            /\ Holding(p)' /\ node'[p] = n /\ token'[p] = locks'[n].token
                            /\ locks'[n].holder = IF p \in Consoles THEN "console" ELSE "verify"
    BY DEF EntriesHeld
  <2>1. locks'[n] = locks[n]
    BY <1>2
  <2>2. PICK p \in Users :
            /\ Holding(p) /\ node[p] = n /\ token[p] = locks[n].token
            /\ locks[n].holder = IF p \in Consoles THEN "console" ELSE "verify"
    BY <2>1 DEF IInv, EntriesHeld
  <2>3. p # u
    BY <1>2, <2>1, <2>2
  <2> QED
    BY <1>2, <2>1, <2>2, <2>3 DEF IInv, EntriesHeld
<1>5. KeepInv'
  <2>1. ASSUME NEW p \in Users \ {u}, Holding(p), Owns(p) PROVE Owns(p)'
    <3>1. node[p] \in Nodes /\ token[p] # token[u]
      BY <2>1 DEF IInv, TypeOK, Holding, TokensUnique
    <3> QED
      BY <1>2, <2>1, <3>1 DEF Owns
  <2> QED
    BY <2>1 DEF IInv, KeepInv, VerifyKeepsLock, Users
<1> QED
  BY <1>3, <1>4, <1>5 DEF IInv

\* ForceRelease takes the entry of a console only.
LEMMA PreemptStep ==
  ASSUME IInv, TypeOK', Preemption,
         NEW v \in Verifies, ForceRelease(v, "console"), node[v] \in Nodes,
         UNCHANGED node,
         \A p \in Users : Holding(p)' <=> Holding(p)
  PROVE  IInv'
<1> USE DEF Free
<1>1. /\ UNCHANGED <<nextToken, token>>
      /\ locks'[node[v]] = Free
      /\ \A n \in Nodes \ {node[v]} : locks'[n] = locks[n]
  BY DEF IInv, TypeOK, ForceRelease
<1>2. TokensUnique'
  BY <1>1 DEF IInv, TokensUnique
<1>3. EntriesHeld'
  BY <1>1 DEF IInv, EntriesHeld
<1>4. KeepInv'
  <2>1. ASSUME NEW w \in Verifies, Holding(w) PROVE Owns(w)'
    <3>1. node[w] \in Nodes /\ w \in Users /\ Owns(w)
      BY <2>1 DEF IInv, TypeOK, Holding, KeepInv, VerifyKeepsLock, Users
    <3>2. locks[node[w]] # Free
      BY <2>1, <3>1 DEF IInv, TokensUnique, Owns
    <3>3. PICK p \in Users :
            /\ Holding(p) /\ node[p] = node[w] /\ token[p] = locks[node[w]].token
            /\ locks[node[w]].holder = IF p \in Consoles THEN "console" ELSE "verify"
      BY <3>1, <3>2 DEF IInv, EntriesHeld
    <3>4. p = w
      BY <2>1, <3>1, <3>3 DEF IInv, TokensUnique, Owns
    <3>5. node[w] # node[v]
      BY <3>3, <3>4, ConstantsAssumption DEF ForceRelease
    <3> QED
      BY <1>1, <2>1, <3>1, <3>5 DEF Owns, Users
  <2> QED
    BY <2>1 DEF KeepInv, VerifyKeepsLock, Users
<1> QED
  BY <1>2, <1>3, <1>4 DEF IInv

\* Every step of Next is one of the four kinds.
LEMMA StepKeepsIInv == ASSUME IInv, TypeOK', [Next]_vars PROVE IInv'
<1> USE ConstantsAssumption DEF Users, Holding, Goto, lockVars
<1>0. /\ pc \in [Users -> ConsolePCs \cup VerifyPCs]
      /\ node \in [Users -> Nodes \cup {None}]
      /\ locks \in [Nodes -> [holder : {"none", "console", "verify"}, token : Nat,
                              preempt : Consoles \cup {None}]]
      /\ \A p \in Users : pc[p] # "ready" => node[p] \in Nodes
      /\ \A c \in Consoles : pc[c] \in ConsolePCs
      /\ \A v \in Verifies : pc[v] \in VerifyPCs
      /\ ~ Preemption => \A p \in Users : pc[p] \notin {"force", "preempt", "retry"}
  BY DEF IInv, TypeOK, KeepInv
<1>1. ASSUME NEW c \in Consoles, NEW n \in Nodes, ConsoleTryLock(c, n) PROVE IInv'
  <2>1. CASE TryLock(c, n, "console") /\ Goto(c, "upgrade")
    BY <1>0, <1>1, <2>1, AcquireStep DEF ConsoleTryLock
  <2>2. CASE TryLockFails(n) /\ Goto(c, "done")
    BY <1>0, <1>1, <2>2, QuietStep DEF ConsoleTryLock, TryLockFails
  <2> QED
    BY <1>1, <2>1, <2>2 DEF ConsoleTryLock
<1>2. ASSUME NEW c \in Consoles, ConsoleUpgrade(c) PROVE IInv'
  BY <1>0, <1>2, QuietStep DEF ConsoleUpgrade
<1>3. ASSUME NEW c \in Consoles, ConsoleRegister(c) PROVE IInv'
  BY <1>0, <1>3, QuietStep DEF ConsoleRegister, SetPreempt, Free
<1>4. ASSUME NEW c \in Consoles, ConsoleDial(c) PROVE IInv'
  BY <1>0, <1>4, QuietStep DEF ConsoleDial
<1>5. ASSUME NEW c \in Consoles,
             ConsoleBridgeEnds(c) \/ ConsoleCloseTCP(c) \/ ConsoleCloseWS(c)
      PROVE  IInv'
  BY <1>0, <1>5, QuietStep DEF ConsoleBridgeEnds, ConsoleCloseTCP, ConsoleCloseWS
<1>6. ASSUME NEW c \in Consoles, ConsoleUnlock(c) PROVE IInv'
  BY <1>0, <1>6, ReleaseStep DEF ConsoleUnlock
<1>7. ASSUME NEW c \in Consoles, WebSocketDies(c) \/ NodeHangsUp(c) PROVE IInv'
  BY <1>0, <1>7, QuietStep DEF WebSocketDies, NodeHangsUp
<1>8. ASSUME NEW v \in Verifies, NEW n \in Nodes, VerifyTryLock(v, n) PROVE IInv'
  <2>1. CASE TryLock(v, n, "verify") /\ Goto(v, "dial")
    BY <1>0, <1>8, <2>1, AcquireStep DEF VerifyTryLock
  <2>2. CASE /\ TryLockFails(n)
             /\ Goto(v, IF Preemption /\ locks[n].holder = "console" THEN "force" ELSE "done")
    BY <1>0, <1>8, <2>2, QuietStep DEF VerifyTryLock, TryLockFails
  <2> QED
    BY <1>8, <2>1, <2>2 DEF VerifyTryLock
<1>9. ASSUME NEW v \in Verifies, VerifyForceRelease(v) PROVE IInv'
  <2>1. CASE ForceRelease(v, "console") /\ Goto(v, "preempt")
    <3>1. Preemption /\ node[v] \in Nodes
      BY <1>0, <1>9 DEF VerifyForceRelease
    <3> QED
      BY <1>0, <1>9, <2>1, <3>1, PreemptStep DEF VerifyForceRelease
  <2>2. CASE Goto(v, "retry") /\ UNCHANGED <<lockVars, victim>>
    BY <1>0, <1>9, <2>2, QuietStep DEF VerifyForceRelease
  <2> QED
    BY <1>9, <2>1, <2>2 DEF VerifyForceRelease
<1>10. ASSUME NEW v \in Verifies, VerifyPreempt(v) PROVE IInv'
  BY <1>0, <1>10, QuietStep DEF VerifyPreempt
<1>11. ASSUME NEW v \in Verifies, VerifyRetry(v) PROVE IInv'
  <2>1. CASE TryLock(v, node[v], "verify") /\ Goto(v, "dial")
    <3>1. node[v] \in Nodes
      BY <1>0, <1>11 DEF VerifyRetry
    <3> QED
      BY <1>0, <1>11, <2>1, <3>1, AcquireStep DEF VerifyRetry
  <2>2. CASE TryLockFails(node[v]) /\ Goto(v, "done")
    BY <1>0, <1>11, <2>2, QuietStep DEF VerifyRetry, TryLockFails
  <2> QED
    BY <1>11, <2>1, <2>2 DEF VerifyRetry
<1>12. ASSUME NEW v \in Verifies, VerifyDial(v) \/ VerifyHangUp(v) PROVE IInv'
  BY <1>0, <1>12, QuietStep DEF VerifyDial, VerifyHangUp
<1>13. ASSUME NEW v \in Verifies, VerifyUnlock(v) PROVE IInv'
  BY <1>0, <1>13, ReleaseStep DEF VerifyUnlock
<1>14. CASE UNCHANGED vars
  BY <1>0, <1>14, QuietStep DEF vars
<1> QED
  BY <1>1, <1>2, <1>3, <1>4, <1>5, <1>6, <1>7, <1>8, <1>9, <1>10, <1>11, <1>12, <1>13, <1>14
     DEF Next, ClientStep, ConsoleStep, VerifyStep

\* The inductive invariant holds throughout.
LEMMA Inductive == Spec => []IInv
<1>1. Init => IInv
  <2>1. Init => TypeOK
    BY ConstantsAssumption DEF Init, TypeOK, Users, ConsolePCs, VerifyPCs, Free
  <2> QED
    BY <2>1 DEF Init, IInv, TokensUnique, EntriesHeld, KeepInv, VerifyKeepsLock, Holding, Users
<1>2. IInv /\ TypeOK' /\ [Next]_vars => IInv'
  BY StepKeepsIInv
<1> QED
  BY <1>1, <1>2, TypeCorrect, PTL DEF Spec

\* A connection is open only between TryLock and unlock.
LEMMA Connections == Spec => []ConnectedHolding
<1>1. Init => ConnectedHolding
  BY DEF Init, ConnectedHolding
<1>2. TypeOK /\ ConnectedHolding /\ [Next]_vars => ConnectedHolding'
  <2> SUFFICES ASSUME TypeOK, ConnectedHolding, [Next]_vars PROVE ConnectedHolding'
    OBVIOUS
  <2> USE ConstantsAssumption DEF TypeOK, ConnectedHolding, Users, Goto
  <2>1. ASSUME NEW c \in Consoles, ConsoleStep(c) PROVE ConnectedHolding'
    BY <2>1 DEF ConsoleStep, ConsoleUpgrade, ConsoleRegister, ConsoleDial, ConsoleBridgeEnds,
                ConsoleCloseTCP, ConsoleCloseWS, ConsoleUnlock
  <2>2. ASSUME NEW c \in Consoles, WebSocketDies(c) \/ NodeHangsUp(c) PROVE ConnectedHolding'
    BY <2>2 DEF WebSocketDies, NodeHangsUp
  <2>3. ASSUME NEW c \in Consoles, NEW n \in Nodes, ConsoleTryLock(c, n) PROVE ConnectedHolding'
    BY <2>3 DEF ConsoleTryLock
  <2>4. ASSUME NEW v \in Verifies, VerifyStep(v) PROVE ConnectedHolding'
    BY <2>4 DEF VerifyStep, VerifyForceRelease, VerifyPreempt, VerifyRetry, VerifyDial,
                VerifyHangUp, VerifyUnlock
  <2>5. ASSUME NEW v \in Verifies, NEW n \in Nodes, VerifyTryLock(v, n) PROVE ConnectedHolding'
    BY <2>5 DEF VerifyTryLock
  <2>6. CASE UNCHANGED vars
    BY <2>6 DEF vars
  <2> QED
    BY <2>1, <2>2, <2>3, <2>4, <2>5, <2>6 DEF Next, ClientStep
<1> QED
  BY <1>1, <1>2, TypeCorrect, PTL DEF Spec

\* Tokens, entries and connections hang together (LockInv).
THEOREM Locked == Spec => []LockInv
<1>1. IInv /\ ConnectedHolding => LockInv
  BY DEF IInv, LockInv
<1> QED
  BY <1>1, Inductive, Connections, PTL

\* The stale-release guard (VerifyKeepsLock), with and without preemption.
THEOREM VerifierUndisturbed == Spec => []VerifyKeepsLock
<1>1. IInv => VerifyKeepsLock
  BY DEF IInv, KeepInv
<1> QED
  BY <1>1, Inductive, PTL

\* As the handlers are deployed, without preemption, the console of a node
\* never has two connections (SingleConnection).
THEOREM MutualExclusion == ~ Preemption /\ Spec => []SingleConnection
<1>1. ~ Preemption /\ IInv /\ ConnectedHolding => SingleConnection
  BY DEF IInv, ConnectedHolding, KeepInv, TokensUnique, SingleConnection, Holding, Owns
<1>2. CASE Preemption
  BY <1>2
<1>3. CASE ~ Preemption
  <2>1. IInv /\ ConnectedHolding => SingleConnection
    BY <1>1, <1>3
  <2> QED
    BY <2>1, Inductive, Connections, PTL
<1> QED
  BY <1>2, <1>3

-----------------------------------------------------------------------------
(***************************************************************************)
(* Refinement: without preemption the lock implements NodeAccess.          *)
(***************************************************************************)
\* What the theorem needs of a state.
Safe == IInv /\ ConnectedHolding /\ ~ Preemption

\* Whoever holds a node is its only owner, and nobody else is connected to it.
LEMMA SoleOwner ==
  ASSUME Safe, NEW p \in Users, Holding(p)
  PROVE  OwnersOf(node[p]) = {p} /\ ConnOf(node[p]) \subseteq {p}
<1>1. Owns(p)
  BY DEF Safe, IInv, KeepInv
<1>2. ASSUME NEW q \in Users, Owns(q), node[q] = node[p] PROVE q = p
  BY <1>1, <1>2 DEF Safe, IInv, TokensUnique, Owns
<1>3. ASSUME NEW q \in Users, tcp[q], node[q] = node[p] PROVE q = p
  <2>1. Owns(q)
    BY <1>3 DEF Safe, ConnectedHolding, IInv, KeepInv, Holding
  <2> QED
    BY <1>2, <1>3, <2>1
<1> QED
  BY <1>1, <1>2, <1>3 DEF OwnersOf, ConnOf

\* Nobody owns, or is connected to, a node whose entry is free.
LEMMA FreeNode ==
  ASSUME Safe, NEW n \in Nodes, locks[n] = Free
  PROVE  OwnersOf(n) = {} /\ ConnOf(n) = {}
<1>1. ASSUME NEW q \in Users, Owns(q), node[q] = n PROVE FALSE
  BY <1>1 DEF Safe, IInv, TokensUnique, Owns, Free
<1>2. ASSUME NEW q \in Users, tcp[q], node[q] = n PROVE FALSE
  BY <1>1, <1>2 DEF Safe, ConnectedHolding, IInv, KeepInv, Holding
<1> QED
  BY <1>1, <1>2 DEF OwnersOf, ConnOf

\* A step that neither takes nor gives up an entry changes no owner.
LEMMA SameOwners ==
  ASSUME Safe, UNCHANGED token,
         \A n \in Nodes : locks'[n].token = locks[n].token,
         \A p \in Users : /\ Holding(p)' <=> Holding(p)
                          /\ Holding(p) => node'[p] = node[p]
  PROVE  \A n \in Nodes : OwnersOf(n)' = OwnersOf(n)
<1> SUFFICES ASSUME NEW p \in Users
             PROVE  (Owns(p)' <=> Owns(p)) /\ (Owns(p) => node'[p] = node[p])
  BY DEF OwnersOf
<1>1. Holding(p) => node[p] \in Nodes
  BY DEF Safe, IInv, TypeOK, Holding
<1> QED
  BY <1>1 DEF Owns

\* A step that changes no connection.
LEMMA SameConnections ==
  ASSUME Safe, UNCHANGED tcp, \A p \in Users : tcp[p] => node'[p] = node[p]
  PROVE  \A n \in Nodes : ConnOf(n)' = ConnOf(n)
BY DEF ConnOf

\* A stuttering step of NodeAccess.
LEMMA Stutter ==
  ASSUME \A n \in Nodes : OwnersOf(n)' = OwnersOf(n) /\ ConnOf(n)' = ConnOf(n)
  PROVE  UNCHANGED Access!vars
BY DEF Access!vars

\* A successful TryLock is Acquire.
LEMMA AcquireRefines ==
  ASSUME Safe, Safe', NEW u \in Users, NEW n \in Nodes, NEW h,
         TryLock(u, n, h), ~ Holding(u), Holding(u)', node'[u] = n, UNCHANGED tcp,
         \A p \in Users \ {u} : (Holding(p)' <=> Holding(p)) /\ node'[p] = node[p]
  PROVE  Access!Acquire(u, n)
<1>1. OwnersOf(n) = {}
  BY FreeNode DEF TryLock
<1>2. ASSUME NEW p \in Users
      PROVE  /\ p # u => (Owns(p)' <=> Owns(p))
             /\ Owns(p) => node[p] # n
             /\ Owns(u)'
  <2>1. Owns(p) => node[p] # n
    BY <1>1 DEF OwnersOf
  <2>2. /\ token'[u] = nextToken + 1 /\ locks'[n].token = nextToken + 1
        /\ \A m \in Nodes \ {n} : locks'[m] = locks[m]
        /\ p # u => token'[p] = token[p]
    BY DEF TryLock, Safe, IInv, TypeOK
  <2>3. Holding(p) => node[p] \in Nodes /\ token[p] # nextToken + 1 /\ Owns(p)
    BY DEF Safe, IInv, TypeOK, TokensUnique, Holding, KeepInv
  <2> QED
    BY <2>1, <2>2, <2>3 DEF Owns
<1>3. OwnersOf(n)' = {u}
  BY <1>2 DEF OwnersOf
<1>4. ASSUME NEW m \in Nodes \ {n} PROVE OwnersOf(m)' = OwnersOf(m)
  <2>1. ~ Owns(u)
    BY DEF Owns
  <2> QED
    BY <1>2, <1>4, <2>1 DEF OwnersOf
<1>5. \A m \in Nodes : ConnOf(m)' = ConnOf(m)
  <2>1. ~ tcp[u]
    BY DEF Safe, ConnectedHolding, Holding
  <2> QED
    BY <2>1 DEF ConnOf
<1> QED
  BY <1>1, <1>3, <1>4, <1>5 DEF Access!Acquire

\* A successful dial is Connect.
LEMMA ConnectRefines ==
  ASSUME Safe, NEW u \in Users, Holding(u), node[u] \in Nodes,
         tcp' = [tcp EXCEPT ![u] = TRUE], UNCHANGED node,
         \A n \in Nodes : OwnersOf(n)' = OwnersOf(n)
  PROVE  Access!Connect(u, node[u])
<1>1. OwnersOf(node[u]) = {u}
  BY SoleOwner
<1>2. \A n \in Nodes : ConnOf(n)' = IF n = node[u] THEN ConnOf(n) \cup {u} ELSE ConnOf(n)
  BY DEF ConnOf, Safe, IInv, TypeOK
<1> QED
  BY <1>1, <1>2 DEF Access!Connect

\* Closing a connection is Disconnect.
LEMMA DisconnectRefines ==
  ASSUME Safe, NEW u \in Users, node[u] \in Nodes,
         tcp' = [tcp EXCEPT ![u] = FALSE], UNCHANGED node,
         \A n \in Nodes : OwnersOf(n)' = OwnersOf(n)
  PROVE  Access!Disconnect(u, node[u])
<1>1. \A n \in Nodes : ConnOf(n)' = IF n = node[u] THEN ConnOf(n) \ {u} ELSE ConnOf(n)
  BY DEF ConnOf, Safe, IInv, TypeOK
<1> QED
  BY <1>1 DEF Access!Disconnect

\* An unlock after the connection is closed is Release.
LEMMA ReleaseRefines ==
  ASSUME Safe, NEW u \in Users, node[u] \in Nodes, Unlock(u),
         Holding(u), ~ Holding(u)', ~ tcp[u], UNCHANGED <<node, tcp>>,
         \A p \in Users \ {u} : Holding(p)' <=> Holding(p)
  PROVE  Access!Release(u, node[u])
<1>1. OwnersOf(node[u]) = {u} /\ ConnOf(node[u]) = {}
  BY SoleOwner DEF ConnOf
<1>2. ASSUME NEW p \in Users, p # u PROVE Owns(p)' <=> Owns(p)
  <2>1. /\ UNCHANGED token
        /\ \A n \in Nodes \ {node[u]} : locks'[n] = locks[n]
    BY DEF Unlock, Safe, IInv, TypeOK
  <2>2. Owns(p) => node[p] # node[u]
    BY <1>1, <1>2 DEF OwnersOf
  <2>3. Holding(p) => Owns(p) /\ node[p] \in Nodes
    BY DEF Safe, IInv, KeepInv, TypeOK, Holding
  <2> QED
    BY <1>2, <2>1, <2>2, <2>3 DEF Owns
<1>3. ~ Owns(u)'
  BY DEF Owns
<1>4. \A n \in Nodes : /\ OwnersOf(n)' = IF n = node[u] THEN {} ELSE OwnersOf(n)
                       /\ ConnOf(n)' = ConnOf(n)
  BY <1>1, <1>2, <1>3 DEF OwnersOf, ConnOf
<1> QED
  BY <1>1, <1>4 DEF Access!Release

\* Every step maps to a step of NodeAccess, or to none.
LEMMA StepRefines ==
  ASSUME Safe, Safe', [Next]_vars
  PROVE  [Access!Next]_(Access!vars)
<1> USE ConstantsAssumption DEF Users, Holding, Goto, lockVars, Access!Next
<1>0. /\ pc \in [Users -> ConsolePCs \cup VerifyPCs]
      /\ node \in [Users -> Nodes \cup {None}]
      /\ locks \in [Nodes -> [holder : {"none", "console", "verify"}, token : Nat,
                              preempt : Consoles \cup {None}]]
      /\ \A p \in Users : pc[p] # "ready" => node[p] \in Nodes
      /\ \A p \in Users : tcp[p] => pc[p] \in {"bridge", "close_tcp", "converse"}
      /\ \A c \in Consoles : pc[c] \in ConsolePCs
      /\ \A v \in Verifies : pc[v] \in VerifyPCs
      /\ \A p \in Users : pc[p] \notin {"force", "preempt", "retry"}
  BY DEF Safe, IInv, TypeOK, ConnectedHolding, KeepInv
<1> DEFINE Done == Access!Next \/ UNCHANGED Access!vars
<1> SUFFICES Done
  OBVIOUS
<1>1. ASSUME NEW c \in Consoles, NEW n \in Nodes, ConsoleTryLock(c, n) PROVE Done
  <2>1. CASE TryLock(c, n, "console") /\ Goto(c, "upgrade")
    BY <1>0, <1>1, <2>1, AcquireRefines DEF ConsoleTryLock
  <2>2. CASE TryLockFails(n) /\ Goto(c, "done")
    BY <1>0, <1>1, <2>2, SameOwners, SameConnections, Stutter DEF ConsoleTryLock, TryLockFails
  <2> QED
    BY <1>1, <2>1, <2>2 DEF ConsoleTryLock
<1>2. ASSUME NEW c \in Consoles,
             ConsoleUpgrade(c) \/ ConsoleBridgeEnds(c) \/ ConsoleCloseWS(c)
                \/ WebSocketDies(c) \/ NodeHangsUp(c)
      PROVE  Done
  BY <1>0, <1>2, SameOwners, SameConnections, Stutter
     DEF ConsoleUpgrade, ConsoleBridgeEnds, ConsoleCloseWS, WebSocketDies, NodeHangsUp
<1>3. ASSUME NEW c \in Consoles, ConsoleRegister(c) PROVE Done
  BY <1>0, <1>3, SameOwners, SameConnections, Stutter DEF ConsoleRegister, SetPreempt, Free
<1>4. ASSUME NEW c \in Consoles, ConsoleDial(c) PROVE Done
  <2>1. \A n \in Nodes : OwnersOf(n)' = OwnersOf(n)
    BY <1>0, <1>4, SameOwners DEF ConsoleDial
  <2>2. CASE tcp' = [tcp EXCEPT ![c] = TRUE]
    BY <1>0, <1>4, <2>1, <2>2, ConnectRefines DEF ConsoleDial
  <2>3. CASE UNCHANGED tcp
    BY <1>0, <1>4, <2>1, <2>3, SameConnections, Stutter DEF ConsoleDial
  <2> QED
    BY <1>4, <2>2, <2>3 DEF ConsoleDial
<1>5. ASSUME NEW c \in Consoles, ConsoleCloseTCP(c) PROVE Done
  <2>1. \A n \in Nodes : OwnersOf(n)' = OwnersOf(n)
    BY <1>0, <1>5, SameOwners DEF ConsoleCloseTCP
  <2> QED
    BY <1>0, <1>5, <2>1, DisconnectRefines DEF ConsoleCloseTCP
<1>6. ASSUME NEW c \in Consoles, ConsoleUnlock(c) PROVE Done
  BY <1>0, <1>6, ReleaseRefines DEF ConsoleUnlock
<1>7. ASSUME NEW v \in Verifies, NEW n \in Nodes, VerifyTryLock(v, n) PROVE Done
  <2>1. CASE TryLock(v, n, "verify") /\ Goto(v, "dial")
    BY <1>0, <1>7, <2>1, AcquireRefines DEF VerifyTryLock
  <2>2. CASE /\ TryLockFails(n)
             /\ Goto(v, IF Preemption /\ locks[n].holder = "console" THEN "force" ELSE "done")
    BY <1>0, <1>7, <2>2, SameOwners, SameConnections, Stutter DEF VerifyTryLock, TryLockFails
  <2> QED
    BY <1>7, <2>1, <2>2 DEF VerifyTryLock
<1>8. ASSUME NEW v \in Verifies, VerifyForceRelease(v) \/ VerifyPreempt(v) \/ VerifyRetry(v)
      PROVE  Done
  BY <1>0, <1>8 DEF VerifyForceRelease, VerifyPreempt, VerifyRetry
<1>9. ASSUME NEW v \in Verifies, VerifyDial(v) PROVE Done
  <2>1. \A n \in Nodes : OwnersOf(n)' = OwnersOf(n)
    BY <1>0, <1>9, SameOwners DEF VerifyDial
  <2>2. CASE tcp' = [tcp EXCEPT ![v] = TRUE]
    BY <1>0, <1>9, <2>1, <2>2, ConnectRefines DEF VerifyDial
  <2>3. CASE UNCHANGED tcp
    BY <1>0, <1>9, <2>1, <2>3, SameConnections, Stutter DEF VerifyDial
  <2> QED
    BY <1>9, <2>2, <2>3 DEF VerifyDial
<1>10. ASSUME NEW v \in Verifies, VerifyHangUp(v) PROVE Done
  <2>1. \A n \in Nodes : OwnersOf(n)' = OwnersOf(n)
    BY <1>0, <1>10, SameOwners DEF VerifyHangUp
  <2> QED
    BY <1>0, <1>10, <2>1, DisconnectRefines DEF VerifyHangUp
<1>11. ASSUME NEW v \in Verifies, VerifyUnlock(v) PROVE Done
  BY <1>0, <1>11, ReleaseRefines DEF VerifyUnlock
<1>12. CASE UNCHANGED vars
  BY <1>0, <1>12, SameOwners, SameConnections, Stutter DEF vars
<1> QED
  BY <1>1, <1>2, <1>3, <1>4, <1>5, <1>6, <1>7, <1>8, <1>9, <1>10, <1>11, <1>12
     DEF Next, ClientStep, ConsoleStep, VerifyStep

\* As the handlers are deployed, the lock and its two users implement
\* NodeAccess (ExclusiveAccess).
THEOREM Implementation == ~ Preemption /\ Spec => ExclusiveAccess
<1>1. Init => Access!Init
  BY DEF Init, Access!Init, OwnersOf, ConnOf, Owns, Holding
<1>2. CASE Preemption
  BY <1>2
<1>3. CASE ~ Preemption
  <2>1. IInv /\ ConnectedHolding => Safe
    BY <1>3 DEF Safe
  <2>2. Safe /\ Safe' /\ [Next]_vars => [Access!Next]_(Access!vars)
    BY StepRefines
  <2> QED
    BY <1>1, <2>1, <2>2, Inductive, Connections, PTL DEF Spec, ExclusiveAccess, Access!Spec
<1> QED
  BY <1>2, <1>3
-----------------------------------------------------------------------------
(***************************************************************************)
(* The safety half of LocksReleased: a handler that returned left no entry *)
(* behind, and a handler that keeps moving returns.                        *)
(***************************************************************************)
\* A token is captured by one closure only.
OneClosure == \A p, q \in Users : token[p] = token[q] /\ token[p] > 0 => p = q

\* The entry of a request that returned, or has not begun, is not in the map.
NoLeak == \A p \in Users : pc[p] \in {"ready", "done"} => ~ HasEntry(p)

LEMMA Closures == Spec => []OneClosure
<1>1. Init => OneClosure
  BY DEF Init, OneClosure
<1>2. TypeOK /\ TokensUnique /\ OneClosure /\ [Next]_vars => OneClosure'
  <2> SUFFICES ASSUME TypeOK, TokensUnique, OneClosure, [Next]_vars PROVE OneClosure'
    OBVIOUS
  <2>1. CASE UNCHANGED token
    BY <2>1 DEF OneClosure
  <2>2. ASSUME NEW p \in Users, token' = [token EXCEPT ![p] = nextToken + 1]
        PROVE  OneClosure'
    BY <2>2 DEF OneClosure, TokensUnique, TypeOK
  <2>3. ASSUME NEW p \in Users, NEW n, NEW h, TryLock(p, n, h) PROVE OneClosure'
    BY <2>2, <2>3 DEF TryLock
  <2>4. ASSUME NEW c \in Consoles, ClientStep(c) \/ ConsoleStep(c) PROVE OneClosure'
    BY <2>1, <2>3, <2>4
    DEF Users, ClientStep, WebSocketDies, NodeHangsUp, ConsoleTryLock, TryLockFails, ConsoleStep,
        ConsoleUpgrade, ConsoleRegister, SetPreempt, ConsoleDial, ConsoleBridgeEnds,
        ConsoleCloseTCP, ConsoleCloseWS, ConsoleUnlock, Unlock, lockVars
  <2>5. ASSUME NEW v \in Verifies, VerifyStep(v) \/ \E n \in Nodes : VerifyTryLock(v, n)
        PROVE  OneClosure'
    BY <2>1, <2>3, <2>5
    DEF Users, VerifyStep, VerifyForceRelease, ForceRelease, VerifyPreempt, VerifyRetry,
        VerifyDial, VerifyHangUp, VerifyUnlock, Unlock, VerifyTryLock, TryLockFails, lockVars
  <2>6. CASE UNCHANGED vars
    BY <2>1, <2>6 DEF vars
  <2> QED
    BY <2>4, <2>5, <2>6 DEF Next
<1>3. IInv => TokensUnique
  BY DEF IInv
<1> QED
  BY <1>1, <1>2, <1>3, TypeCorrect, Inductive, PTL DEF Spec

\* Whichever way a handler returns, with and without preemption, its entry is gone: no key
\* stays locked for a request that is over (console_lock.go, TryLock and its closure; the
\* deferred unlock of console.go and of verification/handler.go).
THEOREM ReturnedLeavesNoLock == Spec => []NoLeak
<1>1. IInv /\ OneClosure => NoLeak
  <2> SUFFICES ASSUME IInv, OneClosure, NEW p \in Users, pc[p] \in {"ready", "done"},
                      NEW n \in Nodes, locks[n] # Free, locks[n].token = token[p]
               PROVE  FALSE
    BY DEF NoLeak, HasEntry
  <2>1. PICK q \in Users : Holding(q) /\ token[q] = locks[n].token /\ locks[n].token > 0
    BY DEF IInv, EntriesHeld
  <2>2. q = p
    BY <2>1 DEF OneClosure
  <2>3. Holding(p)
    BY <2>1, <2>2
  <2>4. p \in Consoles \/ p \in Verifies
    BY DEF Users
  <2> QED
    BY <2>3, <2>4 DEF Holding
<1> QED
  BY <1>1, Inductive, Closures, PTL

\* What a handler has still to do, counted in its own steps.
VerifyWork(l, k) ==
    CASE l = "ready"               -> 2 * k + 5
      [] l = "force"               -> 2 * k + 4
      [] l = "preempt"             -> 2 * k + 3
      [] l \in {"retry", "converse"} -> 2 * k + 2
      [] l = "dial"                -> 2 * k + 1
      [] OTHER                     -> 0

ConsoleWork(l) ==
    CASE l = "ready"     -> 8
      [] l = "upgrade"   -> 7
      [] l = "register"  -> 6
      [] l = "dial"      -> 5
      [] l = "bridge"    -> 4
      [] l = "close_tcp" -> 3
      [] l = "close_ws"  -> 2
      [] l = "unlock"    -> 1
      [] OTHER           -> 0

VerifyLeft(v)  == VerifyWork(pc[v], left[v])
ConsoleLeft(c) == ConsoleWork(pc[c])

LEMMA VerifyWorkType == \A k \in Nat : \A l : VerifyWork(l, k) \in Nat
BY DEF VerifyWork

LEMMA ConsoleWorkType == \A l : ConsoleWork(l) \in Nat
BY DEF ConsoleWork

\* The moves of a verification within one command.
VerifyMove ==
    {<<"ready", "dial">>, <<"ready", "force">>, <<"ready", "done">>, <<"force", "preempt">>,
     <<"force", "retry">>, <<"preempt", "retry">>, <<"retry", "dial">>, <<"retry", "done">>,
     <<"converse", "dial">>, <<"dial", "done">>}

LEMMA VerifyWorkDrops ==
    ASSUME NEW k \in Nat, NEW l, NEW m, <<l, m>> \in VerifyMove
    PROVE  VerifyWork(m, k) < VerifyWork(l, k)
BY DEF VerifyMove, VerifyWork

\* A step of a verification moves that verification only, and forwards.
LEMMA VerifyMoves ==
    ASSUME TypeOK, NEW v \in Verifies, VerifyStep(v) \/ \E n \in Nodes : VerifyTryLock(v, n)
    PROVE  /\ \A p \in Users \ {v} : pc'[p] = pc[p]
           /\ \A w \in Verifies \ {v} : left'[w] = left[w]
           /\ VerifyLeft(v)' < VerifyLeft(v)
<1> USE DEF Goto
<1>1. /\ pc \in [Users -> ConsolePCs \cup VerifyPCs] /\ left \in [Verifies -> Nat]
      /\ left[v] \in Nat /\ v \in Users
  BY DEF TypeOK, Users
<1>2. ASSUME NEW m, pc' = [pc EXCEPT ![v] = m], left' = left, <<pc[v], m>> \in VerifyMove
      PROVE  /\ \A p \in Users \ {v} : pc'[p] = pc[p]
             /\ \A w \in Verifies \ {v} : left'[w] = left[w]
             /\ VerifyLeft(v)' < VerifyLeft(v)
  <2>1. pc'[v] = m /\ left'[v] = left[v]
    BY <1>1, <1>2
  <2>2. VerifyWork(m, left[v]) < VerifyWork(pc[v], left[v])
    BY <1>1, <1>2, VerifyWorkDrops
  <2>3. VerifyLeft(v)' < VerifyLeft(v)
    BY <2>1, <2>2 DEF VerifyLeft
  <2> QED
    BY <1>1, <1>2, <2>3
<1>3. CASE VerifyDial(v)
  <2>1. /\ pc[v] = "dial" /\ left' = [left EXCEPT ![v] = @ - 1] /\ left[v] > 0
        /\ pc' = pc \/ pc' = [pc EXCEPT ![v] = "converse"]
    BY <1>3 DEF VerifyDial
  <2>2. left'[v] = left[v] - 1 /\ pc'[v] \in {"dial", "converse"}
    BY <1>1, <2>1
  <2>3. VerifyLeft(v)' <= 2 * (left[v] - 1) + 2
    BY <1>1, <2>2 DEF VerifyLeft, VerifyWork
  <2>4. VerifyLeft(v) = 2 * left[v] + 1
    BY <2>1 DEF VerifyLeft, VerifyWork
  <2>5. VerifyLeft(v)' \in Nat
    BY <1>1, <2>1, <2>2, VerifyWorkType DEF VerifyLeft
  <2>6. VerifyLeft(v)' < VerifyLeft(v)
    BY <1>1, <2>3, <2>4, <2>5
  <2> QED
    BY <1>1, <2>1, <2>6
<1>4. CASE ~ VerifyDial(v)
  <2>1. left' = left
    BY <1>4 DEF VerifyStep, VerifyForceRelease, VerifyPreempt, VerifyRetry, VerifyHangUp,
                VerifyUnlock, VerifyTryLock
  <2>2. \E m : pc' = [pc EXCEPT ![v] = m] /\ <<pc[v], m>> \in VerifyMove
    <3>1. CASE VerifyForceRelease(v)
      BY <3>1 DEF VerifyForceRelease, VerifyMove
    <3>2. CASE VerifyPreempt(v)
      BY <3>2 DEF VerifyPreempt, VerifyMove
    <3>3. CASE VerifyRetry(v)
      BY <3>3 DEF VerifyRetry, VerifyMove
    <3>4. CASE VerifyHangUp(v)
      BY <3>4 DEF VerifyHangUp, VerifyMove
    <3>5. CASE VerifyUnlock(v)
      BY <3>5 DEF VerifyUnlock, VerifyMove
    <3>6. ASSUME NEW n \in Nodes, VerifyTryLock(v, n)
          PROVE  \E m : pc' = [pc EXCEPT ![v] = m] /\ <<pc[v], m>> \in VerifyMove
      BY <3>6 DEF VerifyTryLock, VerifyMove
    <3> QED
      BY <1>4, <3>1, <3>2, <3>3, <3>4, <3>5, <3>6 DEF VerifyStep
  <2> QED
    BY <1>2, <2>1, <2>2
<1> QED
  BY <1>3, <1>4

\* A step about a console moves that console only, if any, and forwards.
LEMMA ConsoleMoves ==
    ASSUME TypeOK, NEW c \in Consoles, ConsoleStep(c) \/ ClientStep(c)
    PROVE  /\ \A p \in Users \ {c} : pc'[p] = pc[p]
           /\ left' = left
           /\ ConsoleLeft(c)' <= ConsoleLeft(c)
           /\ ConsoleStep(c) => ConsoleLeft(c)' < ConsoleLeft(c)
<1> USE DEF Goto
<1>1. pc \in [Users -> ConsolePCs \cup VerifyPCs] /\ c \in Users
  BY DEF TypeOK, Users
<1>2. left' = left
  BY DEF ConsoleStep, ConsoleUpgrade, ConsoleRegister, ConsoleDial, ConsoleBridgeEnds,
         ConsoleCloseTCP, ConsoleCloseWS, ConsoleUnlock, ClientStep, WebSocketDies, NodeHangsUp,
         ConsoleTryLock
<1>3. ASSUME NEW m, pc' = [pc EXCEPT ![c] = m]
      PROVE  pc'[c] = m /\ \A p \in Users \ {c} : pc'[p] = pc[p]
  BY <1>1, <1>3
<1>4. ASSUME ConsoleStep(c)
      PROVE  /\ \A p \in Users \ {c} : pc'[p] = pc[p]
             /\ ConsoleLeft(c)' < ConsoleLeft(c)
  <2>1. /\ \E m : pc' = [pc EXCEPT ![c] = m]
        /\ ConsoleWork(pc'[c]) < ConsoleWork(pc[c])
    <3>1. CASE ConsoleUpgrade(c)
      BY <1>3, <3>1 DEF ConsoleUpgrade, ConsoleWork
    <3>2. CASE ConsoleRegister(c)
      <4>1. pc[c] = "register" /\ pc' = [pc EXCEPT ![c] = "dial"]
        BY <3>2 DEF ConsoleRegister
      <4>2. pc'[c] = "dial"
        BY <1>3, <4>1
      <4>3. ConsoleWork(pc[c]) = 6 /\ ConsoleWork(pc'[c]) = 5
        BY <4>1, <4>2 DEF ConsoleWork
      <4>4. \E m : pc' = [pc EXCEPT ![c] = m]
        BY <4>1
      <4>5. ConsoleWork(pc'[c]) < ConsoleWork(pc[c])
        BY <4>3
      <4> QED
        BY <4>4, <4>5
    <3>3. CASE ConsoleDial(c)
      BY <1>3, <3>3 DEF ConsoleDial, ConsoleWork
    <3>4. CASE ConsoleBridgeEnds(c) \/ ConsoleCloseTCP(c) \/ ConsoleCloseWS(c) \/ ConsoleUnlock(c)
      BY <1>3, <3>4 DEF ConsoleBridgeEnds, ConsoleCloseTCP, ConsoleCloseWS, ConsoleUnlock, ConsoleWork
    <3> QED
      BY <1>4, <3>1, <3>2, <3>3, <3>4 DEF ConsoleStep
  <2> QED
    BY <1>3, <2>1 DEF ConsoleLeft
<1>5. ASSUME ClientStep(c)
      PROVE  /\ \A p \in Users \ {c} : pc'[p] = pc[p]
             /\ ConsoleLeft(c)' <= ConsoleLeft(c)
  <2>1. CASE WebSocketDies(c)
    BY <2>1, ConsoleWorkType DEF WebSocketDies, ConsoleLeft
  <2>2. CASE NodeHangsUp(c)
    BY <1>3, <2>2 DEF NodeHangsUp, ConsoleLeft, ConsoleWork
  <2>3. ASSUME NEW n \in Nodes, ConsoleTryLock(c, n)
        PROVE  /\ \A p \in Users \ {c} : pc'[p] = pc[p]
               /\ ConsoleLeft(c)' <= ConsoleLeft(c)
    BY <1>3, <2>3 DEF ConsoleTryLock, ConsoleLeft, ConsoleWork
  <2> QED
    BY <1>5, <2>1, <2>2, <2>3 DEF ClientStep
<1>6. ConsoleLeft(c) \in Nat /\ ConsoleLeft(c)' \in Nat
  BY ConsoleWorkType DEF ConsoleLeft
<1> QED
  BY <1>2, <1>4, <1>5, <1>6

\* A verification has two steps per command and five more to make, a console eight; nothing
\* another request, a client or a node does gives it more.
HandlersAdvance ==
    /\ \A v \in Verifies : VerifyLeft(v) = 2 * MaxCommands + 5
    /\ \A c \in Consoles : ConsoleLeft(c) = 8
    /\ [][/\ \A v \in Verifies : /\ VerifyLeft(v)' \in Nat
                                 /\ VerifyLeft(v)' <= VerifyLeft(v)
                                 /\ VerifyStep(v) => VerifyLeft(v)' < VerifyLeft(v)
          /\ \A c \in Consoles : /\ ConsoleLeft(c)' <= ConsoleLeft(c)
                                 /\ ConsoleStep(c) => ConsoleLeft(c)' < ConsoleLeft(c)]_vars

\* No handler runs on for ever, with and without preemption (handler.go, consoleTruthVerify:
\* a finite list of commands, ForceRelease once and TryLock twice; console.go).
THEOREM HandlersAreBounded == Spec => HandlersAdvance
<1>1. Init => /\ \A v \in Verifies : VerifyLeft(v) = 2 * MaxCommands + 5
              /\ \A c \in Consoles : ConsoleLeft(c) = 8
  BY DEF Init, Users, VerifyLeft, VerifyWork, ConsoleLeft, ConsoleWork
<1>2. ASSUME TypeOK, TypeOK', [Next]_vars
      PROVE  /\ \A v \in Verifies : /\ VerifyLeft(v)' \in Nat
                                    /\ VerifyLeft(v)' <= VerifyLeft(v)
                                    /\ VerifyStep(v) => VerifyLeft(v)' < VerifyLeft(v)
             /\ \A c \in Consoles : /\ ConsoleLeft(c)' <= ConsoleLeft(c)
                                    /\ ConsoleStep(c) => ConsoleLeft(c)' < ConsoleLeft(c)
  <2>1. \A v \in Verifies : VerifyLeft(v) \in Nat /\ VerifyLeft(v)' \in Nat
    BY <1>2, VerifyWorkType DEF VerifyLeft, TypeOK
  <2>2. \A c \in Consoles : ConsoleLeft(c) \in Nat /\ ConsoleLeft(c)' \in Nat
    BY ConsoleWorkType DEF ConsoleLeft
  <2>3. \A v \in Verifies : VerifyStep(v) => VerifyLeft(v)' < VerifyLeft(v)
    BY <1>2, VerifyMoves
  <2>4. \A c \in Consoles : ConsoleStep(c) => ConsoleLeft(c)' < ConsoleLeft(c)
    BY <1>2, ConsoleMoves
  <2>5. ASSUME NEW v \in Verifies PROVE VerifyLeft(v)' <= VerifyLeft(v)
    <3>1. CASE pc'[v] = pc[v] /\ left'[v] = left[v]
      BY <2>1, <3>1 DEF VerifyLeft
    <3>2. ASSUME NEW c \in Consoles, ConsoleStep(c) \/ ClientStep(c)
          PROVE  pc'[v] = pc[v] /\ left'[v] = left[v]
      BY <1>2, <3>2, ConsoleMoves, ConstantsAssumption DEF Users
    <3>3. ASSUME NEW w \in Verifies, VerifyStep(w) \/ \E n \in Nodes : VerifyTryLock(w, n)
          PROVE  VerifyLeft(v)' <= VerifyLeft(v)
      <4>1. CASE w = v
        BY <1>2, <2>1, <3>3, <4>1, VerifyMoves
      <4>2. CASE w # v
        BY <1>2, <3>1, <3>3, <4>2, VerifyMoves DEF Users
      <4> QED
        BY <4>1, <4>2
    <3> QED
      BY <1>2, <3>1, <3>2, <3>3 DEF Next, vars
  <2>6. ASSUME NEW c \in Consoles PROVE ConsoleLeft(c)' <= ConsoleLeft(c)
    <3>1. CASE pc'[c] = pc[c]
      BY <2>2, <3>1 DEF ConsoleLeft
    <3>2. ASSUME NEW d \in Consoles, ConsoleStep(d) \/ ClientStep(d)
          PROVE  ConsoleLeft(c)' <= ConsoleLeft(c)
      <4>1. CASE d = c
        BY <1>2, <3>2, <4>1, ConsoleMoves
      <4>2. CASE d # c
        BY <1>2, <3>1, <3>2, <4>2, ConsoleMoves DEF Users
      <4> QED
        BY <4>1, <4>2
    <3>3. ASSUME NEW w \in Verifies, VerifyStep(w) \/ \E n \in Nodes : VerifyTryLock(w, n)
          PROVE  pc'[c] = pc[c]
      BY <1>2, <3>3, VerifyMoves, ConstantsAssumption DEF Users
    <3> QED
      BY <1>2, <3>1, <3>2, <3>3 DEF Next, vars
  <2> QED
    BY <2>1, <2>3, <2>4, <2>5, <2>6
<1>3. TypeOK /\ TypeOK' /\ [Next]_vars =>
        [/\ \A v \in Verifies : /\ VerifyLeft(v)' \in Nat
                                /\ VerifyLeft(v)' <= VerifyLeft(v)
                                /\ VerifyStep(v) => VerifyLeft(v)' < VerifyLeft(v)
         /\ \A c \in Consoles : /\ ConsoleLeft(c)' <= ConsoleLeft(c)
                                /\ ConsoleStep(c) => ConsoleLeft(c)' < ConsoleLeft(c)]_vars
  BY <1>2
<1> QED
  BY <1>1, <1>3, TypeCorrect, PTL DEF Spec, HandlersAdvance
=============================================================================
