---------------------------- MODULE ConsoleLock -----------------------------
(***************************************************************************)
(* internal/labsession/console_lock.go and its two users: the interactive  *)
(* console handler (console.go) and the verification handler               *)
(* (verification/handler.go), each a goroutine per HTTP request that opens *)
(* a TCP connection to the console of a node.                              *)
(*                                                                         *)
(* A step is one critical section of ConsoleLock.mu, or one operation on a *)
(* WebSocket or TCP connection.  With Preemption the verification handler  *)
(* follows its TODO(preemption): ForceRelease, then TryLock once more.     *)
(***************************************************************************)
EXTENDS Naturals, FiniteSets

CONSTANTS
    Nodes,        \* keys of the lock: (session, node)
    Consoles,     \* requests for an interactive console, each served once
    Verifies,     \* requests for a verification, each served once
    MaxCommands,  \* console commands of one verification
    Preemption,   \* whether verification preempts consoles
    None          \* no callback

Users == Consoles \cup Verifies

ASSUME ConstantsAssumption ==
    /\ Consoles \cap Verifies = {}
    /\ MaxCommands \in Nat
    /\ Preemption \in BOOLEAN
    /\ None \notin Users

VARIABLES
    locks,      \* ConsoleLock.locks, Free for a key that is not in the map
    nextToken,  \* ConsoleLock.nextToken
    pc,         \* next step of a request
    node,       \* the key a request works on
    token,      \* the token its unlock closure captured
    ws,         \* WebSocket of a console
    tcp,        \* whether a request is connected to the console of its node
    left,       \* commands a verification has still to run
    victim      \* callback ForceRelease copied out of the entry

lockVars == <<locks, nextToken, token>>
vars     == <<locks, nextToken, pc, node, token, ws, tcp, left, victim>>

-----------------------------------------------------------------------------
(***************************************************************************)
(* ConsoleLock.                                                            *)
(***************************************************************************)
Free == [holder |-> "none", token |-> 0, preempt |-> None]

\* Faulty variant: a console may take over a console.
TryLockShared(p, n, h) ==
    /\ locks[n] = Free \/ locks[n].holder = "console"
    /\ nextToken' = nextToken + 1
    /\ token' = [token EXCEPT ![p] = nextToken + 1]
    /\ locks' = [locks EXCEPT ![n] =
                    [holder |-> h, token |-> nextToken + 1, preempt |-> None]]

TryLock(p, n, h) ==
    /\ locks[n] = Free
    /\ nextToken' = nextToken + 1
    /\ token' = [token EXCEPT ![p] = nextToken + 1]
    /\ locks' = [locks EXCEPT ![n] =
                    [holder |-> h, token |-> nextToken + 1, preempt |-> None]]

TryLockFails(n) == locks[n] # Free /\ UNCHANGED lockVars

\* Faulty variant: no generation counter.
UnlockAny(p) ==
    /\ locks' = [locks EXCEPT ![node[p]] = Free]
    /\ UNCHANGED <<nextToken, token>>

\* The unlock closure: a stale one is a no-op.
Unlock(p) ==
    /\ locks' = [locks EXCEPT ![node[p]] = IF @.token = token[p] THEN Free ELSE @]
    /\ UNCHANGED <<nextToken, token>>

\* SetPreempt knows the key, not the holder: whoever holds the entry by now
\* gets the callback.
SetPreempt(c) ==
    /\ locks' = [locks EXCEPT ![node[c]] = IF @ = Free THEN @ ELSE [@ EXCEPT !.preempt = c]]
    /\ UNCHANGED <<nextToken, token>>

\* ForceRelease up to mu.Unlock: the entry is gone before the callback runs.
ForceRelease(v, h) ==
    /\ locks[node[v]].holder = h
    /\ victim' = [victim EXCEPT ![v] = locks[node[v]].preempt]
    /\ locks' = [locks EXCEPT ![node[v]] = Free]
    /\ UNCHANGED <<nextToken, token>>

-----------------------------------------------------------------------------
(***************************************************************************)
(* Handler.console.  The deferred calls run in reverse order: TCP, then    *)
(* WebSocket, then unlock.                                                 *)
(***************************************************************************)
Goto(p, l) == pc' = [pc EXCEPT ![p] = l]

ConsoleTryLock(c, n) ==
    /\ pc[c] = "ready"
    /\ node' = [node EXCEPT ![c] = n]
    /\ \/ TryLock(c, n, "console") /\ Goto(c, "upgrade")
       \/ TryLockFails(n) /\ Goto(c, "done")
    /\ UNCHANGED <<ws, tcp, left, victim>>

\* Faulty variant: a failed upgrade returns without the deferred unlock.
ConsoleUpgradeLeaks(c) ==
    /\ pc[c] = "upgrade"
    /\ \/ ws' = [ws EXCEPT ![c] = "open"] /\ Goto(c, "register")
       \/ UNCHANGED ws /\ Goto(c, "done")
    /\ UNCHANGED <<lockVars, node, tcp, left, victim>>

ConsoleUpgrade(c) ==
    /\ pc[c] = "upgrade"
    /\ \/ ws' = [ws EXCEPT ![c] = "open"] /\ Goto(c, "register")
       \/ UNCHANGED ws /\ Goto(c, "unlock")
    /\ UNCHANGED <<lockVars, node, tcp, left, victim>>

ConsoleRegister(c) ==
    /\ pc[c] = "register"
    /\ SetPreempt(c)
    /\ Goto(c, "dial")
    /\ UNCHANGED <<node, ws, tcp, left, victim>>

\* EnsureProjectRunning, then Dial, whatever happened to the WebSocket.
ConsoleDial(c) ==
    /\ pc[c] = "dial" /\ c \in Consoles
    /\ \/ tcp' = [tcp EXCEPT ![c] = TRUE] /\ Goto(c, "bridge")
       \/ UNCHANGED tcp /\ Goto(c, "close_ws")
    /\ UNCHANGED <<lockVars, node, ws, left, victim>>

\* Faulty variant: unlock runs before the connection is closed.
ConsoleBridgeEndsUnlocked(c) ==
    /\ pc[c] = "bridge" /\ ws[c] = "closed"
    /\ Unlock(c)
    /\ Goto(c, "close_tcp")
    /\ UNCHANGED <<node, ws, tcp, left, victim>>

\* bridgeConsole returns once reading its WebSocket fails.
ConsoleBridgeEnds(c) ==
    /\ pc[c] = "bridge" /\ ws[c] = "closed"
    /\ Goto(c, "close_tcp")
    /\ UNCHANGED <<lockVars, node, ws, tcp, left, victim>>

ConsoleCloseTCP(c) ==
    /\ pc[c] = "close_tcp"
    /\ tcp' = [tcp EXCEPT ![c] = FALSE]
    /\ Goto(c, "close_ws")
    /\ UNCHANGED <<lockVars, node, ws, left, victim>>

ConsoleCloseWS(c) ==
    /\ pc[c] = "close_ws"
    /\ ws' = [ws EXCEPT ![c] = "closed"]
    /\ Goto(c, "unlock")
    /\ UNCHANGED <<lockVars, node, tcp, left, victim>>

ConsoleUnlock(c) ==
    /\ pc[c] = "unlock" /\ c \in Consoles
    /\ Unlock(c)
    /\ Goto(c, "done")
    /\ UNCHANGED <<node, ws, tcp, left, victim>>

\* The browser closes the WebSocket or stops answering pings.
WebSocketDies(c) ==
    /\ ws[c] = "open"
    /\ ws' = [ws EXCEPT ![c] = "closed"]
    /\ UNCHANGED <<lockVars, pc, node, tcp, left, victim>>

\* A keystroke cannot be written to the node: the bridge returns, its
\* WebSocket still open.
NodeHangsUp(c) ==
    /\ pc[c] = "bridge"
    /\ Goto(c, "close_tcp")
    /\ UNCHANGED <<lockVars, node, ws, tcp, left, victim>>

-----------------------------------------------------------------------------
(***************************************************************************)
(* Handler.consoleTruthVerify.  The run goes on when its client leaves; it *)
(* has a finite list of commands, each with its own connection, and the    *)
(* deadline only makes the remaining ones fail.                            *)
(***************************************************************************)
VerifyTryLock(v, n) ==
    /\ pc[v] = "ready"
    /\ node' = [node EXCEPT ![v] = n]
    /\ \/ TryLock(v, n, "verify") /\ Goto(v, "dial")
       \/ /\ TryLockFails(n)
          /\ Goto(v, IF Preemption /\ locks[n].holder = "console" THEN "force" ELSE "done")
    /\ UNCHANGED <<ws, tcp, left, victim>>

VerifyForceRelease(v) ==
    /\ pc[v] = "force"
    /\ \/ ForceRelease(v, "console") /\ Goto(v, "preempt")
       \/ /\ locks[node[v]].holder # "console"
          /\ Goto(v, "retry")
          /\ UNCHANGED <<lockVars, victim>>
    /\ UNCHANGED <<node, ws, tcp, left>>

\* The callback: ws.Close() of the console that registered it.
VerifyPreempt(v) ==
    /\ pc[v] = "preempt"
    /\ ws' = [c \in Consoles |-> IF c = victim[v] THEN "closed" ELSE ws[c]]
    /\ Goto(v, "retry")
    /\ UNCHANGED <<lockVars, node, tcp, left, victim>>

VerifyRetry(v) ==
    /\ pc[v] = "retry"
    /\ \/ TryLock(v, node[v], "verify") /\ Goto(v, "dial")
       \/ TryLockFails(node[v]) /\ Goto(v, "done")
    /\ UNCHANGED <<node, ws, tcp, left, victim>>

\* Faulty variant: the end of the list of commands is missed.
VerifyDialPastEnd(v) ==
    /\ pc[v] = "dial" /\ v \in Verifies
    /\ left' = [left EXCEPT ![v] = @ - 1]
    /\ \/ tcp' = [tcp EXCEPT ![v] = TRUE] /\ Goto(v, "converse")
       \/ UNCHANGED <<tcp, pc>>
    /\ UNCHANGED <<lockVars, node, ws, victim>>

\* RunCommand: dial, converse, close.
VerifyDial(v) ==
    /\ pc[v] = "dial" /\ v \in Verifies /\ left[v] > 0
    /\ left' = [left EXCEPT ![v] = @ - 1]
    /\ \/ tcp' = [tcp EXCEPT ![v] = TRUE] /\ Goto(v, "converse")
       \/ UNCHANGED <<tcp, pc>>
    /\ UNCHANGED <<lockVars, node, ws, victim>>

VerifyHangUp(v) ==
    /\ pc[v] = "converse"
    /\ tcp' = [tcp EXCEPT ![v] = FALSE]
    /\ Goto(v, "dial")
    /\ UNCHANGED <<lockVars, node, ws, left, victim>>

VerifyUnlock(v) ==
    /\ pc[v] = "dial" /\ v \in Verifies /\ left[v] = 0
    /\ Unlock(v)
    /\ Goto(v, "done")
    /\ UNCHANGED <<node, ws, tcp, left, victim>>

-----------------------------------------------------------------------------
Init ==
    /\ locks = [n \in Nodes |-> Free]
    /\ nextToken = 0
    /\ pc = [p \in Users |-> "ready"]
    /\ node = [p \in Users |-> None]
    /\ token = [p \in Users |-> 0]
    /\ ws = [c \in Consoles |-> "none"]
    /\ tcp = [p \in Users |-> FALSE]
    /\ left = [v \in Verifies |-> MaxCommands]
    /\ victim = [v \in Verifies |-> None]

ConsoleStep(c) ==
    \/ ConsoleUpgrade(c) \/ ConsoleRegister(c) \/ ConsoleDial(c) \/ ConsoleBridgeEnds(c)
    \/ ConsoleCloseTCP(c) \/ ConsoleCloseWS(c) \/ ConsoleUnlock(c)

\* What a client or the network may do, and need not.
ClientStep(c) ==
    WebSocketDies(c) \/ NodeHangsUp(c) \/ \E n \in Nodes : ConsoleTryLock(c, n)

VerifyStep(v) ==
    \/ VerifyForceRelease(v) \/ VerifyPreempt(v) \/ VerifyRetry(v)
    \/ VerifyDial(v) \/ VerifyHangUp(v) \/ VerifyUnlock(v)

Next ==
    \/ \E c \in Consoles : ClientStep(c) \/ ConsoleStep(c)
    \/ \E v \in Verifies : VerifyStep(v) \/ \E n \in Nodes : VerifyTryLock(v, n)

Spec == Init /\ [][Next]_vars

\* Handlers run; clients owe nothing.
Fairness ==
    /\ \A c \in Consoles : WF_vars(ConsoleStep(c))
    /\ \A v \in Verifies : WF_vars(VerifyStep(v))

FairSpec == Spec /\ Fairness

-----------------------------------------------------------------------------
(***************************************************************************)
(* Properties.                                                             *)
(***************************************************************************)
ConsolePCs == {"ready", "upgrade", "register", "dial", "bridge", "close_tcp",
               "close_ws", "unlock", "done"}
VerifyPCs  == {"ready", "force", "preempt", "retry", "dial", "converse", "done"}

\* Control points between a successful TryLock and the unlock.
Holding(p) ==
    pc[p] \in {"upgrade", "register", "dial", "bridge", "close_tcp", "close_ws",
               "unlock", "converse"}

\* The entry of its node is the one the unlock of p would delete.
Owns(p) == Holding(p) /\ locks[node[p]].token = token[p]

\* Every variable keeps its type, each kind of request its control points, and
\* a request past its first step has a node.
TypeOK ==
    /\ locks \in [Nodes -> [holder : {"none", "console", "verify"}, token : Nat,
                            preempt : Consoles \cup {None}]]
    /\ nextToken \in Nat
    /\ pc \in [Users -> ConsolePCs \cup VerifyPCs]
    /\ \A c \in Consoles : pc[c] \in ConsolePCs
    /\ \A v \in Verifies : pc[v] \in VerifyPCs
    /\ node \in [Users -> Nodes \cup {None}]
    /\ \A p \in Users : pc[p] # "ready" => node[p] \in Nodes
    /\ token \in [Users -> Nat]
    /\ ws \in [Consoles -> {"none", "open", "closed"}]
    /\ tcp \in [Users -> BOOLEAN]
    /\ left \in [Verifies -> Nat]
    /\ victim \in [Verifies -> Consoles \cup {None}]

\* How tokens, entries and connections hang together: tokens never repeat,
\* every entry belongs to a request that holds it, and connections are open
\* only between TryLock and unlock.
TokensUnique ==
    /\ \A p \in Users : token[p] <= nextToken /\ (Holding(p) => token[p] > 0)
    /\ \A p, q \in Users : Holding(p) /\ Holding(q) /\ token[p] = token[q] => p = q

EntriesHeld ==
    \A n \in Nodes : locks[n] # Free =>
        /\ locks[n].token > 0
        /\ \E p \in Users :
              /\ Holding(p) /\ node[p] = n /\ token[p] = locks[n].token
              /\ locks[n].holder = IF p \in Consoles THEN "console" ELSE "verify"

ConnectedHolding == \A p \in Users : tcp[p] => pc[p] \in {"bridge", "close_tcp", "converse"}

LockInv == TokensUnique /\ EntriesHeld /\ ConnectedHolding

\* A verification that got the lock keeps it until its own unlock: the late
\* unlock of a preempted console, another verification or a console never
\* take it away (the stale-release guard).
VerifyKeepsLock == \A v \in Verifies : Holding(v) => Owns(v)

\* "This lock prevents verify from sending show commands while a student has
\* the interactive console open, and vice versa": a node's console never has
\* two connections.
SingleConnection ==
    \A p, q \in Users : tcp[p] /\ tcp[q] /\ node[p] = node[q] => p = q

OwnersOf(n) == {p \in Users : Owns(p) /\ node[p] = n}
ConnOf(n)   == {p \in Users : tcp[p] /\ node[p] = n}

\* The lock implements exclusive access to nodes (without preemption): nobody
\* connects before it owns the node, and its ownership ends after its
\* connection, whichever way the handlers return.
Access == INSTANCE NodeAccess WITH
    owner <- [n \in Nodes |-> OwnersOf(n)],
    conn  <- [n \in Nodes |-> ConnOf(n)]

ExclusiveAccess == Access!Spec

\* Nobody is locked out for ever: the entry of a verification is deleted,
\* whatever the node or its client do, and so is that of a console once its
\* WebSocket is gone, however far the handler got.
HasEntry(p) == \E n \in Nodes : locks[n] # Free /\ locks[n].token = token[p]

LocksReleased ==
    /\ \A v \in Verifies : HasEntry(v) ~> ~ HasEntry(v)
    /\ \A c \in Consoles : HasEntry(c) /\ ws[c] # "open" ~> ~ HasEntry(c) \/ ws[c] = "open"
=============================================================================
