------------------------------- MODULE SliceLinks -------------------------------
(***************************************************************************)
(* The links that an SDX manager adds to its slice: the lock of the slice, *)
(* and the wait until a router has the interfaces that it should have.     *)
(* The numbers of the links are in SdxRestart.                             *)
(*                                                                         *)
(* The handlers of the manager are synchronized: one runs at a time, on a  *)
(* thread of the server.  It takes its steps here because some of them     *)
(* wait: for the lock of the slice, which a request that failed may have   *)
(* left locked, for interfaces, and for a port in the controller.          *)
(***************************************************************************)
EXTENDS Naturals

CONSTANTS
    Router,
    Thread,      \* threads of the server; NoThread is none of them
    NoThread,
    MaxFaces,    \* bound: interfaces of a router, and those expected
    MaxDepth     \* bound: how often a thread has the lock

VARIABLES
    busy,        \* the handler that runs: [stage, thread, kind, ends]
    holder,      \* the thread that has locked the slice, and
    depth,       \* how often
    faces,       \* interfaces of each router
    leaving,     \* of these, those of removed links, which are still there
    expected,    \* expectInterfaceNumMap
    spoilt,      \* routers that were made to expect an interface that does not come
    leaked       \* whether a request failed where nothing gives the lock back

lock == <<holder, depth>>
vars == <<busy, lock, faces, leaving, expected, spoilt, leaked>>

Idle == [stage |-> "idle", thread |-> NoThread, kind |-> "none", ends |-> {}]
Stage(s) == busy' = [busy EXCEPT !.stage = s]

-----------------------------------------------------------------------------
(* expectOneInterfaceDiff: what the router has now and one more, or one more *)
(* than was expected before.  waitForInterfaces starts from 0 again.         *)
Expect(ends) ==
    [r \in Router |->
        IF r \notin ends THEN expected[r]
        ELSE IF expected[r] = 0 THEN faces[r] + 1
        ELSE expected[r] + 1]

\* A mutation: the count of a wait is kept for the next one.
WaitedKeeps(ends) == UNCHANGED expected

Waited(ends) == expected' = [r \in Router |-> IF r \in ends THEN 0 ELSE expected[r]]

Begin(t, kind, ends, stage) ==
    /\ busy = Idle
    /\ depth < MaxDepth /\ \A r \in ends : expected[r] < MaxFaces
    /\ busy' = [stage |-> stage, thread |-> t, kind |-> kind, ends |-> ends]

Grow(ends) == faces' = [r \in Router |-> IF r \in ends THEN faces[r] + 1 ELSE faces[r]]

-----------------------------------------------------------------------------
(* The handlers begin: provisionLink, between two routers; a stitch request  *)
(* at a router; one that adds a router, which expects nothing; a command to  *)
(* stitch to another SDX, which expects an interface before it asks;         *)
(* and undoStitch.                                                           *)
Provision(t, ends) ==
    /\ Begin(t, "provision", ends, "lock")
    /\ \A r \in ends : faces[r] < MaxFaces
    /\ UNCHANGED <<lock, faces, leaving, expected, spoilt, leaked>>

StitchRequest(t, r) ==
    /\ Begin(t, "stitch", {r}, "lock") /\ faces[r] < MaxFaces
    /\ UNCHANGED <<lock, faces, leaving, expected, spoilt, leaked>>

StitchNewRouter(t) ==
    /\ Begin(t, "router", {}, "lock")
    /\ UNCHANGED <<lock, faces, leaving, expected, spoilt, leaked>>

StitchCmd(t, r) ==
    /\ Begin(t, "command", {r}, "commit")
    /\ faces[r] < MaxFaces
    /\ expected' = Expect({r})
    /\ UNCHANGED <<lock, faces, leaving, spoilt, leaked>>

UndoStitch(t, r) ==
    /\ Begin(t, "undo", {r}, "lock") /\ faces[r] > leaving[r]
    /\ UNCHANGED <<lock, faces, leaving, expected, spoilt, leaked>>

(* lockSlice, of a reentrant lock.                                           *)
LockSlice ==
    /\ busy.stage = "lock" /\ holder \in {NoThread, busy.thread}
    /\ holder' = busy.thread /\ depth' = depth + 1

(* The handler locks the slice, and what it expects from there on.           *)
Lock ==
    /\ LockSlice
    /\ expected' = IF busy.kind \in {"provision", "stitch"} THEN Expect(busy.ends) ELSE expected
    /\ Stage("commit")
    /\ UNCHANGED <<faces, leaving, spoilt, leaked>>

(* Between lockSlice and the try that unlocks, the slice is refreshed and    *)
(* the interfaces of each router are read over SSH: what throws there leaves *)
(* the slice locked, and the routers already read expecting an interface.    *)
ExpectFails(done) ==
    /\ LockSlice
    /\ busy.kind \in {"provision", "stitch"} /\ done # busy.ends
    /\ expected' = Expect(done)
    /\ spoilt' = spoilt \cup done
    /\ leaked' = TRUE /\ busy' = Idle
    /\ UNCHANGED <<faces, leaving>>

(* A commit that fails for good unlocks once (abort), and the handler once   *)
(* more.                                                                     *)
Unlock(times) ==
    /\ depth' = IF depth > times THEN depth - times ELSE 0
    /\ holder' = IF depth > times THEN holder ELSE NoThread

UnlockAfterFailure == Unlock(1) \/ Unlock(2)

(* commitAndWait succeeds.  A stitch request that finds its link failed      *)
(* removes it and tries again, so that this is all that is seen of it.       *)
Committed ==
    /\ busy.stage = "commit" /\ busy.kind \in {"provision", "stitch", "command"}
    /\ Grow(busy.ends)
    /\ Stage("wait")
    /\ UNCHANGED <<lock, leaving, expected, spoilt, leaked>>

(* It does not.  The router of the request, or both, keep on expecting an    *)
(* interface; provisionLink does not notice and goes on to wait for a port.  *)
CommitFails ==
    /\ busy.stage = "commit" /\ busy.kind \in {"provision", "stitch", "command"}
    /\ IF busy.kind = "command" THEN UNCHANGED lock ELSE UnlockAfterFailure
    /\ spoilt' = spoilt \cup busy.ends
    /\ IF busy.kind = "provision" THEN Stage("port") ELSE busy' = Idle
    /\ UNCHANGED <<faces, leaving, expected, leaked>>

(* A new router: the lock is given back only if all goes well.               *)
RouterAdded ==
    /\ busy.stage = "commit" /\ busy.kind = "router"
    /\ Unlock(1) /\ busy' = Idle
    /\ UNCHANGED <<faces, leaving, expected, spoilt, leaked>>

RouterFails ==
    /\ busy.stage = "commit" /\ busy.kind = "router"
    /\ leaked' = TRUE /\ busy' = Idle
    /\ UNCHANGED lock \/ Unlock(1)
    /\ UNCHANGED <<faces, leaving, expected, spoilt>>

(* undoStitch does not wait for the interface to go.                         *)
LinkRemoved ==
    /\ busy.stage = "commit" /\ busy.kind = "undo"
    /\ leaving' = [r \in Router |-> IF r \in busy.ends THEN leaving[r] + 1 ELSE leaving[r]]
    /\ Unlock(1) /\ busy' = Idle
    /\ UNCHANGED <<faces, expected, spoilt, leaked>>

UndoFails ==
    /\ busy.stage = "commit" /\ busy.kind = "undo"
    /\ UnlockAfterFailure /\ busy' = Idle
    /\ UNCHANGED <<faces, leaving, expected, spoilt, leaked>>

(* The interface goes: a handler that counted it expects one too many.       *)
FaceGone(r) ==
    /\ leaving[r] > 0
    /\ leaving' = [leaving EXCEPT ![r] = @ - 1]
    /\ faces' = [faces EXCEPT ![r] = @ - 1]
    /\ spoilt' = IF r \in busy.ends /\ busy.stage # "lock" THEN spoilt \cup {r} ELSE spoilt
    /\ UNCHANGED <<busy, lock, expected, leaked>>

(* waitForInterfaces, and for a link between routers the port.               *)
Come == \A r \in busy.ends : faces[r] = expected[r]

(* The handler gives the lock back; a command does not have it.              *)
Ended ==
    /\ IF busy.kind = "command" THEN UNCHANGED lock ELSE Unlock(1)
    /\ busy' = Idle

WaitEnds ==
    /\ busy.stage = "wait" /\ Come
    /\ Waited(busy.ends)
    /\ spoilt' = spoilt \ busy.ends
    /\ Ended
    /\ UNCHANGED <<faces, leaving, leaked>>

(* The interfaces cannot be read, which throws: the routers that were not    *)
(* yet waited for keep on expecting one.                                     *)
WaitFails(came) ==
    /\ busy.stage = "wait" /\ came # busy.ends
    /\ \A r \in came : faces[r] = expected[r]
    /\ Waited(came)
    /\ spoilt' = (spoilt \ came) \cup (busy.ends \ came)
    /\ Ended
    /\ UNCHANGED <<faces, leaving, leaked>>

(* A link between routers that was given up comes after all, and with it the *)
(* ports that provisionLink waits for.                                       *)
LateLink ==
    /\ busy.stage = "port"
    /\ Grow(busy.ends) /\ busy' = Idle
    /\ UNCHANGED <<lock, leaving, expected, spoilt, leaked>>

-----------------------------------------------------------------------------
Init ==
    /\ busy = Idle /\ holder = NoThread /\ depth = 0
    /\ faces = [r \in Router |-> 0]
    /\ leaving = [r \in Router |-> 0]
    /\ expected = [r \in Router |-> 0]
    /\ spoilt = {} /\ leaked = FALSE

Begins ==
    \/ \E t \in Thread, a, b \in Router : a # b /\ Provision(t, {a, b})
    \/ \E t \in Thread, r \in Router : StitchRequest(t, r) \/ StitchCmd(t, r) \/ UndoStitch(t, r)
    \/ \E t \in Thread : StitchNewRouter(t)

Commits ==
    \/ Committed \/ CommitFails
    \/ RouterAdded \/ RouterFails
    \/ LinkRemoved \/ UndoFails

Waits ==
    \/ WaitEnds
    \/ \E came \in SUBSET busy.ends : WaitFails(came)
    \/ LateLink

Next ==
    \/ Begins
    \/ Lock
    \/ \E done \in SUBSET busy.ends : ExpectFails(done)
    \/ Commits
    \/ Waits
    \/ \E r \in Router : FaceGone(r)

Spec == Init /\ [][Next]_vars

-----------------------------------------------------------------------------
(* A handler that cannot go on, with every other request behind it, has a     *)
(* failure before it to blame.  It waits for the lock only after a request    *)
(* has failed where nothing gives the lock back: while it added a router, or  *)
(* between lockSlice and its try.  It waits for interfaces only if, at one of *)
(* its routers, a link was announced that did not come or whose interfaces    *)
(* could not be read, or an interface of a removed link is still to go or     *)
(* went meanwhile.                                                            *)
HangsAfterFailure ==
    /\ busy.stage = "lock" /\ holder \notin {NoThread, busy.thread} => leaked
    /\ busy.stage = "wait" /\ ~Come =>
        \/ busy.ends \cap spoilt # {}
        \/ \E r \in busy.ends : leaving[r] > 0
=============================================================================
