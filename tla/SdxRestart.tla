------------------------------- MODULE SdxRestart -------------------------------
(***************************************************************************)
(* An SDX manager that stops and starts again.  Its memory is lost; the    *)
(* slice with its links and stitches stays, and so may the tables of the   *)
(* controller.  A manager that starts reads the slice, restarts the        *)
(* controller, waits for the switches and configures what it found, under  *)
(* numbers that it gives anew; then it makes links and stitches on request.*)
(*                                                                         *)
(* Internal link k is named clink<k>.  The name of a stitch ends in the    *)
(* mask of the customer's address, which a restart takes for a number; a    *)
(* stitch port is not recognised after a restart.                          *)
(* Both ends of a link get their interfaces together.  Requests are        *)
(* handled one at a time (synchronized).                                   *)
(***************************************************************************)
EXTENDS Integers, Sequences

CONSTANTS
    Router,
    Customer,
    RouterOf,      \* [Customer -> Router]
    NetOf,         \* [Customer -> network of its address]
    Chameleon,     \* customers whose stitch is a port of the testbed
    MaskNumber,    \* the number read from the name of a stitch
    FirstIp,       \* the first number that is given to a link
    FirstOctet,    \* the number that undoStitch releases: the third part of "sp_e0_192_..."
    InSlice,       \* plexusInSlice: the manager restarts the controller
    MaxLinks,      \* bound: internal links
    MaxStops       \* bound: times the manager stops

VARIABLES
    slice,         \* the links of the slice, by number of their name: [ends, up]
    stitched,      \* customers with a stitch in the slice
    stage,         \* how far the manager has started
    links,         \* the internal links that it knows: their numbers, 0 for none
    curip, usedip,
    undoable,      \* customers whose stitch the manager can undo
    todo,          \* stitches and links that are still to be configured
    job,           \* the link that is being made or configured
    table,         \* the addresses of each router in the controller
    joined,        \* switches that are connected to the controller
    stops

memory == <<links, curip, usedip, undoable, todo, job>>
vars == <<slice, stitched, stage, memory, table, joined, stops>>

Idle == [link |-> -1, ends |-> {}, posts |-> <<>>]
NoTodo == [stitches |-> {}, links |-> {}]

Put(f, k, v) == [i \in DOMAIN f \cup {k} |-> IF i = k THEN v ELSE f[i]]

-----------------------------------------------------------------------------
(* Numbers of links.  One is free among as many as there may be links and    *)
(* the one that is read from stitches.                                       *)
NextFree(used) == CHOOSE n \in FirstIp .. FirstIp + MaxLinks :
                      /\ n >= curip /\ n \notin used
                      /\ \A i \in curip .. n - 1 : i \in used

GetAvailableIP(k) ==
    /\ links' = Put(links, k, NextFree(usedip))
    /\ usedip' = usedip \cup {NextFree(usedip)}
    /\ curip' = NextFree(usedip) + 1

(* A post is refused when the switch is not connected, or its router has an  *)
(* address in the same network already; nobody looks at the answer.          *)
Posted(router, address) ==
    table' = IF router \in joined /\ \A a \in table[router] : a.net # address.net
             THEN [table EXCEPT ![router] = @ \cup {address}] ELSE table

Address(net, host) == [net |-> net, host |-> host]

-----------------------------------------------------------------------------
Stop ==
    /\ stage # "down" /\ stops < MaxStops
    /\ stage' = "down" /\ stops' = stops + 1
    /\ links' = <<>> /\ curip' = FirstIp /\ usedip' = {} /\ undoable' = {}
    /\ todo' = NoTodo /\ job' = Idle
    /\ UNCHANGED <<slice, stitched, table, joined>>

(* A start with reset deletes the stitches first.                            *)
ClearSdx ==
    /\ stage = "down"
    /\ stage' = "cleared"
    /\ stitched' = stitched \cap Chameleon
    /\ UNCHANGED <<slice, memory, table, joined, stops>>

(* Links are found by their interfaces: one that has none yet is not known.  *)
LoadSdxNetwork ==
    LET known == {k \in DOMAIN slice : slice[k].up} IN
    /\ stage \in {"down", "cleared"}
    /\ stage' = "loaded"
    /\ links' = [k \in known |-> 0]
    /\ usedip' = IF stitched \subseteq Chameleon THEN {} ELSE {MaskNumber}
    /\ todo' = [stitches |-> stitched \ Chameleon, links |-> known]
    /\ UNCHANGED <<slice, stitched, curip, undoable, job, table, joined, stops>>

RestartPlexus ==
    /\ stage = "loaded"
    /\ stage' = "joining"
    /\ table' = IF InSlice THEN [r \in Router |-> {}] ELSE table
    /\ joined' = IF InSlice THEN {} ELSE joined
    /\ UNCHANGED <<slice, stitched, memory, stops>>

Join(router) ==
    /\ router \notin joined
    /\ joined' = joined \cup {router}
    /\ UNCHANGED <<slice, stitched, stage, memory, table, stops>>

WaitTillAllOvsConnected ==
    /\ stage = "joining" /\ joined = Router
    /\ stage' = "config"
    /\ UNCHANGED <<slice, stitched, memory, table, joined, stops>>

(* All stitches, then all links, in the order of a hash map.                 *)
ConfigStitch(c) ==
    /\ stage = "config" /\ c \in todo.stitches
    /\ todo' = [todo EXCEPT !.stitches = @ \ {c}]
    /\ Posted(RouterOf[c], Address(MaskNumber, 1))
    /\ UNCHANGED <<slice, stitched, stage, links, curip, usedip, undoable, job, joined, stops>>

(* The end whose interface was found first is the first.                     *)
Posts(net, a, b) == <<<<a, Address(net, 1)>>, <<b, Address(net, 2)>>>>

ConfigLink(k, a, b) ==
    /\ stage = "config" /\ todo.stitches = {} /\ job = Idle
    /\ k \in todo.links /\ a # b /\ {a, b} = slice[k].ends
    /\ todo' = [todo EXCEPT !.links = @ \ {k}]
    /\ GetAvailableIP(k)
    /\ job' = [link |-> k, ends |-> {a, b}, posts |-> Posts(NextFree(usedip), a, b)]
    /\ UNCHANGED <<slice, stitched, stage, undoable, table, joined, stops>>

NewInternalLink ==
    /\ job.posts # <<>>
    /\ Posted(job.posts[1][1], job.posts[1][2])
    /\ job' = IF Len(job.posts) = 1 THEN Idle ELSE [job EXCEPT !.posts = Tail(@)]
    /\ UNCHANGED <<slice, stitched, stage, links, curip, usedip, undoable, todo, joined, stops>>

Configured ==
    /\ stage = "config" /\ todo = NoTodo /\ job = Idle
    /\ stage' = "up"
    /\ UNCHANGED <<slice, stitched, memory, table, joined, stops>>

-----------------------------------------------------------------------------
(* A link that is asked for gets the name after the last that is known.      *)
(* When the slice has a link of that name the change is refused, which is    *)
(* not noticed.                                                              *)
ClinkName == CHOOSE k \in 0 .. MaxLinks : \A i \in 0 .. MaxLinks : i \in DOMAIN links <=> i < k

ProvisionLink(a, b) ==
    /\ stage = "up" /\ job = Idle /\ a # b /\ ClinkName < MaxLinks
    /\ links' = Put(links, ClinkName, 0)
    /\ slice' = IF ClinkName \in DOMAIN slice THEN slice
                ELSE Put(slice, ClinkName, [ends |-> {a, b}, up |-> FALSE])
    /\ job' = [link |-> ClinkName, ends |-> {a, b}, posts |-> <<>>]
    /\ UNCHANGED <<stitched, stage, curip, usedip, undoable, todo, table, joined, stops>>

(* The testbed makes a link.                                                 *)
LinkUp(k) ==
    /\ ~slice[k].up
    /\ slice' = [slice EXCEPT ![k].up = TRUE]
    /\ UNCHANGED <<stitched, stage, memory, table, joined, stops>>

(* The manager goes on when both ends have a port more, of whatever link.    *)
Fresh(router) ==
    {k \in DOMAIN slice : /\ slice[k].up /\ router \in slice[k].ends
                          /\ k \in DOMAIN links => links[k] = 0}

PortsCome(a, b) ==
    /\ stage = "up" /\ job # Idle /\ job.posts = <<>>
    /\ a # b /\ {a, b} = job.ends /\ Fresh(a) # {} /\ Fresh(b) # {}
    /\ GetAvailableIP(job.link)
    /\ job' = [job EXCEPT !.posts = Posts(NextFree(usedip), a, b)]
    /\ UNCHANGED <<slice, stitched, stage, undoable, todo, table, joined, stops>>

(* A stitch that is there already is used again.                             *)
StitchRequest(c) ==
    /\ stage = "up" /\ job = Idle /\ c \notin Chameleon
    /\ stitched' = stitched \cup {c}
    /\ Posted(RouterOf[c], Address(NetOf[c], 1))
    /\ UNCHANGED <<slice, stage, memory, joined, stops>>

StitchChameleon(c) ==
    /\ stage = "up" /\ job = Idle /\ c \in Chameleon \ stitched
    /\ stitched' = stitched \cup {c}
    /\ undoable' = undoable \cup {c}
    /\ Posted(RouterOf[c], Address(NetOf[c], 1))
    /\ UNCHANGED <<slice, stage, links, curip, usedip, todo, job, joined, stops>>

ReleaseIP(n) ==
    /\ usedip' = usedip \ {n}
    /\ curip' = IF n \in usedip /\ curip > n THEN n ELSE curip

\* A mutation: the address of a stitch stays in the controller.
RemoveExternalLinkNever(c) == UNCHANGED table

RemoveExternalLink(c) ==
    table' = [table EXCEPT ![RouterOf[c]] = @ \ {Address(NetOf[c], 1)}]

UndoStitch(c) ==
    /\ stage = "up" /\ job = Idle /\ c \in undoable
    /\ stitched' = stitched \ {c}
    /\ undoable' = undoable \ {c}
    /\ RemoveExternalLink(c)
    /\ ReleaseIP(FirstOctet)
    /\ UNCHANGED <<slice, stage, links, todo, job, joined, stops>>

-----------------------------------------------------------------------------
Init ==
    /\ slice = <<>> /\ stitched = {}
    /\ stage = "down" /\ links = <<>>
    /\ curip = FirstIp /\ usedip = {} /\ undoable = {}
    /\ todo = NoTodo /\ job = Idle
    /\ table = [r \in Router |-> {}] /\ joined = {}
    /\ stops = 0

StartSdxServer ==
    \/ ClearSdx \/ LoadSdxNetwork \/ RestartPlexus \/ WaitTillAllOvsConnected
    \/ \E c \in Customer : ConfigStitch(c)
    \/ \E k \in DOMAIN slice, a, b \in Router : ConfigLink(k, a, b)
    \/ Configured

Next ==
    \/ Stop \/ StartSdxServer \/ NewInternalLink
    \/ \E r \in Router : Join(r)
    \/ \E a, b \in Router : ProvisionLink(a, b) \/ PortsCome(a, b)
    \/ \E k \in DOMAIN slice : LinkUp(k)
    \/ \E c \in Customer : StitchRequest(c) \/ StitchChameleon(c) \/ UndoStitch(c)

Spec == Init /\ [][Next]_vars

-----------------------------------------------------------------------------
Owners(address) == {r \in Router : address \in table[r]}

(* A link that was given a number has an address of it on either end, each   *)
(* on one router; while it is configured it has them nowhere else.           *)
LinkFits(k) ==
    LET first == Owners(Address(links[k], 1))
        second == Owners(Address(links[k], 2)) IN
    IF k = job.link THEN first \cup second \subseteq slice[k].ends
    ELSE \E a, b \in Router : first = {a} /\ second = {b} /\ slice[k].ends = {a, b}

(* However often the manager stopped, and wherever: once it configures, the  *)
(* addresses of the routers are those of its links, each on the ends that    *)
(* the link has in the slice, and of the stitches that are in the slice.     *)
(* It holds as long as the numbers of links are neither in customers'        *)
(* addresses nor the one that undoStitch releases, which nothing ensures.    *)
AddressesFit ==
    stage \in {"config", "up"} =>
        /\ \A k \in DOMAIN links : links[k] # 0 => LinkFits(k)
        /\ \A r \in Router : \A a \in table[r] :
              \/ \E k \in DOMAIN links : links[k] = a.net
              \/ \E c \in stitched : RouterOf[c] = r /\ a.net = NetOf[c]
              \/ \E c \in stitched \ Chameleon : RouterOf[c] = r /\ a.net = MaskNumber
=============================================================================
