----------------------------- MODULE RenderFrame -----------------------------
(* One application thread records the render passes of a frame graph into     *)
(* command lists and submits them to two queues of the GPU, which run on      *)
(* their own: culling (FrameGraphImpl, CullFrameGraph), FrameGraphExecutor,   *)
(* Present, DeviceSync, SyncUpload, the fence and the CommandListPool.        *)
(*                                                                            *)
(* A command list on the GPU occupies the allocator it was recorded into      *)
(* until it has been executed; the list object itself may be reset while it   *)
(* executes.  What a pass draws is not modelled, only when it runs.           *)
EXTENDS Integers, FiniteSets, SequencesExt

CONSTANTS
    Scripts,        \* what the application may ask of the frame context, call by call
    Pairs,          \* command lists a pool starts with: 16 direct, 4 compute in the code
    MaxFrames       \* bound: scripts that are run

Queues == {"direct", "compute"}
Other(q) == IF q = "direct" THEN "compute" ELSE "direct"
Backbuffer == "0"

VARIABLES
    script,         \* calls still to be made in this frame
    frames,         \* frames begun
    phase,          \* what the application thread is doing
    given,          \* what Run was called with: a frame graph, and whether to cull it
    graph,          \* the frame graph it executes
    at,             \* the pass to record next
    cache,          \* command lists recorded and not submitted, per queue
    stack,          \* passes recorded by this executor, per queue
    queue,          \* what the GPU has still to do, per queue
    fence,          \* mainFence: value given out, value reached
    upload,         \* uploadFence
    pool,           \* per queue type: free allocators, lists bound to one, allocators made
    inFlight,       \* inFlightCommandLists
    done            \* passes of the graph the GPU has executed

vars == <<script, frames, phase, given, graph, at, cache, stack, queue, fence, upload,
          pool, inFlight, done>>
executor == <<given, graph, at, cache, stack>>

-----------------------------------------------------------------------------
(* Culling                                                                    *)

(* The reads of a resource by the passes of a graph that are kept: the code   *)
(* counts them, and down again when it erases a pass.                         *)
Reads(g, kept, r) ==
    UNION {{<<i, k>> : k \in {n \in DOMAIN g[i].reads : g[i].reads[n] = r}} : i \in kept}

AlwaysRead == 1073741824    \* 1 << 30, which no number of reads turns into 0

NumReads(g, kept, r) ==
    Cardinality(Reads(g, kept, r)) + (IF r = Backbuffer THEN AlwaysRead ELSE 0)

Dangling(g, kept) ==
    {i \in kept : \A k \in DOMAIN g[i].writes : NumReads(g, kept, g[i].writes[k]) = 0}

EraseDangling(g, kept) == kept \ Dangling(g, kept)

(* The passes at some places, in their order.                                 *)
PassesAt(g, places) ==
    LET order == SelectSeq([i \in DOMAIN g |-> i], LAMBDA i : i \in places)
    IN  [n \in DOMAIN order |-> g[order[n]]]

CullOnce(g) == PassesAt(g, EraseDangling(g, DOMAIN g))                 \* mutant

Undangling(g) ==
    LET kept[n \in 0..Len(g)] ==
            IF n = 0 THEN DOMAIN g ELSE EraseDangling(g, kept[n - 1])
    IN  kept[Len(g)]

CullFrameGraph(g) == PassesAt(g, Undangling(g))

Drawn(call) == IF call.cull THEN CullFrameGraph(call.graph) ELSE call.graph

UsingBackbuffer(g) == \E i \in DOMAIN g : Backbuffer \in ToSet(g[i].writes)

(* What the applications keep to: after it has run a graph or presented, a    *)
(* frame is synchronised before the next graph or the end; until then it may  *)
(* upload, and present what was drawn on the back buffer.                     *)
Settles(s, i, ops) ==
    \E k \in DOMAIN s : k > i /\ s[k].op = "sync" /\ \A j \in (i + 1)..(k - 1) : s[j].op \in ops

MayFollow(call) ==
    {"upload"} \cup
        (IF call.op = "run" /\ ~UsingBackbuffer(Drawn(call)) THEN {} ELSE {"present"})

IsSynced(s) ==
    \A i \in DOMAIN s :
        s[i].op \in {"run", "present"} => Settles(s, i, MayFollow(s[i]))

Calls == UNION {ToSet(s) : s \in Scripts}

FramesAreSynced ==
    /\ Pairs \in Nat /\ MaxFrames \in Nat
    /\ Scripts \subseteq Seq(Calls) /\ \A s \in Scripts : IsSynced(s)
    /\ \A call \in Calls : call.op = "run" =>
           /\ call.graph \in Seq(ToSet(call.graph))
           /\ \A pass \in ToSet(call.graph) : pass.reads \in Seq(ToSet(pass.reads))
           /\ Drawn(call) \in Seq(ToSet(Drawn(call)))
           /\ \A pass \in ToSet(Drawn(call)) : pass.type \in Queues

-----------------------------------------------------------------------------
(* The pool of one type                                                       *)

NewPool == [free  |-> [i \in 1..Pairs |-> 2 * i - 1],
            pairs |-> [i \in 1..Pairs |-> 2 * i],
            made  |-> 2 * Pairs]

GetAllocator(p) ==
    IF p.free = <<>>
    THEN [alloc |-> p.made + 1, pool |-> [p EXCEPT !.made = @ + 1]]
    ELSE [alloc |-> Last(p.free), pool |-> [p EXCEPT !.free = Front(@)]]

GetPair(p) ==
    IF p.pairs = <<>>
    THEN GetAllocator(p)
    ELSE [alloc |-> Last(p.pairs), pool |-> [p EXCEPT !.pairs = Front(@)]]

(* The list is reset onto another allocator, never onto the one it held.      *)
ReturnCommandList(p) ==
    LET g == GetAllocator(p) IN [g.pool EXCEPT !.pairs = Append(@, g.alloc)]

ReturnAllocator(p, alloc) == [p EXCEPT !.free = Append(@, alloc)]

(* One list after the other, in the order of inFlightCommandLists.            *)
ResetLists(p, lists) ==
    LET after[n \in 0..Len(lists)] ==
            IF n = 0 THEN p
            ELSE [after[n - 1] EXCEPT ![lists[n].type] = ReturnCommandList(@)]
    IN  after[Len(lists)]
ReturnAllocators(p, lists) ==
    LET after[n \in 0..Len(lists)] ==
            IF n = 0 THEN p
            ELSE [after[n - 1] EXCEPT ![lists[n].type] = ReturnAllocator(@, lists[n].alloc)]
    IN  after[Len(lists)]

-----------------------------------------------------------------------------
Exec(pass, alloc) == [op |-> "exec", pass |-> pass, alloc |-> alloc]
Signal(f, value)  == [op |-> "signal", fence |-> f, value |-> value]
WaitPrevious(value) == [op |-> "wait", value |-> value - 1]
WaitNext(value)   == [op |-> "wait", value |-> value + 1]
Wait(value)       == [op |-> "wait", value |-> value]

(* HasMatchingElement: the inner index runs over rhs and is used on lhs, and  *)
(* the other way round.  What lies behind the end of a view is the rest of    *)
(* the pass's array of 32, which is zero: the back buffer.                    *)
Element(view, k) == IF k \in DOMAIN view THEN view[k] ELSE Backbuffer

HasMatchingElement(lhs, rhs) ==
    \E i \in DOMAIN lhs, j \in DOMAIN rhs : Element(lhs, j) = Element(rhs, i)

HasResourceReadDependency(pass) ==
    \E k \in DOMAIN stack[Other(pass.type)] :
        HasMatchingElement(pass.reads, stack[Other(pass.type)][k].writes)

Init ==
    /\ script = <<>> /\ frames = 0 /\ phase = "idle"
    /\ given = [graph |-> <<>>, cull |-> FALSE] /\ graph = <<>> /\ at = 1
    /\ cache = [q \in Queues |-> <<>>]
    /\ stack = [q \in Queues |-> <<>>]
    /\ queue = [q \in Queues |-> <<>>]
    /\ fence = [value |-> 0, reached |-> 0]
    /\ upload = [value |-> 0, reached |-> 0]
    /\ pool = [q \in Queues |-> NewPool]
    /\ inFlight = <<>>
    /\ done = {}

NextFrame ==
    /\ phase = "idle" /\ script = <<>> /\ frames < MaxFrames
    /\ frames' = frames + 1
    /\ \E s \in Scripts : script' = s
    /\ UNCHANGED <<phase, executor, queue, fence, upload, pool, inFlight, done>>

Doing(op) == phase = "idle" /\ script # <<>> /\ Head(script).op = op

(* Run, Execute up to its loop, and BeginFrame: with a back buffer, pass 0    *)
(* turns it from PRESENT to RENDER_TARGET and pass Len(graph) + 1, recorded   *)
(* now and submitted last, turns it back.                                     *)
BeginFrame ==
    /\ Doing("run")
    /\ given' = [graph |-> Head(script).graph, cull |-> Head(script).cull]
    /\ graph' = Drawn(Head(script))
    /\ at' = 1 /\ done' = {}
    /\ stack' = [q \in Queues |-> <<>>]
    /\ IF UsingBackbuffer(graph')
       THEN LET p2rt == GetPair(pool["direct"])
                rt2p == GetPair(p2rt.pool)
            IN  /\ pool' = [pool EXCEPT !["direct"] = rt2p.pool]
                /\ cache' = [direct |-> <<Exec(0, p2rt.alloc)>>, compute |-> <<>>]
                /\ inFlight' = inFlight \o <<[type |-> "direct", alloc |-> p2rt.alloc],
                                             [type |-> "direct", alloc |-> rt2p.alloc]>>
       ELSE cache' = [q \in Queues |-> <<>>] /\ UNCHANGED <<pool, inFlight>>
    /\ script' = Tail(script)
    /\ phase' = "record"
    /\ UNCHANGED <<frames, queue, fence, upload>>

(* One turn of Execute's loop: InvokeRenderFunction records the pass and      *)
(* caches it; a pass that depends on the other queue flushes that one,        *)
(* signals there and waits here before anything cached here is submitted.     *)
RecordPass ==
    /\ phase = "record" /\ at <= Len(graph)
    /\ LET pass == graph[at]
           q == pass.type
           o == Other(q)
           pair == GetPair(pool[q])
       IN  /\ pool' = [pool EXCEPT ![q] = pair.pool]
           /\ inFlight' = Append(inFlight, [type |-> q, alloc |-> pair.alloc])
           /\ stack' = [stack EXCEPT ![q] = Append(@, pass)]
           /\ IF HasResourceReadDependency(pass)
              THEN /\ fence' = [fence EXCEPT !.value = @ + 1]
                   /\ queue' = [queue EXCEPT ![o] = @ \o cache[o] \o <<Signal("main", fence'.value)>>,
                                             ![q] = Append(@, Wait(fence'.value))]
                   /\ cache' = [cache EXCEPT ![o] = <<>>, ![q] = Append(@, Exec(at, pair.alloc))]
              ELSE /\ cache' = [cache EXCEPT ![q] = Append(@, Exec(at, pair.alloc))]
                   /\ UNCHANGED <<fence, queue>>
    /\ at' = at + 1
    /\ UNCHANGED <<script, frames, phase, given, graph, upload, done>>

(* renderTargetToPresent, the second list BeginFrame put into inFlight.       *)
RenderTargetToPresent ==
    LET first == Len(inFlight) - Len(graph) - 1
    IN  Exec(Len(graph) + 1, inFlight[first + 1].alloc)

(* CloseFrame, called by the executor's destructor.  With a debug context the *)
(* direct work is submitted first.  A frame that still has both kinds of work *)
(* (or none) fails the assertion.                                             *)
CloseFrame ==
    /\ phase = "record" /\ at > Len(graph)
    /\ \E debug \in BOOLEAN :
         LET back == UsingBackbuffer(graph)
             early == IF back /\ debug THEN cache["direct"] ELSE <<>>
             late == (IF back /\ debug THEN <<>> ELSE cache["direct"])
                         \o (IF back THEN <<RenderTargetToPresent>> ELSE <<>>)
         IN  IF (late = <<>>) # (cache["compute"] = <<>>)
             THEN LET last == IF late # <<>> THEN "direct" ELSE "compute"
                      lists == IF late # <<>> THEN early \o late ELSE cache["compute"]
                  IN  /\ fence' = [fence EXCEPT !.value = @ + 1]
                      /\ queue' = [queue EXCEPT ![last] =
                                       @ \o lists \o <<Signal("main", fence'.value)>>]
                      /\ cache' = [q \in Queues |-> <<>>]
                      /\ phase' = "idle"
             ELSE phase' = "asserted" /\ UNCHANGED <<fence, queue, cache>>
    /\ UNCHANGED <<script, frames, given, graph, at, stack, upload, pool, inFlight, done>>

(* Present puts a signal of its own behind the frame's work.                  *)
Present ==
    /\ Doing("present")
    /\ fence' = [fence EXCEPT !.value = @ + 1]
    /\ queue' = [queue EXCEPT !["direct"] = Append(@, Signal("main", fence'.value))]
    /\ script' = Tail(script)
    /\ UNCHANGED <<frames, phase, executor, upload, pool, inFlight, done>>

(* DeviceSync first gives the lists back, which may still execute ...         *)
DeviceSync ==
    /\ Doing("sync")
    /\ pool' = ResetLists(pool, inFlight)
    /\ script' = Tail(script)
    /\ phase' = "wait"
    /\ UNCHANGED <<frames, executor, queue, fence, upload, inFlight, done>>

HostWaitIsAlmostOver == fence.reached + 1 >= fence.value

HostWaitIsOver == fence.reached >= fence.value

(* ... and the allocators when the host has waited for the fence.             *)
DeviceSynced ==
    /\ phase = "wait" /\ HostWaitIsOver
    /\ pool' = ReturnAllocators(pool, inFlight)
    /\ inFlight' = <<>>
    /\ phase' = "idle"
    /\ UNCHANGED <<script, frames, executor, queue, fence, upload, done>>

(* SyncUpload: a direct list, executed and waited for with its own fence.     *)
SyncUpload ==
    /\ Doing("upload")
    /\ LET pair == GetPair(pool["direct"])
       IN  /\ pool' = [pool EXCEPT !["direct"] = pair.pool]
           /\ inFlight' = Append(inFlight, [type |-> "direct", alloc |-> pair.alloc])
           /\ queue' = [queue EXCEPT !["direct"] =
                            @ \o <<Exec(-1, pair.alloc), Signal("upload", upload.value + 1)>>]
    /\ upload' = [upload EXCEPT !.value = @ + 1]
    /\ script' = Tail(script)
    /\ phase' = "upload"
    /\ UNCHANGED <<frames, executor, fence, done>>

(* The local command list goes: its members are destroyed last to first, the  *)
(* allocator before the list.                                                 *)
SyncUploaded ==
    /\ phase = "upload" /\ upload.reached >= upload.value
    /\ pool' = [pool EXCEPT !["direct"] =
                    ReturnCommandList(ReturnAllocator(@, Last(inFlight).alloc))]
    /\ inFlight' = Front(inFlight)
    /\ phase' = "idle"
    /\ UNCHANGED <<script, frames, executor, queue, fence, upload, done>>

(* The GPU, outside the repository: each queue does its work in order, and a  *)
(* wait holds it up until the fence has reached the value.                    *)
GpuStep(q) ==
    /\ queue[q] # <<>>
    /\ queue' = [queue EXCEPT ![q] = Tail(@)]
    /\ LET item == Head(queue[q])
       IN  \/ /\ item.op = "exec"
              /\ done' = done \cup {item.pass}
              /\ UNCHANGED <<fence, upload>>
           \/ /\ item.op = "signal"
              /\ IF item.fence = "main"
                 THEN fence' = [fence EXCEPT !.reached = item.value] /\ UNCHANGED upload
                 ELSE upload' = [upload EXCEPT !.reached = item.value] /\ UNCHANGED fence
              /\ UNCHANGED done
           \/ /\ item.op = "wait" /\ fence.reached >= item.value
              /\ UNCHANGED <<fence, upload, done>>
    /\ UNCHANGED <<script, frames, phase, executor, pool, inFlight>>

Cpu == \/ NextFrame \/ BeginFrame \/ RecordPass \/ CloseFrame \/ Present
       \/ DeviceSync \/ DeviceSynced \/ SyncUpload \/ SyncUploaded

Next == Cpu \/ \E q \in Queues : GpuStep(q)

Spec == Init /\ [][Next]_vars /\ WF_vars(Cpu) /\ \A q \in Queues : WF_vars(GpuStep(q))

-----------------------------------------------------------------------------
(* What pass i of the running graph builds on: the passes before it that      *)
(* write what it reads, the transition that makes the back buffer a target if *)
(* it draws on it, and for the transition back everything drawn on it.        *)
Writers(g, r) == {j \in DOMAIN g : r \in ToSet(g[j].writes)}

Producers(g, i) ==
    IF i \in DOMAIN g
    THEN {j \in 1..(i - 1) : ToSet(g[j].writes) \cap ToSet(g[i].reads) # {}}
            \cup (IF i \in Writers(g, Backbuffer) THEN {0} ELSE {})
    ELSE IF i = Len(g) + 1 THEN {0} \cup Writers(g, Backbuffer) ELSE {}

(* A pass is executed after every earlier pass that writes what it reads,     *)
(* also when the two run on different queues of the GPU, and the back buffer  *)
(* is a render target while it is drawn on: the flush, signal and wait of     *)
(* FrameGraphExecutor::Execute order the queues.                              *)
PassesFindTheirResources ==
    [][\A i \in done' \ done : Producers(graph, i) \subseteq done]_vars

(* An allocator that is reset, free or being recorded into for the next frame *)
(* is not in use by work the GPU has still to do, and no allocator is in two  *)
(* places: DeviceSync resets lists before and allocators after the wait.      *)
Queued(q) == {queue[q][k].alloc : k \in {n \in DOMAIN queue[q] : queue[q][n].op = "exec"}}
InFlight(q) == {inFlight[k].alloc : k \in {n \in DOMAIN inFlight : inFlight[n].type = q}}

NothingInUseIsReset ==
    \A q \in Queues :
        LET p == pool[q]
        IN  /\ (ToSet(p.free) \cup ToSet(p.pairs)) \cap (Queued(q) \cup InFlight(q)) = {}
            /\ IsInjective(p.free \o p.pairs)
            /\ Queued(q) \subseteq InFlight(q)

(* Culling removes exactly the passes no chain of readers leads from to the   *)
(* back buffer or back to itself: the graph that runs is the largest set of   *)
(* passes in which each has a write that is read or shown.                    *)
Sustained(g, kept) ==
    \A i \in kept : \E r \in ToSet(g[i].writes) :
        r = Backbuffer \/ \E j \in kept : r \in ToSet(g[j].reads)

CullingIsExact ==
    phase = "record" /\ at = 1 =>
        graph = IF given.cull
                THEN PassesAt(given.graph, UNION {kept \in SUBSET (DOMAIN given.graph) :
                                                  Sustained(given.graph, kept)})
                ELSE given.graph

(* The host never waits forever: each wait of a queue is for a value that the *)
(* other one signals, and the last signal is behind all of the frame's work.  *)
HostWaitsEnd == phase \in {"wait", "upload"} ~> phase = "idle"

=============================================================================
