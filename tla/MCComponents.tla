---------------------------- MODULE MCComponents ------------------------------
(***************************************************************************)
(* Components that share no state, checked in one run: `part' is the one   *)
(* that moves.  All run on one thread; a frame has the GPU's queues too.   *)
(***************************************************************************)
EXTENDS GameServerPlayers, Integers, Sequences

CONSTANTS
  Capacity, MaxTime, MaxFrames,              \* HistoryBuffer
  FilterSize, Ahead, Delays, MaxSamples,     \* ClockFilter
  VirtualKeys, Unlisted,                     \* Keyboard
  PageSize, Bases, Needs, MaxSteps,          \* ObjectAllocator
  Kinds, Sizes, Buckets, MaxHeaps, MaxLive, MaxCut,           \* GpuHeap
  PoolPageSize, Alignment, DataSizes, MaxHandles, MaxViews, MaxRendered,  \* FrameMemory
  BulkSize, MaxBulks,                        \* BulkVector
  Scripts, Pairs, MaxScripts                 \* RenderFrame

VARIABLES part,
  data, index, size, log,
  buffer, lastValidPacket, offsetApprox, delayApprox, samples,
  down, focused, pressed, edge, modifiers, event, heard, reflected, doubtful,
  page, offset, live, list, left, right, steps,
  heaps, resources, reset,
  pages, current, mapped, memory, handles, perFrame, rendering, descriptor, static, views, frame,
  debug, bulks, freeListHead, link, objects, camera, trails, marked, loop, astray, unexpected,
  script, begun, phase, given, graph, turn, recorded, stack, gpu, fence, upload, pool, lists, done

History == INSTANCE HistoryBuffer
Clock   == INSTANCE ClockFilter
Keys    == INSTANCE Keyboard
Memory  == INSTANCE ObjectAllocator WITH data <- page
Heaps   == INSTANCE GpuHeap
Frames  == INSTANCE FrameMemory WITH PageSize <- PoolPageSize, MaxFrames <- MaxRendered,
                                     offset <- descriptor
Objects == INSTANCE BulkVector WITH live <- objects, next <- link
Render  == INSTANCE RenderFrame WITH MaxFrames <- MaxScripts, frames <- begun, at <- turn,
                                     cache <- recorded, queue <- gpu, inFlight <- lists
App     == INSTANCE GraphicsEngine

ASSUME HistoryAssumption == Capacity \in Nat \ {0} /\ MaxTime \in Nat

\* A ClockSyncResponseFilter lives for 10 s, less than MaxDispersion.
ASSUME ClockAssumption ==
  /\ FilterSize \in Nat \ {0} /\ Ahead \in Int
  /\ Delays \subseteq Nat /\ \A there, back \in Delays : there + back < Clock!MaxDispersion

\* The key a message names is one of the keyboard's.  ALT, CONTROL and SHIFT
\* are in iterableKeyCodes, the left and the right ones.
ASSUME KeyboardAssumption ==
  /\ \A k \in VirtualKeys : Keys!TranslateVirtualKey(k) \in VirtualKeys
  /\ \A m \in Keys!Modifiers : Keys!KeysOf(m) \cap Unlisted = {}

\* Storage is requested for one object at least.
ASSUME MemoryAssumption ==
  Bases \subseteq Nat \ {0} /\ Needs \subseteq Nat \ {0} /\ PageSize \in Nat /\ MaxSteps \in Nat

\* CreateConstantBuffer rejects constants above CBUFFER_PAGE_SIZE.
ASSUME PoolAssumption ==
  PoolPageSize \in Nat /\ Alignment \in Nat \ {0} /\ DataSizes \subseteq 1 .. PoolPageSize

\* Resources take at least one unit of the placement alignment.
ASSUME HeapAssumption == Sizes \subseteq Nat \ {0} /\ Buckets \subseteq Nat

\* A bulk has slots: BULK_SIZE is 512.
ASSUME BulkAssumption == BulkSize \in Nat \ {0} /\ MaxBulks \in Nat

ASSUME RenderAssumption == Render!FramesAreSynced

\* The frames of the game and of the editor, and chains of passes on one
\* resource that end on the back buffer: a pass there reads at most one
\* resource and writes one.
Chains ==
  {<<App!Pass(t, <<>>, <<"a">>), App!Pass(u, m[1], <<m[2]>>),
     App!Pass("direct", r, <<App!Backbuffer>>)>> :
   t \in {"direct", "compute"}, u \in {"direct", "compute"}, r \in {<<>>, <<"a">>, <<"b">>},
   m \in {<< <<>>, "a">>, << <<>>, "b">>, << <<"a">>, "b">>}}

MCScripts ==
  App!AppScripts \cup {<<App!Run(g, TRUE), App!Call("present"), App!Call("sync")>> : g \in Chains}

hvars == <<data, index, size, log>>
cvars == <<buffer, lastValidPacket, offsetApprox, delayApprox, samples>>
kvars == <<down, focused, pressed, edge, modifiers, event, heard, reflected, doubtful>>
mvars == <<page, offset, live, list, left, right, steps>>
gvars == <<heaps, resources, reset>>
fvars == <<pages, current, mapped, memory, handles, perFrame, rendering, descriptor, static,
           views, frame>>
ovars == <<debug, bulks, freeListHead, link, objects, camera, trails, marked, loop, astray,
           unexpected>>
rvars == <<script, begun, phase, given, graph, turn, recorded, stack, gpu, fence, upload, pool,
           lists, done>>
allVars == <<part, vars, hvars, cvars, kvars, mvars, gvars, fvars, ovars, rvars>>

MCInit ==
  /\ part \in {"players", "history", "clock", "keyboard", "memory", "heaps", "frames", "objects",
               "render"}
  /\ Init /\ History!Init /\ Clock!Init /\ Keys!Init /\ Memory!Init
  /\ Heaps!Init /\ Frames!Init /\ Objects!Init /\ Render!Init
  /\ part # "keyboard" => down = {}
  /\ part # "memory" => page = CHOOSE base \in Bases : TRUE
  /\ part # "objects" => camera = BulkSize /\ debug = FALSE

MCNext ==
  \/ /\ part = "players" /\ Next
     /\ UNCHANGED <<part, hvars, cvars, kvars, mvars, gvars, fvars, ovars, rvars>>
  \/ /\ part = "history" /\ History!Next
     /\ UNCHANGED <<part, vars, cvars, kvars, mvars, gvars, fvars, ovars, rvars>>
  \/ /\ part = "clock" /\ Clock!Next
     /\ UNCHANGED <<part, vars, hvars, kvars, mvars, gvars, fvars, ovars, rvars>>
  \/ /\ part = "keyboard" /\ Keys!Next
     /\ UNCHANGED <<part, vars, hvars, cvars, mvars, gvars, fvars, ovars, rvars>>
  \/ /\ part = "memory" /\ Memory!Next
     /\ UNCHANGED <<part, vars, hvars, cvars, kvars, gvars, fvars, ovars, rvars>>
  \/ /\ part = "heaps" /\ Heaps!Next
     /\ UNCHANGED <<part, vars, hvars, cvars, kvars, mvars, fvars, ovars, rvars>>
  \/ /\ part = "frames" /\ Frames!Next
     /\ UNCHANGED <<part, vars, hvars, cvars, kvars, mvars, gvars, ovars, rvars>>
  \/ /\ part = "objects" /\ Objects!Next
     /\ UNCHANGED <<part, vars, hvars, cvars, kvars, mvars, gvars, fvars, rvars>>
  \/ /\ part = "render" /\ Render!Next
     /\ UNCHANGED <<part, vars, hvars, cvars, kvars, mvars, gvars, fvars, ovars>>

(* The fairness of ObjectAllocator and of RenderFrame, for their parts.    *)
MCFairness ==
  /\ WF_allVars(/\ part = "memory" /\ \E n \in 1..MaxSteps : Memory!Defragment(n)
                /\ UNCHANGED <<part, vars, hvars, cvars, kvars, gvars, fvars, ovars, rvars>>)
  /\ WF_allVars(/\ part = "memory" /\ Memory!DefragmentStep
                /\ UNCHANGED <<part, vars, hvars, cvars, kvars, gvars, fvars, ovars, rvars>>)
  /\ WF_allVars(/\ part = "render" /\ Render!Cpu
                /\ UNCHANGED <<part, vars, hvars, cvars, kvars, mvars, gvars, fvars, ovars>>)
  /\ \A q \in Render!Queues :
       WF_allVars(/\ part = "render" /\ Render!GpuStep(q)
                  /\ UNCHANGED <<part, vars, hvars, cvars, kvars, mvars, gvars, fvars, ovars>>)

MCSpec == MCInit /\ [][MCNext]_allVars /\ MCFairness

(* HandleFireAction finds the two frames around a shot.                    *)
HistoryIsBracketed == History!HistoryIsBracketed
(* The clock offset of a client is within half the rtt of the truth.       *)
ClockErrorIsBounded == Clock!ClockErrorIsBounded
(* Pressed keys and edges are those of the keyboard.                       *)
KeysFollowTheKeyboard == Keys!KeysFollowTheKeyboard
(* No word of a page is used twice, and of an even page none is lost.      *)
PageIsPartitioned == Memory!PageIsPartitioned
(* Left alone, Defragment merges all that can be merged.                   *)
DefragmentationEnds == Memory!DefragmentationEnds
(* No two resources overlap in a heap, and no room is lost.                *)
HeapsArePartitioned == Heaps!HeapsArePartitioned
(* Constants and descriptors of a frame stay until the frame is complete.  *)
FrameMemoryIsKept == Frames!FrameMemoryIsKept
(* Loops over a scene visit what is there, once.                           *)
LoopsAreExact == Objects!LoopsAreExact
(* No allocator or list of a frame is reset while the GPU uses it.         *)
NothingInUseIsReset == Render!NothingInUseIsReset
(* Exactly the passes that nothing depends on are culled.                  *)
CullingIsExact == Render!CullingIsExact
(* Passes are executed after those that write what they read.              *)
PassesFindTheirResources == Render!PassesFindTheirResources
(* The host never waits forever for the GPU.                               *)
HostWaitsEnd == Render!HostWaitsEnd
=============================================================================
