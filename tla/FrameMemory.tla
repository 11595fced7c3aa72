----------------------------- MODULE FrameMemory -----------------------------
(***************************************************************************)
(* What the passes of a frame take and never give back one by one: the     *)
(* constant buffers of ConstantBufferPool and the descriptors of           *)
(* DynamicDescriptorHeap.  Both start over when the frame is complete; the *)
(* views the application keeps lie in front of the frame's descriptors.    *)
(* That the GPU is done with a frame by then is RenderFrame's subject.     *)
(*                                                                         *)
(* Sizes of constant buffers are counted in units of a part of their       *)
(* placement alignment.                                                    *)
(***************************************************************************)
EXTENDS Integers, Sequences

CONSTANTS
  PageSize,   \* CBUFFER_PAGE_SIZE
  Alignment,  \* D3D12_CONSTANT_BUFFER_DATA_PLACEMENT_ALIGNMENT
  DataSizes,  \* bound: sizes of constants, none above PageSize
  MaxHandles, \* bound: constant buffers of a frame
  MaxViews,   \* bound: descriptors in a heap
  MaxFrames   \* bound: values written are numbers of frames

VARIABLES
  pages,      \* ConstantBufferPool::pages: the buffer and the offset
  current,    \* index of currentPage, 0 for none
  mapped,     \* the buffer mappedPtr leads to, 0 for none
  memory,     \* contents of the buffers: what each unit belongs to
  handles,    \* allocationPages of this frame: buffer, offset, length
  perFrame,   \* GraphicsEngine::perFrameCbuffer: the handle the passes share
  rendering,  \* IsRendering
  offset,     \* next descriptor of each heap
  static,     \* descriptors the application keeps, by kind of view
  views,      \* the runs of descriptors handed out: those kept, those of the frame
  frame       \* number of the frame

frameVars == <<pages, current, mapped, memory, handles, perFrame, rendering, offset, static,
               views, frame>>
constantVars == <<pages, current, mapped, memory, handles, perFrame>>
descriptorVars == <<rendering, offset, static, views>>

Heaps == {"srvCpu", "srvShader", "dsv", "rtv"}
KindOf(heap) == IF heap \in {"srvCpu", "srvShader"} THEN "srv" ELSE heap

Init ==
  /\ pages = <<>> /\ current = 0 /\ mapped = 0 /\ memory = <<>>
  /\ handles = <<>> /\ perFrame = 0
  /\ rendering = FALSE
  /\ offset = [h \in Heaps |-> 0] /\ static = [k \in {"srv", "dsv", "rtv"} |-> 0]
  /\ views = {}
  /\ frame = 0

-----------------------------------------------------------------------------
(* ConstantBufferPool.                                                     *)
NewPage == [buffer |-> Len(memory) + 1, offset |-> 0]
Aligned(size) == ((size + Alignment - 1) \div Alignment) * Alignment

FitsOnceMore(page, size) == PageSize - page.offset >= size - 1        \* mutant
Fits(page, size) == PageSize - page.offset >= size

(* ValidateCurrentPageFor: the first page, the current one, or the next.   *)
TurnsPage(size) == current # 0 /\ ~Fits(pages[current], size)

PageFor(size) == IF current = 0 THEN 1 ELSE IF TurnsPage(size) THEN current + 1 ELSE current

(* SetConstants: CreateConstantBuffer and CopyData, which writes where     *)
(* mappedPtr leads, whatever page the handle is on.                        *)
SetConstants(size) ==
  LET at == PageFor(size)
      present == IF at > Len(pages) THEN Append(pages, NewPage) ELSE pages
      page == present[at]
      data == IF at > Len(pages)
              THEN Append(memory, [unit \in 0 .. 2 * PageSize - 1 |-> <<>>]) ELSE memory
      owner == <<frame, Len(handles) + 1>>
  IN /\ rendering /\ Len(handles) < MaxHandles
     /\ current' = at
     /\ mapped' = IF current = 0 \/ TurnsPage(size) THEN page.buffer ELSE mapped
     /\ pages' = [present EXCEPT ![at].offset = @ + Aligned(size)]
     /\ handles' = Append(handles, [buffer |-> page.buffer, at |-> page.offset, length |-> size])
     /\ memory' = [data EXCEPT ![mapped'] =
                     [unit \in DOMAIN @ |-> IF unit \in page.offset .. page.offset + size - 1
                                            THEN owner ELSE @[unit]]]
     /\ UNCHANGED <<descriptorVars, frame>>

(* SetPerFrameCb, by the first pass of a frame that needs it; the others   *)
(* reuse the handle.                                                       *)
SetPerFrameCb(size) ==
  /\ perFrame = 0
  /\ SetConstants(size)
  /\ perFrame' = Len(handles')

(* Clear: every page is empty again; if there are more, the mapped one     *)
(* becomes the first.                                                      *)
Swapped(s, i) == [s EXCEPT ![1] = s[i], ![i] = s[1]]

Clear ==
  LET emptied == [i \in DOMAIN pages |-> [pages[i] EXCEPT !.offset = 0]]
  IN /\ pages' = IF current > 1 THEN Swapped(emptied, current) ELSE emptied
     /\ current' = IF current > 1 THEN 1 ELSE current
     /\ handles' = <<>>
     /\ UNCHANGED <<mapped, memory>>

-----------------------------------------------------------------------------
(* DynamicDescriptorHeap.  A run of n descriptors in each of some heaps.   *)
Run(heaps, n, kept) == {[heap |-> h, at |-> offset[h], n |-> n, kept |-> kept] : h \in heaps}

Take(heaps, n, kept) ==
  /\ \A h \in heaps : offset[h] + n <= MaxViews
  /\ offset' = [h \in Heaps |-> IF h \in heaps THEN offset[h] + n ELSE offset[h]]
  /\ views' = views \cup Run(heaps, n, kept)
  /\ UNCHANGED <<rendering, constantVars, frame>>

(* CreateBufferUAV; CreateSRV and CreateCBV; CreateRTV; CreateDSV.         *)
CreateTransient ==
  /\ rendering
  /\ \E heaps \in {{"srvCpu", "srvShader"}, {"srvShader"}, {"rtv"}, {"dsv"}} :
       Take(heaps, 1, FALSE)
  /\ UNCHANGED static

(* CreatePermanentSRV, DSV and RTV, outside rendering.                     *)
CreatePermanent ==
  /\ ~rendering
  /\ \E kind \in {"srv", "dsv", "rtv"}, n \in 1..2 :
       /\ kind = "dsv" => n = 1
       /\ Take({h \in Heaps : KindOf(h) = kind}, n, TRUE)
       /\ static' = [static EXCEPT ![kind] = @ + n]

StartOver == [h \in Heaps |-> static[KindOf(h)]]

(* DX12GraphicsModule::Prepare and CompleteFrame, the latter followed by   *)
(* GraphicsEngine::Reset.                                                  *)
Prepare ==
  /\ ~rendering /\ frame < MaxFrames
  /\ rendering' = TRUE
  /\ offset' = StartOver
  /\ frame' = frame + 1
  /\ UNCHANGED <<static, views, constantVars>>

CompleteFrame ==
  /\ rendering
  /\ Clear
  /\ perFrame' = 0
  /\ rendering' = FALSE
  /\ offset' = StartOver
  /\ views' = {v \in views : v.kept}
  /\ UNCHANGED <<static, frame>>

Next ==
  \/ \E size \in DataSizes : SetPerFrameCb(size) \/ (SetConstants(size) /\ UNCHANGED perFrame)
  \/ CreateTransient \/ CreatePermanent
  \/ Prepare \/ CompleteFrame

Spec == Init /\ [][Next]_frameVars

-----------------------------------------------------------------------------
(* Until its frame is complete, what a pass has set can be read where its  *)
(* handle leads, whatever the others set since, over any number of pages   *)
(* and frames and for the handle passes share; and no descriptor of a kept *)
(* view is given to a pass, nor one to two passes.                         *)
FrameMemoryIsKept ==
  /\ \A i \in DOMAIN handles :
       LET h == handles[i] IN
       /\ h.at + h.length <= PageSize
       /\ \A unit \in h.at .. h.at + h.length - 1 : memory[h.buffer][unit] = <<frame, i>>
  /\ perFrame \in 0..Len(handles)
  /\ \A v, w \in views : v # w /\ v.heap = w.heap =>
       v.at + v.n <= w.at \/ w.at + w.n <= v.at
=============================================================================
