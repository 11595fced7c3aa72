--------------------------- MODULE GraphicsEngine ---------------------------
(* The frame graphs the game client and the asset editor build, as the        *)
(* engine sees them after the setup callbacks ran: each pass has a type       *)
(* ("direct" for GRAPHICS, "compute" for COMPUTE) and the resources it said   *)
(* it reads and writes, in the order it said so.  Writes(nullptr) and         *)
(* Writes(0) name the back buffer.  A frame is the sequence of calls the      *)
(* application makes on graphics->frame.                                      *)
EXTENDS Sequences

Backbuffer == "0"

Pass(type, reads, writes) == [type |-> type, reads |-> reads, writes |-> writes]

Skinning       == Pass("compute", <<>>, <<>>)
PreGbuffer     == Pass("direct", <<>>, <<Backbuffer>>)
PostGbuffer    == Pass("direct", <<>>, <<Backbuffer>>)
SkinnedGbuffer == Pass("direct", <<>>, <<"depth", Backbuffer>>)
Gbuffer        == Pass("direct", <<>>, <<Backbuffer, "depth">>)
UIPass         == Pass("direct", <<>>, <<Backbuffer>>)
Background     == Pass("direct", <<"depth">>, <<Backbuffer>>)
DebugPrim      == Pass("direct", <<>>, <<Backbuffer>>)

EditorBackground == Pass("direct", <<"depth", "1">>, <<Backbuffer>>)
EditorDebug      == Pass("direct", <<>>, <<"1">>)

Integrate(r) == <<Pass("compute", <<>>, <<r>>), Pass("direct", <<r>>, <<>>)>>

(* CreateSkinnedGbufferPass adds nothing when no skinned item is to be drawn, *)
(* and the debug pass is there in debug builds with a debug context.          *)
FrameGraphs ==
    {<<PreGbuffer>> \o skinned \o <<Gbuffer, PostGbuffer, Background, UIPass>> \o debug :
        skinned \in {<<>>, <<SkinnedGbuffer>>}, debug \in {<<>>, <<DebugPrim>>}}

ComputeFrameGraph == <<Skinning>>

PrefilterGraph == Integrate("envmap") \o Integrate("brdf")

EditorFrameGraph == <<Gbuffer, EditorBackground, EditorDebug>>

Run(graph, cull) == [op |-> "run", graph |-> graph, cull |-> cull]
Call(name)       == [op |-> name]

(* GameApp::Render, the prefiltering in LoadAssets (after an upload of the    *)
(* assets), and the editor's Run.                                             *)
GameFrame(graph) ==
    <<Run(ComputeFrameGraph, FALSE), Call("sync"),
      Run(graph, TRUE), Call("present"), Call("sync")>>
LoadAssets  == <<Call("upload"), Run(PrefilterGraph, FALSE), Call("sync")>>
EditorFrame == <<Run(EditorFrameGraph, FALSE), Call("present"), Call("sync")>>

AppScripts == {GameFrame(g) : g \in FrameGraphs} \cup {LoadAssets, EditorFrame}
=============================================================================
