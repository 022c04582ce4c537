--------------------------- MODULE PluginsModel ----------------------------
(* The instance of Plugins that TLC checks.                                *)
EXTENDS Plugins

Json(name, caps, perms) ==
    [name |-> name, version |-> "1", major |-> 1, minor |-> -1, capabilities |-> caps,
     permissions |-> perms, artifact |-> name, signature |-> ""]
File(ext) ==
    [ext |-> ext, exists |-> TRUE, regular |-> TRUE, root |-> "r", size |-> 1, valid |-> TRUE,
     exports |-> TRUE, abi |-> 1, specs |-> {},
     descriptor |-> [whole |-> TRUE, long |-> FALSE, major |-> 1, name |-> "", version |-> "1",
                     init |-> TRUE, fits |-> TRUE, caps |-> {}, perms |-> {}]]
GuestTool(name) == [object |-> TRUE, name |-> name, risk |-> 0, invoke |-> TRUE]

MCArtifacts ==
    { [json |-> Json("n", {"provider", "observer"}, {"provider", "observer"}),
       file |-> [File(".so") EXCEPT !.descriptor.name = "n"]],
      [json |-> Json("t", {"tool", "memory"}, {"tool", "memory"}),
       file |-> [File(".so") EXCEPT !.descriptor.name = "t"]],
      [json |-> Json("c", {"channel", "peripheral"}, {"channel", "peripheral"}),
       file |-> [File(".so") EXCEPT !.descriptor.name = "c"]],
      [json |-> Json("w", {"wasm", "tool"}, {"tool"}),
       file |-> [File(".wasm") EXCEPT !.specs = {GuestTool("x"), GuestTool("b"), GuestTool("")}]],
      [json |-> Json("p", {"python", "tool"}, {"tool"}),
       file |-> [File(".py") EXCEPT !.specs = {GuestTool("x"), GuestTool("y"), GuestTool(""), [GuestTool("y") EXCEPT !.invoke = FALSE]}]],
      [json |-> Json("s", {"tool"}, {"shell"}), file |-> File(".so")] }

MCOptions ==
    [allowed |-> {"provider", "tool", "observer", "memory", "channel", "peripheral"}, extensions |-> {}, roots |-> {"r"},
     wasm |-> TRUE, python |-> TRUE, memory |-> TRUE, observers |-> TRUE]
MCBuiltIn == {<<"tool", "b">>}
=============================================================================
