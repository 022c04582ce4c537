----------------------------- MODULE ToolsModel -----------------------------
(* The instance of Tools that TLC checks.                                  *)
EXTENDS Tools

W == FromRoot(<<"w">>)

MCConfigs ==
    { [p \in {"autonomy.level", "autonomy.shell_enabled", "runtime.workspace_path",
              "security.sandbox.allow_noop_fallback"} |->
         CASE p = "autonomy.level" -> "full"
           [] p = "runtime.workspace_path" -> W
           [] OTHER -> TRUE],
      [p \in {"autonomy.level", "runtime.workspace_path", "autonomy.auto_approve",
              "autonomy.forbidden_paths", "security.otp.enabled", "security.otp.code",
              "security.otp.actions"} |->
         CASE p = "autonomy.level" -> "supervised"
           [] p = "runtime.workspace_path" -> W
           [] p = "autonomy.auto_approve" -> <<"file_list">>
           [] p = "autonomy.forbidden_paths" -> <<FromRoot(<<"w", "d">>)>>
           [] p = "security.otp.enabled" -> TRUE
           [] p = "security.otp.code" -> "1234"
           [] OTHER -> <<"file_list">>],
      [p \in {"autonomy.level", "autonomy.shell_enabled", "autonomy.workspace_only",
              "security.sandbox.network", "agent.tool_receipts.enabled"} |->
         CASE p = "autonomy.level" -> "autonomous"
           [] p = "autonomy.shell_enabled" -> TRUE
           [] p = "security.sandbox.network" -> "none"
           [] OTHER -> FALSE] }

Call(tool, path, mode, otp, approved) ==
    [tool |-> tool, path |-> FromRoot(path), mode |-> mode, shell |-> NoCommand,
     otp |-> otp, approved |-> approved]

Shell(words, danger, control) ==
    [tool |-> "shell", path |-> NoArg, mode |-> "", otp |-> "1234", approved |-> TRUE,
     shell |-> [danger |-> danger, control |-> control, words |-> words]]

MCCalls ==
    { Call("file_read", <<"w", "f">>, "", "", FALSE),
      Call("file_write", <<"w", "f">>, "overwrite", "1234", TRUE),
      Call("file_write", <<"w", "d", "f">>, "create", "1234", TRUE),
      Call("file_write", <<"w", "f">>, "create", "1234", FALSE),
      Call("file_write", <<"w", "f">>, "append", "1234", TRUE),
      Call("file_write", <<"o", "f">>, "overwrite", "1234", TRUE),
      Call("file_write", <<"w", "f">>, "prepend", "1234", TRUE),
      Call("file_list", <<"w", "d">>, "", "1234", FALSE),
      Shell(<<"ls">>, FALSE, FALSE),
      Shell(<<"reboot">>, FALSE, FALSE),
      Shell(<<"ls", "rm">>, TRUE, TRUE) }
=============================================================================
