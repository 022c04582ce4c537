------------------------------- MODULE Tools --------------------------------
(***************************************************************************)
(* The native tools that touch the machine: file_read, file_write,         *)
(* file_list (tools/file_read.c, file_tools.c) and shell (tools/shell.c),  *)
(* with the security check every call passes (tools/tool_common.c), the    *)
(* process runner, the workspace walk, and the emergency stop that the     *)
(* daemon reads when it boots.                                             *)
(*                                                                         *)
(* Other actors: another process replaces a directory of the workspace, or *)
(* a file, by a symbolic link and back; the child of the shell writes,     *)
(* forks and exits; an operator trips and resets the emergency stop with   *)
(* the command line; the daemon may be killed between any two steps.       *)
(*                                                                         *)
(* The tree: /w is the workspace with the directory d and the file f, /o   *)
(* is outside.  A directory is named by its inode: "ws", "sub" and "out".  *)
(***************************************************************************)
EXTENDS Security

CONSTANTS Configs,       \* the configurations a daemon may boot with
          Calls,         \* the calls a model may make
          Available,     \* the sandbox backends present on the machine
          MaxCalls,      \* calls made over all lives
          MaxLives,      \* boots of the daemon
          MaxTrips,   \* commands of the operator
          MaxOut         \* max_output_bytes, in chunks

ASSUME BoundsAssumption ==
    /\ {MaxCalls, MaxLives, MaxTrips, MaxOut} \subseteq Nat
    /\ Configs # {} /\ Calls # {}

VARIABLES daemon,    \* its life: phase, number, configuration, policy, estop
          tree,      \* what the links are, and the content of every file
          call,      \* the call in progress
          proc,      \* the child of the process runner
          effects,   \* the calls of this life that did something
          panel      \* the state file of the emergency stop and its operator

toolVars == <<daemon, tree, call, proc, effects, panel>>

(***************************************************************************)
(* The tree.                                                               *)
(***************************************************************************)
Dirs == {"ws", "sub", "out"}
CanonicalOf == [ws |-> <<"w">>, sub |-> <<"w", "d">>, out |-> <<"o">>]

World ==
    LET d == IF tree.dLink THEN "out" ELSE "sub"
        file(dir) == IF tree.file[dir] = "none" THEN NoPath
                     ELSE Append(CanonicalOf[dir], "f")
        real == [p \in {<<>>, <<"w">>, <<"o">>, <<"h">>, <<"w", "d">>, <<"w", "d", "f">>,
                        <<"w", "f">>, <<"o", "f">>} |->
                   CASE p = <<"w", "d">>      -> CanonicalOf[d]
                     [] p = <<"w", "d", "f">> -> file(d)
                     [] p = <<"w", "f">>      -> file(IF tree.fLink THEN "out" ELSE "ws")
                     [] p = <<"o", "f">>      -> file("out")
                     [] OTHER                 -> p]
    IN  [real |-> real, cwd |-> <<"w">>, home |-> <<"h">>]

(* openat(dir, name, O_NOFOLLOW): the directory, or why not.               *)
OpenDirAt(dir, name) ==
    CASE dir = "root" /\ name = "w" -> "ws"
      [] dir = "root" /\ name = "o" -> "out"
      [] dir = "ws" /\ name = "d"   -> IF tree.dLink THEN "denied" ELSE "sub"
      [] OTHER                      -> "io"

DirOf(path) == CHOOSE dir \in Dirs : CanonicalOf[dir] = path

LeafIsLink(dir) == dir = "ws" /\ tree.fLink

(***************************************************************************)
(* The state.                                                              *)
(***************************************************************************)
NoCall == [pc |-> "idle", id |-> 0, args |-> CHOOSE c \in Calls : TRUE, dir |-> "none",
           path |-> NoPath, segs |-> <<>>, st |-> "ok",
           before |-> [d \in Dirs |-> "none"], cancel |-> FALSE, acted |-> FALSE]

NoProc == [st |-> "none", kids |-> FALSE, wrote |-> 0, pipe |-> 0, code |-> 0,
           read |-> 0, seen |-> FALSE, late |-> FALSE]

ToolInit ==
    /\ daemon = [phase |-> "down", config |-> CHOOSE c \in Configs : TRUE,
                 policy |-> PolicyInitDefaults, estop |-> FALSE, life |-> 0]
    /\ tree = [dLink |-> FALSE, fLink |-> FALSE,
               file |-> [ws |-> "old", sub |-> "none", out |-> "old"],
               tmp |-> [ws |-> "none", sub |-> "none", out |-> "none"]]
    /\ call = NoCall
    /\ proc = NoProc
    /\ effects = {}
    /\ panel = [file |-> "absent", doing |-> "none", count |-> 0]

(***************************************************************************)
(* The emergency stop: the operator's command and the daemon's boot        *)
(* (app_estop.c, estop.c, bootstrap.c).  The file is truncated, then       *)
(* written; the daemon reads it once.  A call reads nothing of it, so the  *)
(* operator's steps are taken between calls.                               *)
(***************************************************************************)
EstopCommand(cmd) ==
    /\ panel.doing = "none" /\ panel.count < MaxTrips /\ call.pc = "idle"
    /\ panel' = [panel EXCEPT !.doing = cmd, !.file = "empty", !.count = @ + 1]
    /\ UNCHANGED <<daemon, tree, call, proc, effects>>

EstopWriteFile ==
    /\ panel.doing \in {"trip", "reset"} /\ call.pc = "idle"
    /\ panel' = [panel EXCEPT !.doing = "none",
                              !.file = IF panel.doing = "trip" THEN "on" ELSE "off"]
    /\ UNCHANGED <<daemon, tree, call, proc, effects>>

EstopReadFile(file) == file = "on"

(* ensure_workspace_state: a state file that is not there is created.  The *)
(* pid names the temporary files: with another pid, the ones that a killed *)
(* life left are never met again.                                          *)
BootCheck(config) ==
    /\ daemon.phase = "down" /\ daemon.life < MaxLives
    /\ \E policy \in PolicyFromConfig(config) :
         daemon' = [daemon EXCEPT !.phase = IF panel.file = "absent" THEN "create" ELSE "load",
                                  !.life = @ + 1, !.config = config, !.policy = policy]
    /\ call' = [NoCall EXCEPT !.id = call.id]
    /\ proc' = NoProc
    /\ effects' = {}
    /\ \/ UNCHANGED tree
       \/ tree' = [tree EXCEPT !.tmp = [d \in Dirs |-> "none"]]
    /\ UNCHANGED panel

BootCreate ==
    /\ daemon.phase = "create"
    /\ panel' = [panel EXCEPT !.file = "off"]
    /\ daemon' = [daemon EXCEPT !.phase = "load"]
    /\ UNCHANGED <<tree, call, proc, effects>>

BootLoad ==
    /\ daemon.phase = "load"
    /\ daemon' = [daemon EXCEPT !.phase = "up", !.estop = EstopReadFile(panel.file)]
    /\ UNCHANGED <<tree, call, proc, effects, panel>>

(* Killed: the child, its parent gone, is no longer the runner's.          *)
Crash ==
    /\ daemon.phase # "down" /\ daemon.life < MaxLives
    /\ daemon' = [daemon EXCEPT !.phase = "down", !.estop = FALSE]
    /\ call' = [NoCall EXCEPT !.id = call.id]
    /\ proc' = NoProc
    /\ UNCHANGED <<tree, effects, panel>>

(***************************************************************************)
(* A call begins: cancellation, arguments, the security check.             *)
(***************************************************************************)
RiskOf(tool) ==
    CASE tool \in {"file_read", "file_list"} -> "readonly"
      [] tool = "file_write"                 -> "side_effect"
      [] OTHER                               -> "shell"

RequestOf(args) ==
    [tool |-> args.tool, risk |-> RiskOf(args.tool), path |-> args.path,
     mustExist |-> args.tool # "file_write", url |-> NoUrl, shell |-> args.shell,
     device |-> "", otp |-> args.otp]

(* An answer to ask is cancelled unless the agent set the override.        *)
SecurityCheck(args) ==
    LET answer == ValidateRequest(daemon.policy, daemon.estop, World, RequestOf(args))
    IN  IF answer.st = "ok" /\ answer.ask /\ ~args.approved THEN "cancelled" ELSE answer.st

(* The shell tool looks at the command once more, with the lists of the    *)
(* configuration; a list of allowed commands forbids composition.          *)
ValidateShellCommand(config, command) ==
    LET base    == ShellCommandBasename(command)
        allowed == LoadListProp(config, "autonomy.allowed_commands")
        refused == LoadListProp(config, "autonomy.forbidden_commands")
    IN  IF base = <<>> THEN "invalid"
        ELSE IF \/ command.danger
                \/ base[1] \in refused
                \/ allowed # {} /\ (command.control \/ base[1] \notin allowed)
             THEN "denied" ELSE "ok"

(* The command is handed to rtk when that is configured for it; without    *)
(* rtk on the machine it runs plain, or not at all.                        *)
ShellExecutionCommand(config, command) ==
    IF \/ ~Given(config, "tools.rtk.enabled", FALSE)
       \/ ShellCommandBasename(command)[1] \notin LoadListProp(config, "tools.rtk.allowed_commands")
       \/ command.control
       \/ "rtk" \in Available
       \/ Given(config, "tools.rtk.fallback_passthrough", TRUE)
    THEN "ok" ELSE "unsupported"

Invoke(args) ==
    /\ daemon.phase = "up" /\ call.pc = "idle" /\ call.id < MaxCalls
    /\ LET check == SecurityCheck(args)
           st == IF check # "ok" \/ args.tool # "shell" THEN check
                 ELSE IF ValidateShellCommand(daemon.config, args.shell) # "ok"
                 THEN ValidateShellCommand(daemon.config, args.shell)
                 ELSE ShellExecutionCommand(daemon.config, args.shell)
       IN  call' = [NoCall EXCEPT !.id = call.id + 1, !.args = args, !.st = st,
                      !.before = tree.file,
                      !.pc = IF st # "ok" THEN "receipt"
                             ELSE IF args.tool = "shell" THEN "spawn" ELSE "resolve"]
    /\ UNCHANGED <<daemon, tree, proc, effects, panel>>

Fail(st) == call' = [call EXCEPT !.st = st, !.pc = "receipt"]

(***************************************************************************)
(* Reaching the file: sc_workspace_open_parent resolves the name again,    *)
(* then opens directory after directory without following a link.          *)
(***************************************************************************)
WorkspaceRoot ==
    IF daemon.policy.workspaceOnly THEN CanonicalizeExisting(World, daemon.policy.root) ELSE <<>>

(* For each path argument: the status and what lies between root and leaf. *)
OpenParentPlan(path) ==
    LET policy == daemon.policy
        check  == ValidatePath(policy, World, path, FALSE)
        r      == WorkspaceResolve(policy, World, path, FALSE)
        root   == WorkspaceRoot
    IN  IF check # "ok" THEN [st |-> check, segs |-> <<>>]
        ELSE IF ~PathHasPrefix(r.path, root) \/ Len(r.path) <= Len(root)
        THEN [st |-> "denied", segs |-> <<>>]
        ELSE [st |-> "ok", segs |-> SubSeq(r.path, Len(root) + 1, Len(r.path))]

ResolveParent ==
    /\ call.pc = "resolve" /\ call.args.tool \in {"file_read", "file_write"}
    /\ LET plan == OpenParentPlan(call.args.path)
       IN  IF plan.st # "ok" THEN Fail(plan.st)
           ELSE call' = [call EXCEPT !.pc = "walk", !.segs = plan.segs,
                           !.dir = IF WorkspaceRoot = <<>> THEN "root" ELSE DirOf(WorkspaceRoot)]
    /\ UNCHANGED <<daemon, tree, proc, effects, panel>>

WalkSegment ==
    /\ call.pc = "walk" /\ Len(call.segs) > 1
    /\ LET next == OpenDirAt(call.dir, Head(call.segs))
       IN  IF next \in Status THEN Fail(next)
           ELSE call' = [call EXCEPT !.dir = next, !.segs = Tail(@)]
    /\ UNCHANGED <<daemon, tree, proc, effects, panel>>

AtLeaf == call.pc = "walk" /\ Len(call.segs) = 1 /\ call.dir \in Dirs

ReadLeaf ==
    /\ AtLeaf /\ call.args.tool = "file_read"
    /\ IF LeafIsLink(call.dir) THEN Fail("denied")
       ELSE IF tree.file[call.dir] = "none" THEN Fail("io")
       ELSE call' = [call EXCEPT !.pc = "receipt", !.acted = TRUE]
    /\ UNCHANGED <<daemon, tree, proc, effects, panel>>

(* file_list resolves the name and opens it by name.                       *)
ResolveList ==
    /\ call.pc = "resolve" /\ call.args.tool = "file_list"
    /\ LET r == WorkspaceResolve(daemon.policy, World, call.args.path, TRUE)
       IN  IF r.st # "ok" THEN Fail(r.st)
           ELSE call' = [call EXCEPT !.pc = "list", !.path = r.path]
    /\ UNCHANGED <<daemon, tree, proc, effects, panel>>

ListDirectory ==
    /\ call.pc = "list"
    /\ LET there == RealPath(World, call.path)
       IN  IF there \notin {CanonicalOf[d] : d \in Dirs} THEN Fail("io")
           ELSE call' = [call EXCEPT !.pc = "receipt", !.acted = TRUE, !.dir = DirOf(there)]
    /\ UNCHANGED <<daemon, tree, proc, effects, panel>>

(* Mutant: the target is opened with O_TRUNC as well.                      *)
OpenTempTruncating ==
    /\ AtLeaf /\ call.args.tool = "file_write" /\ call.args.mode \in {"overwrite", "create"}
    /\ call' = [call EXCEPT !.pc = "write"]
    /\ tree' = [tree EXCEPT !.tmp[call.dir] = "part", !.file[call.dir] = "part"]
    /\ UNCHANGED <<daemon, proc, effects, panel>>

(***************************************************************************)
(* Writing: a temporary file beside the target, then rename, or link when  *)
(* the file must not exist; append writes in place.  Every failure unlinks *)
(* the temporary name.                                                     *)
(***************************************************************************)
DropTemp == tree' = [tree EXCEPT !.tmp[call.dir] = "none"]

(* O_EXCL: a temporary file that is already there, of a daemon that had    *)
(* the same pid and was killed, fails the call, and is unlinked as well.   *)
OpenTemp ==
    /\ AtLeaf /\ call.args.tool = "file_write" /\ call.args.mode \in {"overwrite", "create"}
    /\ \/ /\ tree.tmp[call.dir] = "none"
          /\ call' = [call EXCEPT !.pc = "write"]
          /\ tree' = [tree EXCEPT !.tmp[call.dir] = "part"]
       \/ tree.tmp[call.dir] # "none" /\ Fail("invalid") /\ DropTemp
       \/ Fail("io") /\ DropTemp
    /\ UNCHANGED <<daemon, proc, effects, panel>>

(* The bytes are written, or the disk is full and the temporary file is    *)
(* removed.                                                                *)
WriteTemp ==
    /\ call.pc = "write"
    /\ \/ /\ call' = [call EXCEPT !.pc = "publish"]
          /\ tree' = [tree EXCEPT !.tmp[call.dir] = "new"]
       \/ Fail("io") /\ DropTemp
    /\ UNCHANGED <<daemon, proc, effects, panel>>

(* linkat refuses a name that exists; it and renameat may fail otherwise.  *)
PublishTemp ==
    /\ call.pc = "publish"
    /\ LET dir    == call.dir
           exists == tree.file[dir] # "none" \/ LeafIsLink(dir)
       IN  \/ /\ ~(call.args.mode = "create" /\ exists)
              /\ call' = [call EXCEPT !.pc = "receipt", !.acted = TRUE]
              /\ tree' = [tree EXCEPT !.file[dir] = tree.tmp[dir], !.tmp[dir] = "none",
                                      !.fLink = @ /\ dir # "ws"]
           \/ call.args.mode = "create" /\ exists /\ Fail("invalid") /\ DropTemp
           \/ Fail("io") /\ DropTemp
    /\ UNCHANGED <<daemon, proc, effects, panel>>

OpenAppend ==
    /\ AtLeaf /\ call.args.tool = "file_write" /\ call.args.mode = "append"
    /\ IF LeafIsLink(call.dir) THEN Fail("denied") /\ UNCHANGED tree
       ELSE /\ call' = [call EXCEPT !.pc = "append"]
            /\ tree' = [tree EXCEPT !.file[call.dir] = IF @ = "none" THEN "part" ELSE @]
    /\ UNCHANGED <<daemon, proc, effects, panel>>

AppendBytes ==
    /\ call.pc = "append"
    /\ \/ /\ call' = [call EXCEPT !.pc = "receipt", !.acted = TRUE]
          /\ tree' = [tree EXCEPT !.file[call.dir] = "appended"]
       \/ /\ call' = [call EXCEPT !.pc = "receipt", !.st = "io", !.acted = TRUE]
          /\ tree' = [tree EXCEPT !.file[call.dir] = "part"]
    /\ UNCHANGED <<daemon, proc, effects, panel>>

BadMode ==
    /\ AtLeaf /\ call.args.tool = "file_write"
    /\ call.args.mode \notin {"overwrite", "create", "append"}
    /\ Fail("invalid")
    /\ UNCHANGED <<daemon, tree, proc, effects, panel>>

(***************************************************************************)
(* The process runner (process_runner.c).                                  *)
(***************************************************************************)
(* No pipe or no fork; or the child is there and cannot be given its own   *)
(* group: it is killed and reaped.                                         *)
SpawnFails ==
    \/ Fail("io") /\ UNCHANGED proc
    \/ /\ call' = [call EXCEPT !.pc = "receipt", !.st = "io", !.acted = TRUE]
       /\ proc' = [NoProc EXCEPT !.st = "reaped"]

Spawn ==
    /\ call.pc = "spawn"
    /\ LET cwd  == CanonicalizeExisting(World, daemon.policy.root)
           plan == SelectProcessSandbox(daemon.policy, Available, cwd)
           net  == ValidateProcessNetwork(daemon.policy, TRUE)
       IN  IF net # "ok" THEN Fail(net) /\ UNCHANGED proc
           ELSE IF plan = {} THEN Fail("unsupported") /\ UNCHANGED proc
           ELSE \/ /\ call' = [call EXCEPT !.pc = "wait", !.acted = TRUE]
                   /\ proc' = [NoProc EXCEPT !.st = "run"]
                \/ SpawnFails
    /\ UNCHANGED <<daemon, tree, effects, panel>>

ChildWrites ==
    /\ proc.st = "run" /\ proc.wrote <= MaxOut
    /\ proc' = [proc EXCEPT !.wrote = @ + 1, !.pipe = @ + 1]
    /\ UNCHANGED <<daemon, tree, call, effects, panel>>

ChildForks ==
    /\ proc.st = "run" /\ ~proc.kids
    /\ proc' = [proc EXCEPT !.kids = TRUE]
    /\ UNCHANGED <<daemon, tree, call, effects, panel>>

ChildExits(code) ==
    /\ proc.st = "run"
    /\ proc' = [proc EXCEPT !.st = "exited", !.code = code]
    /\ UNCHANGED <<daemon, tree, call, effects, panel>>

TimeUp ==
    /\ proc.st \in {"run", "exited"} /\ ~proc.late
    /\ proc' = [proc EXCEPT !.late = TRUE]
    /\ UNCHANGED <<daemon, tree, call, effects, panel>>

Cancel ==
    /\ call.pc \notin {"idle", "receipt"} /\ ~call.cancel
    /\ call' = [call EXCEPT !.cancel = TRUE]
    /\ UNCHANGED <<daemon, tree, proc, effects, panel>>

(* Mutant: only the child is killed.                                       *)
KillChildOnly == [proc EXCEPT !.st = "reaped"]

(* The whole process group is killed and the child reaped.                 *)
KillGroup == [proc EXCEPT !.st = "reaped", !.kids = FALSE]

(* append_bytes keeps what fits, and fails when something does not.        *)
AppendOut(count) ==
    LET room == MaxOut - proc.read
    IN  [read |-> IF count > room THEN MaxOut ELSE proc.read + count,
         fits |-> count <= room /\ (count > 0 => proc.read < MaxOut)]

(* One turn of the loop, up to waitpid.                                    *)
RunWait ==
    /\ call.pc = "wait"
    /\ IF call.cancel THEN Fail("cancelled") /\ proc' = KillGroup
       ELSE IF proc.late THEN Fail("timeout") /\ proc' = KillGroup
       ELSE /\ proc' = [proc EXCEPT !.seen = proc.st = "exited"]
            /\ call' = [call EXCEPT !.pc = "read"]
    /\ UNCHANGED <<daemon, tree, effects, panel>>

(* The rest of it: one chunk is read; when the child was seen to have      *)
(* ended, everything left in the pipe, and its group is killed.            *)
RunRead ==
    /\ call.pc = "read"
    /\ LET a == AppendOut(IF proc.seen THEN proc.pipe
                          ELSE IF proc.pipe > 0 THEN 1 ELSE 0)
       IN  IF proc.seen
           THEN /\ proc' = [KillGroup EXCEPT !.read = a.read, !.pipe = 0]
                /\ IF ~a.fits THEN Fail("io")
                   ELSE IF proc.code # 0 THEN Fail("io")
                   ELSE call' = [call EXCEPT !.pc = "receipt"]
           ELSE IF ~a.fits
           THEN Fail("io") /\ proc' = [KillGroup EXCEPT !.read = a.read]
           ELSE /\ proc' = [proc EXCEPT !.read = a.read,
                              !.pipe = IF @ > 0 THEN @ - 1 ELSE 0]
                /\ call' = [call EXCEPT !.pc = "wait"]
    /\ UNCHANGED <<daemon, tree, effects, panel>>

(* The end of every invocation.  sc_tool_record_receipt writes nothing:    *)
(* the context of the daemon's tools has no receipt chain, so every call   *)
(* ends with the status it has.                                            *)
RecordReceipt ==
    /\ call.pc = "receipt"
    /\ effects' = IF call.acted THEN effects \cup {call.id} ELSE effects
    /\ call' = [NoCall EXCEPT !.id = call.id]
    /\ proc' = NoProc
    /\ UNCHANGED <<daemon, tree, panel>>

(***************************************************************************)
(* Another process replaces the directory d, or the file f, by a link.     *)
(***************************************************************************)
Swap ==
    /\ daemon.phase = "up" /\ call.pc \notin {"idle", "receipt"}
    /\ \/ tree' = [tree EXCEPT !.dLink = ~@]
       \/ tree.file.ws # "none" /\ tree' = [tree EXCEPT !.fLink = ~@]
    /\ UNCHANGED <<daemon, call, proc, effects, panel>>

ToolNext ==
    \/ \E cmd \in {"trip", "reset"} : EstopCommand(cmd)
    \/ EstopWriteFile
    \/ \E c \in Configs : BootCheck(c)
    \/ BootCreate \/ BootLoad \/ Crash
    \/ \E args \in Calls : Invoke(args)
    \/ ResolveParent \/ WalkSegment \/ ReadLeaf \/ ResolveList \/ ListDirectory
    \/ OpenTemp \/ WriteTemp \/ PublishTemp \/ OpenAppend \/ AppendBytes \/ BadMode
    \/ Spawn \/ ChildWrites \/ ChildForks \/ (\E code \in {0, 1} : ChildExits(code))
    \/ TimeUp \/ Cancel \/ RunWait \/ RunRead
    \/ RecordReceipt \/ Swap

ToolSpec == ToolInit /\ [][ToolNext]_toolVars

-----------------------------------------------------------------------------
(***************************************************************************)
(* Properties.                                                             *)
(***************************************************************************)

(* "Handle symlinks and replacement races" (TOOL_RULES.md): whatever is    *)
(* replaced by a link between the security check and the open, file_read   *)
(* and file_write only ever hold a directory of the workspace               *)
(* (sc_workspace_open_parent).                                             *)
FilesStayInside ==
    /\ daemon.policy.workspaceOnly
    /\ call.pc \in {"write", "publish", "append"} \/ (call.pc = "receipt" /\ call.acted)
    /\ call.args.tool \in {"file_read", "file_write"}
    => call.dir \in {"ws", "sub"}

(* "Preserve original file data when edits fail partway through": at every *)
(* step of an overwrite or create, so also where the daemon is killed,     *)
(* each file holds what it held before or all of the new bytes, and a      *)
(* write that is reported as failed changed none.                          *)
WriteIsAllOrNothing ==
    /\ daemon.phase = "up" /\ call.pc # "idle"
    /\ call.args.tool = "file_write" /\ call.args.mode # "append"
    => /\ \A d \in Dirs : tree.file[d] \in {call.before[d], "new"}
       /\ call.pc = "receipt" /\ call.st # "ok" => tree.file = call.before

(* The process runner leaves nothing behind: outside its loop no child is  *)
(* running or unreaped and no member of its group is alive, and a run that *)
(* succeeds returns everything the child wrote, however the exit and the   *)
(* last writes interleave with the loop.                                   *)
ProcessSettled ==
    /\ call.pc \notin {"wait", "read"} => proc.st \in {"none", "reaped"} /\ ~proc.kids
    /\ call.pc = "receipt" /\ call.args.tool = "shell" /\ call.st = "ok"
         => proc.read = proc.wrote

(* A daemon that read an active emergency stop at its boot does nothing    *)
(* with a tool in all of its life.                                         *)
NoEffectUnderStop ==
    daemon.phase = "up" /\ daemon.estop => effects = {} /\ ~call.acted

(* A file tool changes only what it was let to, and all of it or nothing   *)
(* (sc_workspace_open_parent, file_write_invoke).                          *)
FilesSound == FilesStayInside /\ WriteIsAllOrNothing
=============================================================================
